--------------------------- MODULE StreamsProofs ---------------------------
(***************************************************************************)
(* The stdin and the output of a process, for any number of feeders and    *)
(* readers, any FIFO, any body and any output: what is fed arrives in      *)
(* order and whole, what is answered about it is true, and every reader    *)
(* has what it is told it has.                                             *)
(***************************************************************************)
EXTENDS Streams, SequenceTheorems, TLAPS

-----------------------------------------------------------------------------
(* The inductive invariant *)

\* Whoever says that the command has ended says so after its end: the status,
\* the runner and the kill that reaped it, and a clean.
Deaths ==
    /\ status = "ended" => command = "gone"
    /\ runner \in {"write_status", "kill_holder", "exit"} => command = "gone"
    /\ killer \in {"killed", "done"} => command = "gone"
    /\ ~dir => command = "gone"

\* Which step belongs to which request, and how much of the body is there.
Asked(w) ==
    /\ ask[w] \notin Pipes => taken[w] = size[w]
    /\ ask[w] = "close" => size[w] = 0
    /\ feed[w] = "receive" => ask[w] \in Pipes
    /\ feed[w] \in {"kill", "kill_broken"} => ask[w] = "pipe"
    /\ feed[w] \in {"close_look", "close_status", "close_kill", "close_resolve"} =>
        ask[w] \in {"close", "run"}
    /\ feed[w] \in {"look", "status", "open", "feed"} => ask[w] # "close"
    /\ feed[w] = "fed" => ask[w] \in Runs
    /\ w \in cut => ask[w] \in Pipes

\* What is told when, and what has been written by then.
Said(w) ==
    /\ told[w] # "none" => feed[w] = "done"
    /\ told[w] = "written" => sent[w] = size[w]
    /\ told[w] = "written" /\ ask[w] = "close" => holder # "paused"
    /\ feed[w] = "receive" => sent[w] = taken[w]
    /\ feed[w] = "kill" => sent[w] = size[w] \/ w \in cut

\* As long as the command reads, one that goes on to end stdin has written
\* its body, unless the time-out or the connection kept it from that.
Fed(w) ==
    \/ ask[w] = "run" /\ feed[w] \in {"close_look", "close_status", "close_kill",
                                      "close_resolve", "fed", "done"}
    \/ ask[w] = "pipe" /\ feed[w] \in {"kill", "kill_broken", "done"}

Brought(w) == command = "reads" /\ Fed(w) => sent[w] = size[w] \/ w \in gaveUp \cup cut

\* The holder of a command that reads is ended by a kill or by a feeder.
Closed ==
    command = "reads" /\ holder # "paused" => killer # "idle" \/ \E w \in Feeders : Ended(w)

\* The units on their way, as FedInOrder has them; none is lost while there
\* is a reader, be it the holder.
Ordered(way, w, n) ==
    \A i \in DOMAIN way : way[i][1] = w =>
        /\ way[i][2] <= n
        /\ \A j \in DOMAIN way : way[j][1] = w /\ i < j => way[i][2] < way[j][2]
        /\ \A k \in 1 .. way[i][2] : \E j \in 1 .. i : way[j] = <<w, k>>

Flowing ==
    \A w \in Feeders : Ordered(Way, w, sent[w]) /\ (HasReader => Holds(Way, w, sent[w]))

FeedOK ==
    /\ StreamTypeOK /\ FeedTypeOK
    /\ Deaths
    /\ \A w \in Feeders : Asked(w) /\ Said(w) /\ Brought(w)
    /\ Closed

\* The units of the output behind a place.
Numbered(s, place) == \A i \in DOMAIN s : s[i] = place + i

\* Which step belongs to which request.
Wanted(r) ==
    /\ want[r] \in Streaming =>
        read[r] \in {"spawn", "open", "read", "status", "drain", "ended", "done", "unlinked"}
    /\ want[r] = "drain" => read[r] \in {"ask", "page", "last", "done"} /\ flight[r] = <<>>
    /\ want[r] \in {"wait", "run", "ephemeral"} =>
        read[r] \in {"idle", "poll", "size", "tail", "clean", "done"}
    /\ answer[r] # "none" => read[r] = "done" \/ (answer[r] = "completed" /\ read[r] = "clean")

\* What a stream or a drain has is the beginning of the output, and follow is
\* at the place behind what it has forwarded.
Flow(r) ==
    /\ want[r] \in Streaming \cup {"drain"} =>
        /\ Numbered(got[r], 0) /\ Numbered(flight[r], Len(got[r]))
        /\ Len(got[r]) + Len(flight[r]) <= out
    /\ read[r] \in {"read", "status", "drain", "ended"} =>
        seen[r] = Len(got[r]) + Len(flight[r])

\* Who has seen that the process is over goes on after its end; the size that
\* it reads then is the last.
Late(r) ==
    /\ read[r] \in {"size", "tail", "clean", "drain", "last"} => command = "gone"
    /\ read[r] = "tail" /\ dir => seen[r] = out
    /\ read[r] = "ended" /\ found[r] => command = "gone" /\ seen[r] = out

\* What EndedIsWhole and TailIsTrue say of one reader.
Ends(r) == answer[r] = "ended" /\ found[r] => command = "gone" /\ Len(got[r]) = out

Tails(r) ==
    answer[r] = "completed" /\ found[r] =>
        /\ command = "gone"
        /\ got[r] = From(IF out > InlineCap THEN out - InlineCap ELSE 0)
        /\ read[r] = "clean" => Len(got[r]) = out /\ out <= EphemeralCap

ReadOK ==
    /\ ReadTypeOK
    /\ \A r \in Readers :
        Wanted(r) /\ Flow(r) /\ Late(r) /\ Ends(r) /\ Tails(r)

StreamsOK == FeedOK /\ Flowing /\ ReadOK

-----------------------------------------------------------------------------
(* What no step undoes *)

\* The command ends once, and stops reading once; its output only grows, and
\* not behind its end; what is gone does not come back.
Onward ==
    /\ command = "gone" => command' = "gone" /\ out' = out
    /\ command' = "reads" => command = "reads"
    /\ out <= out'
    /\ ~dir => ~dir'
    /\ holder' = "paused" => holder = "paused"
    /\ killer # "idle" => killer' # "idle"

LEMMA KeptType ==
    ASSUME StreamTypeOK, NEW h, NEW c, NEW os
    PROVE  Kept(h, c, os) \in Seq(Unit) /\ Len(Kept(h, c, os)) <= PipeSize
<1>1. <<>> \in Seq(Unit) /\ Len(<<>>) = 0
  BY EmptySeq
<1>2. 0 <= PipeSize
  BY StreamsAssumption
<1>3. QED
  BY <1>1, <1>2 DEF Kept, StreamTypeOK

\* The command is over when any of the three says so.
LEMMA OverIsGone == Deaths /\ Over => command = "gone"
  BY DEF Deaths, Over

\* A directory that is removed is that of a command that has ended.
LEMMA RemoveStep ==
    ASSUME StreamTypeOK, Deaths, RemoveProcessDir, command = "gone"
    PROVE  StreamTypeOK' /\ Deaths' /\ Onward
<1>1. fifo' \in Seq(Unit) /\ Len(fifo') <= PipeSize
  BY KeptType DEF RemoveProcessDir
<1>2. UNCHANGED <<status, command, killer, opened, consumed, eof, out>>
  BY DEF RemoveProcessDir
<1>3. ~dir' /\ runner' = "gone" /\ holder' = "gone" /\ dir' \in BOOLEAN
  BY DEF RemoveProcessDir
<1>4. StreamTypeOK'
  BY <1>1, <1>2, <1>3 DEF StreamTypeOK
<1>5. Deaths' /\ Onward
  BY <1>2, <1>3 DEF StreamTypeOK, Deaths, Onward
<1>6. QED
  BY <1>4, <1>5

LEMMA ProcessStep ==
    ASSUME StreamTypeOK, Deaths, ProcessNext
    PROVE  StreamTypeOK' /\ Deaths' /\ Onward
<1> USE StreamsAssumption
<1>1. CASE CommandReads
  <2>1. Head(fifo) \in Unit /\ Tail(fifo) \in Seq(Unit) /\ Len(Tail(fifo)) = Len(fifo) - 1
    BY <1>1, HeadTailProperties DEF StreamTypeOK, CommandReads
  <2>2. Len(fifo) \in Nat /\ Len(fifo) <= PipeSize
    BY LenProperties DEF StreamTypeOK
  <2>3. Len(Tail(fifo)) <= PipeSize
    BY <2>1, <2>2
  <2>4. Append(consumed, Head(fifo)) \in Seq(Unit)
    BY <2>1 DEF StreamTypeOK
  <2>5. QED
    BY <1>1, <2>1, <2>3, <2>4 DEF CommandReads, StreamTypeOK, Deaths, Onward, processVars
<1>2. CASE CommandReadsEnd
  BY <1>2 DEF CommandReadsEnd, StreamTypeOK, Deaths, Onward, processVars
<1>3. CASE CommandShutsStdin
  <2>1. fifo' \in Seq(Unit) /\ Len(fifo') <= PipeSize
    BY <1>3, KeptType DEF CommandShutsStdin
  <2>2. QED
    BY <1>3, <2>1 DEF CommandShutsStdin, StreamTypeOK, Deaths, Onward
<1>4. CASE CommandWrites
  BY <1>4 DEF CommandWrites, StreamTypeOK, Deaths, Onward, processVars, pipeVars
<1>5. CASE CommandEnds
  <2>1. fifo' \in Seq(Unit) /\ Len(fifo') <= PipeSize
    BY <1>5, KeptType DEF CommandEnds
  <2>2. QED
    BY <1>5, <2>1 DEF CommandEnds, StreamTypeOK, Deaths, Onward
<1>6. CASE RunnerReaps \/ RunnerWritesStatus \/ RunnerExits
  BY <1>6 DEF RunnerReaps, RunnerWritesStatus, RunnerExits, StreamTypeOK, Deaths, Onward,
              pipeVars
<1>7. CASE RunnerKillsHolder
  <2>1. fifo' \in Seq(Unit) /\ Len(fifo') <= PipeSize
    BY <1>7, KeptType DEF RunnerKillsHolder
  <2>2. QED
    BY <1>7, <2>1 DEF RunnerKillsHolder, KilledHolder, StreamTypeOK, Deaths, Onward
<1>8. CASE KillTerm
  <2>1. fifo' \in Seq(Unit) /\ Len(fifo') <= PipeSize
    BY <1>8, KeptType DEF KillTerm
  <2>2. QED
    BY <1>8, <2>1 DEF KillTerm, StreamTypeOK, Deaths, Onward
<1>9. CASE KillKill
  <2>1. fifo' \in Seq(Unit) /\ Len(fifo') <= PipeSize
    BY <1>9, KeptType DEF KillKill
  <2>2. QED
    BY <1>9, <2>1 DEF KillKill, StreamTypeOK, Deaths, Onward
<1>10. CASE KillRecords
  BY <1>10 DEF KillRecords, StreamTypeOK, Deaths, Onward, processVars, pipeVars
<1>11. CASE Clean
  BY <1>11, OverIsGone, RemoveStep DEF Clean
<1>12. QED
  BY <1>1, <1>2, <1>3, <1>4, <1>5, <1>6, <1>7, <1>8, <1>9, <1>10, <1>11
     DEF ProcessNext, Runner, Killing

\* A status that is healed is the status of a command that has ended.
LEMMA ResolvedStep ==
    ASSUME StreamTypeOK, Deaths, Resolved, UNCHANGED <<dir, processVars, killer, pipeVars, out>>
    PROVE  StreamTypeOK' /\ Deaths' /\ Onward
  BY OverIsGone DEF Resolved, StreamTypeOK, Deaths, Onward, processVars, pipeVars

LEMMA StreamSame ==
    ASSUME StreamTypeOK, Deaths, UNCHANGED streamVars
    PROVE  StreamTypeOK' /\ Deaths' /\ Onward
  BY DEF streamVars, processVars, pipeVars, StreamTypeOK, Deaths, Onward

-----------------------------------------------------------------------------
(* A feeder's step *)

FeedTyped ==
    /\ ask \in [Feeders -> FeedOp]
    /\ size \in [Feeders -> 0 .. MaxBody]
    /\ feed \in [Feeders -> {"look", "status", "open", "feed", "receive", "kill", "kill_broken",
                             "close_look", "close_status", "close_kill", "close_resolve",
                             "fed", "done"}]
    /\ taken \in [Feeders -> 0 .. MaxBody]
    /\ sent \in [Feeders -> 0 .. MaxBody]
    /\ cut \subseteq Feeders /\ gaveUp \subseteq Feeders
    /\ told \in [Feeders -> {"none", "written", "refused", "failed", "timeout", "transport"}]

FeederOK(w) ==
    /\ sent[w] <= taken[w] /\ taken[w] <= size[w]
    /\ w \in opened <=> feed[w] \in {"feed", "receive"}
    /\ Asked(w) /\ Said(w) /\ Brought(w)

\* A step that is not w's.
Spared(w) ==
    /\ ask'[w] = ask[w] /\ size'[w] = size[w] /\ feed'[w] = feed[w]
    /\ taken'[w] = taken[w] /\ sent'[w] = sent[w] /\ told'[w] = told[w]
    /\ w \in cut' <=> w \in cut
    /\ w \in gaveUp' <=> w \in gaveUp
    /\ w \in opened' <=> w \in opened

\* What a step of w owes.
Owes(w) ==
    /\ StreamTypeOK' /\ Deaths' /\ Onward
    /\ FeedTyped' /\ (\A v \in Feeders \ {w} : Spared(v))
    /\ FeederOK(w)'

LEMMA FeedOKParts ==
    FeedOK <=> /\ StreamTypeOK /\ Deaths /\ FeedTyped
               /\ \A w \in Feeders : FeederOK(w)
               /\ Closed
  BY DEF FeedOK, FeedTypeOK, FeedTyped, FeederOK

LEMMA SparedOK ==
    ASSUME NEW v \in Feeders, FeederOK(v), Spared(v), Onward
    PROVE  FeederOK(v)'
  BY DEF FeederOK, Spared, Onward, Asked, Said, Brought, Fed

LEMMA CloseStep ==
    ASSUME StreamTypeOK, Deaths, NEW w \in Feeders, Close(w),
           UNCHANGED <<dir, status, processVars, killer, consumed, eof, out>>
    PROVE  StreamTypeOK' /\ Deaths' /\ Onward
<1>1. fifo' \in Seq(Unit) /\ Len(fifo') <= PipeSize
  BY KeptType DEF Close
<1>2. opened' \subseteq Feeders
  BY DEF Close, StreamTypeOK
<1>3. StreamTypeOK'
  BY <1>1, <1>2 DEF StreamTypeOK, processVars
<1>4. QED
  BY <1>3 DEF StreamTypeOK, Deaths, Onward, processVars

\* The end of the holder is the end of nothing else.
LEMMA HolderStep ==
    ASSUME StreamTypeOK, Deaths, holder' \in {holder, KilledHolder},
           fifo' = Kept(holder', command, opened),
           UNCHANGED <<dir, status, command, runner, killer, opened, consumed, eof, out>>
    PROVE  StreamTypeOK' /\ Deaths' /\ Onward
<1>1. fifo' \in Seq(Unit) /\ Len(fifo') <= PipeSize
  BY KeptType
<1>2. holder' \in {"paused", "zombie", "gone"} /\ (holder' = "paused" => holder = "paused")
  BY DEF StreamTypeOK, KilledHolder
<1>3. StreamTypeOK'
  BY <1>1, <1>2 DEF StreamTypeOK
<1>4. QED
  BY <1>2, <1>3 DEF StreamTypeOK, Deaths, Onward

\* A write's units.
LEMMA UnitsType ==
    ASSUME NEW w \in Feeders, NEW from \in Nat, NEW n \in Nat
    PROVE  /\ Units(w, from, n) \in Seq(Unit)
           /\ Len(Units(w, from, n)) = n
           /\ \A i \in 1 .. n : Units(w, from, n)[i] = <<w, from + i>>
<1>1. \A i \in 1 .. n : <<w, from + i>> \in Unit
  BY DEF Unit
<1>2. QED
  BY <1>1 DEF Units

\* What a write takes is what there is room for, and no more than there is.
LEMMA WriteTakes ==
    ASSUME StreamTypeOK, FeedTyped, NEW w \in Feeders, Write(w)
    PROVE  \E n \in Nat \ {0} :
              /\ fifo' = fifo \o Units(w, sent[w], n)
              /\ sent' = [sent EXCEPT ![w] = @ + n]
              /\ n <= Room /\ sent[w] + n <= taken[w]
<1> DEFINE n == IF Room < Unwritten(w) THEN Room ELSE Unwritten(w)
<1>1. Room \in Nat /\ Room > 0
  BY StreamsAssumption, LenProperties DEF StreamTypeOK, Room, Write
<1>2. sent[w] \in Nat /\ taken[w] \in Nat /\ sent[w] < taken[w]
  BY FeedAssumption DEF FeedTyped, Write, Writing
<1>3. n \in Nat \ {0} /\ n <= Room /\ sent[w] + n <= taken[w]
  BY <1>1, <1>2 DEF Unwritten
<1>4. fifo' = fifo \o Units(w, sent[w], n) /\ sent' = [sent EXCEPT ![w] = @ + n]
  BY DEF Write
<1>5. QED
  BY <1>3, <1>4

\* The steps that look, open, time out or break before they write.
LEMMA OpeningOwes ==
    ASSUME StreamTypeOK, Deaths, FeedTyped, NEW w \in Feeders, FeederOK(w),
           Look(w) \/ CheckStatus(w) \/ OpenNonblocking(w) \/ OpenBlocking(w)
    PROVE  Owes(w)
<1> USE FeedAssumption DEF Goto, Tell, EndFeed, AfterFeed, Runs, Pipes
<1>1. CASE Look(w)
  <2>1. StreamTypeOK' /\ Deaths' /\ Onward
    BY <1>1, StreamSame DEF Look
  <2>2. FeedTyped' /\ \A v \in Feeders \ {w} : Spared(v)
    BY <1>1 DEF Look, FeedTyped, Spared, streamVars, pipeVars
  <2>3. FeederOK(w)'
    BY <1>1, <2>1 DEF Look, FeedTyped, FeederOK, Asked, Said, Brought, Fed, streamVars, pipeVars,
                      processVars, Deaths
  <2>4. QED
    BY <2>1, <2>2, <2>3 DEF Owes
<1>2. CASE CheckStatus(w)
  <2>1. StreamTypeOK' /\ Deaths' /\ Onward
    BY <1>2, StreamSame DEF CheckStatus
  <2>2. FeedTyped' /\ \A v \in Feeders \ {w} : Spared(v)
    BY <1>2 DEF CheckStatus, FeedTyped, Spared, streamVars, pipeVars
  <2>3. FeederOK(w)'
    BY <1>2, <2>1 DEF CheckStatus, FeedTyped, FeederOK, Asked, Said, Brought, Fed, streamVars,
                      pipeVars, processVars, Deaths
  <2>4. QED
    BY <2>1, <2>2, <2>3 DEF Owes
<1>3. CASE OpenNonblocking(w) \/ OpenBlocking(w)
  <2>1. StreamTypeOK' /\ Deaths' /\ Onward
    BY <1>3 DEF OpenNonblocking, OpenBlocking, StreamTypeOK, Deaths, Onward, processVars
  <2>2. FeedTyped' /\ \A v \in Feeders \ {w} : Spared(v)
    BY <1>3 DEF OpenNonblocking, OpenBlocking, FeedTyped, Spared, streamVars, pipeVars
  <2>3. FeederOK(w)'
    BY <1>3 DEF OpenNonblocking, OpenBlocking, FeedTyped, FeederOK, Asked, Said, Brought, Fed,
                processVars, Deaths, HasReader
  <2>4. QED
    BY <2>1, <2>2, <2>3 DEF Owes
<1>4. QED
  BY <1>1, <1>2, <1>3

\* The write loop.
LEMMA WritingOwes ==
    ASSUME StreamTypeOK, Deaths, FeedTyped, NEW w \in Feeders, FeederOK(w),
           Write(w) \/ Written(w) \/ TimesOut(w) \/ WriteBroken(w)
    PROVE  Owes(w)
<1> USE FeedAssumption DEF Goto, Tell, EndFeed, AfterFeed, Runs, Pipes
<1>1. CASE Write(w)
  <2>1. PICK n \in Nat \ {0} : /\ fifo' = fifo \o Units(w, sent[w], n)
                               /\ sent' = [sent EXCEPT ![w] = @ + n]
                               /\ n <= Room /\ sent[w] + n <= taken[w]
    BY <1>1, WriteTakes
  <2>2. sent[w] \in Nat /\ taken[w] \in 0 .. MaxBody
    BY DEF FeedTyped
  <2>3. Units(w, sent[w], n) \in Seq(Unit) /\ Len(Units(w, sent[w], n)) = n
    BY <2>1, <2>2, UnitsType
  <2>4. fifo' \in Seq(Unit) /\ Len(fifo') = Len(fifo) + n
    BY <2>1, <2>3, ConcatProperties DEF StreamTypeOK
  <2>5. Len(fifo) \in Nat /\ PipeSize \in Nat
    BY StreamsAssumption, LenProperties DEF StreamTypeOK
  <2>6. Len(fifo') <= PipeSize
    BY <2>1, <2>4, <2>5 DEF Room
  <2>7. StreamTypeOK' /\ Deaths' /\ Onward
    BY <1>1, <2>4, <2>6 DEF Write, StreamTypeOK, Deaths, Onward, processVars
  <2>8. sent' \in [Feeders -> 0 .. MaxBody] /\ sent'[w] = sent[w] + n
    BY <2>1, <2>2 DEF FeedTyped
  <2>9. FeedTyped' /\ \A v \in Feeders \ {w} : Spared(v)
    BY <1>1, <2>1, <2>8 DEF Write, FeedTyped, Spared
  <2>10. FeederOK(w)'
    BY <1>1, <2>1, <2>2, <2>8 DEF Write, Writing, FeederOK, Asked, Said, Brought, Fed, processVars
  <2>11. QED
    BY <2>7, <2>9, <2>10 DEF Owes
<1>2. CASE Written(w)
  <2>1. StreamTypeOK' /\ Deaths' /\ Onward
    <3>1. CASE ask[w] \in Pipes
      <4>1. UNCHANGED streamVars
        BY <1>2, <3>1 DEF Written, streamVars, pipeVars
      <4>2. QED
        BY <4>1, StreamSame
    <3>2. CASE ask[w] \notin Pipes
      BY <1>2, <3>2, CloseStep DEF Written
    <3>3. QED
      BY <3>1, <3>2
  <2>2. FeedTyped' /\ \A v \in Feeders \ {w} : Spared(v)
    BY <1>2 DEF Written, FeedTyped, Spared, Close
  <2>3. FeederOK(w)'
    BY <1>2 DEF Written, Close, FeedTyped, FeederOK, Asked, Said, Brought, Fed, processVars,
                StreamTypeOK
  <2>4. QED
    BY <2>1, <2>2, <2>3 DEF Owes
<1>3. CASE TimesOut(w)
  <2>1. StreamTypeOK' /\ Deaths' /\ Onward
    BY <1>3, CloseStep DEF TimesOut
  <2>2. FeedTyped' /\ \A v \in Feeders \ {w} : Spared(v)
    BY <1>3 DEF TimesOut, FeedTyped, Spared, Close
  <2>3. FeederOK(w)'
    BY <1>3 DEF TimesOut, Writing, Close, FeedTyped, FeederOK, Asked, Said, Brought, Fed,
                processVars, StreamTypeOK
  <2>4. QED
    BY <2>1, <2>2, <2>3 DEF Owes
<1>4. CASE WriteBroken(w)
  <2>1. StreamTypeOK' /\ Deaths' /\ Onward
    BY <1>4, CloseStep DEF WriteBroken
  <2>2. FeedTyped' /\ \A v \in Feeders \ {w} : Spared(v)
    BY <1>4 DEF WriteBroken, FeedTyped, Spared, Close
  <2>3. FeederOK(w)'
    BY <1>4 DEF WriteBroken, Writing, HasReader, Close, FeedTyped, FeederOK, Asked, Said, Brought,
                Fed, processVars, StreamTypeOK
  <2>4. QED
    BY <2>1, <2>2, <2>3 DEF Owes
<1>5. QED
  BY <1>1, <1>2, <1>3, <1>4

\* The stream from rx, and what ends it.
LEMMA PipeOwes ==
    ASSUME StreamTypeOK, Deaths, FeedTyped, NEW w \in Feeders, FeederOK(w),
           Receive(w) \/ ReceiveEnd(w) \/ PipeKills(w) \/ CutPipe(w)
    PROVE  Owes(w)
<1> USE FeedAssumption DEF Goto, Tell, Pipes
<1>1. CASE Receive(w)
  <2>1. StreamTypeOK' /\ Deaths' /\ Onward
    BY <1>1, StreamSame DEF Receive
  <2>2. PICK n \in 1 .. Chunk : taken[w] + n <= size[w] /\ taken' = [taken EXCEPT ![w] = @ + n]
    BY <1>1 DEF Receive
  <2>3. taken[w] \in Nat /\ size[w] \in 0 .. MaxBody /\ n \in Nat
    BY <2>2 DEF FeedTyped
  <2>4. taken' \in [Feeders -> 0 .. MaxBody] /\ taken'[w] = taken[w] + n
    BY <2>2, <2>3 DEF FeedTyped
  <2>5. FeedTyped' /\ \A v \in Feeders \ {w} : Spared(v)
    BY <1>1, <2>2, <2>4 DEF Receive, FeedTyped, Spared, streamVars, pipeVars
  <2>6. sent[w] \in Nat /\ sent[w] <= taken'[w] /\ taken'[w] <= size[w]
    BY <2>2, <2>3, <2>4 DEF FeedTyped, FeederOK
  <2>7. FeederOK(w)'
    BY <1>1, <2>6 DEF Receive, FeedTyped, FeederOK, Asked, Said, Brought, Fed, streamVars,
                      pipeVars, processVars
  <2>8. QED
    BY <2>1, <2>5, <2>7 DEF Owes
<1>2. CASE ReceiveEnd(w)
  <2>1. StreamTypeOK' /\ Deaths' /\ Onward
    BY <1>2, CloseStep DEF ReceiveEnd
  <2>2. FeedTyped' /\ \A v \in Feeders \ {w} : Spared(v)
    BY <1>2 DEF ReceiveEnd, FeedTyped, Spared, Close, FeederOK, Asked
  <2>3. FeederOK(w)'
    BY <1>2 DEF ReceiveEnd, Close, FeedTyped, FeederOK, Asked, Said, Brought, Fed, processVars,
                StreamTypeOK
  <2>4. QED
    BY <2>1, <2>2, <2>3 DEF Owes
<1>3. CASE PipeKills(w)
  <2>1. StreamTypeOK' /\ Deaths' /\ Onward
    BY <1>3, HolderStep DEF PipeKills
  <2>2. FeedTyped' /\ \A v \in Feeders \ {w} : Spared(v)
    BY <1>3 DEF PipeKills, FeedTyped, Spared
  <2>3. FeederOK(w)'
    BY <1>3, <2>1 DEF PipeKills, FeedTyped, FeederOK, Asked, Said, Brought, Fed, Onward
  <2>4. QED
    BY <2>1, <2>2, <2>3 DEF Owes
<1>4. CASE CutPipe(w)
  <2>1. StreamTypeOK' /\ Deaths' /\ Onward
    BY <1>4, StreamSame DEF CutPipe
  <2>2. FeedTyped' /\ \A v \in Feeders \ {w} : Spared(v)
    BY <1>4 DEF CutPipe, FeedTyped, Spared, streamVars, pipeVars
  <2>3. FeederOK(w)'
    BY <1>4 DEF CutPipe, FeedTyped, FeederOK, Asked, Said, Brought, Fed, streamVars, pipeVars,
                processVars
  <2>4. QED
    BY <2>1, <2>2, <2>3 DEF Owes
<1>5. QED
  BY <1>1, <1>2, <1>3, <1>4

\* close_stdin.
LEMMA CloseOwes ==
    ASSUME StreamTypeOK, Deaths, FeedTyped, NEW w \in Feeders, FeederOK(w),
           CloseLook(w) \/ CloseStatus(w) \/ CloseKills(w) \/ CloseResolves(w)
    PROVE  Owes(w)
<1> USE FeedAssumption DEF Goto, Tell, EndClose, Pipes, Runs
<1>1. CASE CloseLook(w)
  <2>1. StreamTypeOK' /\ Deaths' /\ Onward
    BY <1>1, StreamSame DEF CloseLook
  <2>2. FeedTyped' /\ \A v \in Feeders \ {w} : Spared(v)
    BY <1>1 DEF CloseLook, FeedTyped, Spared, streamVars, pipeVars
  <2>3. FeederOK(w)'
    BY <1>1 DEF CloseLook, FeedTyped, FeederOK, Asked, Said, Brought, Fed, streamVars, pipeVars,
                processVars
  <2>4. QED
    BY <2>1, <2>2, <2>3 DEF Owes
<1>2. CASE CloseStatus(w)
  <2>1. StreamTypeOK' /\ Deaths' /\ Onward
    BY <1>2, StreamSame DEF CloseStatus
  <2>2. FeedTyped' /\ \A v \in Feeders \ {w} : Spared(v)
    BY <1>2 DEF CloseStatus, FeedTyped, Spared, streamVars, pipeVars
  <2>3. FeederOK(w)'
    BY <1>2 DEF CloseStatus, FeedTyped, FeederOK, Asked, Said, Brought, Fed, streamVars, pipeVars,
                processVars
  <2>4. QED
    BY <2>1, <2>2, <2>3 DEF Owes
<1>3. CASE CloseKills(w)
  <2>1. holder' \in {holder, KilledHolder} /\ fifo' \in {fifo, Kept(holder', command, opened)}
    BY <1>3 DEF CloseKills
  <2>2. StreamTypeOK' /\ Deaths' /\ Onward
    <3>1. CASE fifo' = Kept(holder', command, opened)
      BY <1>3, <2>1, <3>1, HolderStep DEF CloseKills
    <3>2. CASE UNCHANGED <<holder, fifo>>
      <4>1. UNCHANGED streamVars
        BY <1>3, <3>2 DEF CloseKills, streamVars, processVars, pipeVars
      <4>2. QED
        BY <4>1, StreamSame
    <3>3. QED
      BY <1>3, <3>1, <3>2 DEF CloseKills
  <2>3. FeedTyped' /\ \A v \in Feeders \ {w} : Spared(v)
    BY <1>3 DEF CloseKills, FeedTyped, Spared
  <2>4. told'[w] = "written" => holder' # "paused"
    BY <1>3 DEF CloseKills, KilledHolder, FeederOK, Said, FeedTyped
  <2>5. FeederOK(w)'
    BY <1>3, <2>4 DEF CloseKills, FeedTyped, FeederOK, Asked, Said, Brought, Fed
  <2>6. QED
    BY <2>2, <2>3, <2>5 DEF Owes
<1>4. CASE CloseResolves(w)
  <2>1. StreamTypeOK' /\ Deaths' /\ Onward
    BY <1>4, ResolvedStep DEF CloseResolves
  <2>2. FeedTyped' /\ \A v \in Feeders \ {w} : Spared(v)
    BY <1>4 DEF CloseResolves, FeedTyped, Spared, pipeVars
  <2>3. FeederOK(w)'
    BY <1>4 DEF CloseResolves, FeedTyped, FeederOK, Asked, Said, Brought, Fed, pipeVars,
                processVars
  <2>4. QED
    BY <2>1, <2>2, <2>3 DEF Owes
<1>5. QED
  BY <1>1, <1>2, <1>3, <1>4

LEMMA FeederOwes ==
    ASSUME StreamTypeOK, Deaths, FeedTyped, NEW w \in Feeders, FeederOK(w),
           Feed(w) \/ CutPipe(w)
    PROVE  Owes(w)
  BY OpeningOwes, WritingOwes, PipeOwes, CloseOwes DEF Feed

-----------------------------------------------------------------------------
(* What feeders and readers share with the process *)

\* A reader's step touches the process only by a status that it heals, and by
\* a directory that it removes, of a command that has ended.
LEMMA ReaderStep ==
    ASSUME StreamTypeOK, Deaths, ReadNext,
           \A r \in Readers : read[r] = "clean" => command = "gone"
    PROVE  /\ StreamTypeOK' /\ Deaths' /\ Onward
           /\ UNCHANGED <<killer, opened, consumed, eof>>
           /\ fifo' = fifo \/ fifo' = Kept(holder', command', opened')
           /\ holder' = holder \/ command = "gone"
<1>1. PICK r \in Readers :
        \/ PollEnded(r) \/ PollTimesOut(r) \/ Tailing(r)
        \/ Following(r) \/ Arrive(r) \/ Break(r)
        \/ CacheCleared(r) \/ CacheLost(r) \/ Drain(r)
  BY DEF ReadNext
<1>2. CASE PollEnded(r) \/ DrainAsk(r)
  <2>1. Resolved /\ UNCHANGED <<dir, processVars, killer, pipeVars, out>>
    BY <1>2 DEF PollEnded, DrainAsk
  <2>2. QED
    BY <2>1, ResolvedStep DEF pipeVars, processVars
<1>3. CASE EphemeralClean(r)
  <2>1. RemoveProcessDir /\ command = "gone"
    BY <1>3 DEF EphemeralClean
  <2>2. QED
    BY <2>1, RemoveStep DEF RemoveProcessDir
<1>4. CASE UNCHANGED streamVars
  BY <1>4, StreamSame DEF streamVars, pipeVars, processVars
<1>5. PollEnded(r) \/ DrainAsk(r) \/ EphemeralClean(r) \/ UNCHANGED streamVars
  BY <1>1 DEF PollTimesOut, Tailing, TailSize, TailRead, Following, FollowOpen, FollowRead,
              FollowStatus, FollowDrain, StreamEnds, CacheSpawn, CacheRunsOut, Arrive, Break,
              CacheCleared, CacheLost, Drain, DrainGone, DrainRead
<1>6. QED
  BY <1>2, <1>3, <1>4, <1>5

\* A feeder that ended stdin stays one that did.
LEMMA EndedStays ==
    ASSUME NEW w \in Feeders, NEW v \in Feeders, FeederOK(w), Owes(w),
           feed[w] \notin {"fed", "done"}, Ended(v)
    PROVE  Ended(v)'
<1>1. CASE Spared(v)
  BY <1>1 DEF Spared, Ended
<1>2. CASE ~Spared(v)
  <2>1. v = w /\ feed[w] \notin {"fed", "done"}
    BY <1>2 DEF Owes
  <2>2. QED
    BY <2>1 DEF Ended, FeederOK, Said
<1>3. QED
  BY <1>1, <1>2

\* The holder is there, or was ended by one who may.
LEMMA FeederClosed ==
    ASSUME FeedOK, NEW w \in Feeders, Feed(w) \/ CutPipe(w), Owes(w)
    PROVE  Closed'
<1>1. FeederOK(w) /\ FeedTyped /\ Closed /\ Deaths
  BY FeedOKParts
<1>2. SUFFICES ASSUME command' = "reads", holder' # "paused", ~(killer' # "idle")
               PROVE  \E v \in Feeders : Ended(v)'
  BY DEF Closed
<1>3. command = "reads" /\ killer = "idle" /\ dir
  BY <1>1, <1>2 DEF Owes, Onward, Deaths
<1>4. CASE holder # "paused"
  <2>1. PICK v \in Feeders : Ended(v)
    BY <1>1, <1>3, <1>4 DEF Closed
  <2>2. feed[w] \notin {"fed", "done"}
    BY <1>1 DEF Feed, Look, CheckStatus, OpenNonblocking, OpenBlocking, Write, Writing, Written,
           TimesOut, WriteBroken, Receive, ReceiveEnd, PipeKills, CutPipe, CloseLook,
           CloseStatus, CloseKills, CloseResolves, FeederOK, Asked, Runs, Pipes
  <2>3. QED
    BY <1>1, <2>1, <2>2, EndedStays
<1>5. CASE holder = "paused"
  <2>1. PipeKills(w) \/ CloseKills(w)
    BY <1>2, <1>5 DEF Feed, Look, CheckStatus, OpenNonblocking, OpenBlocking, Write, Written,
           TimesOut, WriteBroken, Receive, ReceiveEnd, CutPipe, CloseLook,
           CloseStatus, CloseResolves, streamVars, processVars
  <2>2. CASE PipeKills(w)
    BY <1>1, <2>2 DEF PipeKills, Tell, Goto, FeedTyped, Ended, FeederOK, Asked
  <2>3. CASE CloseKills(w)
    BY <1>1, <1>2, <1>5, <2>3 DEF CloseKills, EndClose, Tell, Goto, FeedTyped, Ended, FeederOK,
           Asked, Pipes
  <2>4. QED
    BY <2>1, <2>2, <2>3
<1>6. QED
  BY <1>4, <1>5

\* A step of the process, and one of a reader, leave the feeders alone.
LEMMA SameFeeders ==
    ASSUME FeedOK, Onward, UNCHANGED <<feedVars, opened>>
    PROVE  FeedTyped' /\ \A v \in Feeders : FeederOK(v)' /\ (Ended(v) => Ended(v)')
<1>1. \A v \in Feeders : Spared(v) /\ FeederOK(v)
  BY FeedOKParts DEF Spared, feedVars
<1>2. QED
  BY <1>1, SparedOK, FeedOKParts DEF FeedTyped, feedVars, Ended

LEMMA ProcessFeedOK ==
    ASSUME FeedOK, ProcessNext, UNCHANGED feedVars
    PROVE  FeedOK'
<1>1. StreamTypeOK /\ Deaths /\ Closed
  BY FeedOKParts
<1>2. StreamTypeOK' /\ Deaths' /\ Onward
  BY <1>1, ProcessStep
<1>3. opened' = opened
  BY DEF ProcessNext, CommandReads, CommandReadsEnd, CommandShutsStdin, CommandWrites, CommandEnds,
         Runner, RunnerReaps, RunnerWritesStatus, RunnerKillsHolder, RunnerExits, KillTerm, Killing,
         KillKill, KillRecords, Clean, RemoveProcessDir, pipeVars
<1>4. command = "reads" => holder' = holder \/ killer' # "idle"
  BY <1>1, OverIsGone DEF ProcessNext, CommandReads, CommandReadsEnd, CommandShutsStdin,
         CommandWrites, CommandEnds, Runner, RunnerReaps, RunnerWritesStatus, RunnerKillsHolder,
         RunnerExits, KillTerm, Killing, KillKill, KillRecords, Clean, processVars, Deaths
<1>5. FeedTyped' /\ \A v \in Feeders : FeederOK(v)' /\ (Ended(v) => Ended(v)')
  BY <1>2, <1>3, SameFeeders
<1>6. Closed'
  BY <1>1, <1>2, <1>4, <1>5 DEF Closed, Onward
<1>7. QED
  BY <1>2, <1>5, <1>6, FeedOKParts DEF FeedOK, FeedTypeOK, FeedTyped, FeederOK

LEMMA ReaderFeedOK ==
    ASSUME FeedOK, ReadNext, UNCHANGED feedVars,
           \A r \in Readers : read[r] = "clean" => command = "gone"
    PROVE  FeedOK'
<1>1. StreamTypeOK /\ Deaths /\ Closed
  BY FeedOKParts
<1>2. /\ StreamTypeOK' /\ Deaths' /\ Onward
      /\ UNCHANGED <<killer, opened>>
      /\ holder' = holder \/ command = "gone"
  BY <1>1, ReaderStep
<1>3. FeedTyped' /\ \A v \in Feeders : FeederOK(v)' /\ (Ended(v) => Ended(v)')
  BY <1>2, SameFeeders
<1>4. Closed'
  BY <1>1, <1>2, <1>3 DEF Closed, Onward
<1>5. QED
  BY <1>2, <1>3, <1>4 DEF FeedOK, FeedTypeOK, FeedTyped, FeederOK

LEMMA FeederFeedOK ==
    ASSUME FeedOK, FeedNext
    PROVE  FeedOK' /\ Onward
<1>1. PICK w \in Feeders : Feed(w) \/ CutPipe(w)
  BY DEF FeedNext
<1>2. Owes(w)
  BY <1>1, FeedOKParts, FeederOwes
<1>3. Closed'
  BY <1>1, <1>2, FeederClosed
<1>4. \A v \in Feeders : FeederOK(v)'
  BY <1>2, FeedOKParts, SparedOK DEF Owes
<1>5. QED
  BY <1>2, <1>3, <1>4 DEF Owes, FeedOK, FeedTypeOK, FeedTyped, FeederOK

-----------------------------------------------------------------------------
(* The units on their way *)

\* A step that brings no unit and loses those in the pipe, if it does, with
\* its last reader.
Sheds ==
    /\ consumed' = consumed
    /\ fifo' = fifo \/ (fifo' = <<>> /\ ~HasReader')

LEMMA KeptSheds ==
    ASSUME consumed' = consumed, fifo' = fifo \/ fifo' = Kept(holder', command', opened')
    PROVE  Sheds
  BY DEF Sheds, Kept, HasReader

\* The order is that of any beginning of the way.
LEMMA OrderedPrefix ==
    ASSUME NEW s \in Seq(Unit), NEW t \in Seq(Unit), NEW w, NEW n, Ordered(s \o t, w, n)
    PROVE  Ordered(s, w, n)
<1>1. /\ DOMAIN s = 1 .. Len(s) /\ DOMAIN (s \o t) = 1 .. Len(s) + Len(t)
      /\ Len(s) \in Nat /\ Len(t) \in Nat
      /\ \A i \in 1 .. Len(s) : (s \o t)[i] = s[i]
  BY ConcatProperties, LenProperties
<1>2. ASSUME NEW i \in DOMAIN s, s[i][1] = w
      PROVE  /\ s[i][2] <= n
             /\ \A j \in DOMAIN s : s[j][1] = w /\ i < j => s[i][2] < s[j][2]
             /\ \A k \in 1 .. s[i][2] : \E j \in 1 .. i : s[j] = <<w, k>>
  <2>1. i \in DOMAIN (s \o t) /\ (s \o t)[i] = s[i]
    BY <1>1
  <2>2. s[i][2] <= n
    BY <1>2, <2>1 DEF Ordered
  <2>3. ASSUME NEW j \in DOMAIN s, s[j][1] = w, i < j PROVE s[i][2] < s[j][2]
    <3>1. j \in DOMAIN (s \o t) /\ (s \o t)[j] = s[j]
      BY <1>1
    <3>2. QED
      BY <1>2, <2>1, <2>3, <3>1 DEF Ordered
  <2>4. ASSUME NEW k \in 1 .. s[i][2] PROVE \E j \in 1 .. i : s[j] = <<w, k>>
    <3>1. PICK j \in 1 .. i : (s \o t)[j] = <<w, k>>
      BY <1>2, <2>1 DEF Ordered
    <3>2. j \in 1 .. Len(s)
      BY <1>1
    <3>3. QED
      BY <1>1, <3>1, <3>2
  <2>5. QED
    BY <2>2, <2>3, <2>4
<1>3. QED
  BY <1>2 DEF Ordered

LEMMA ShedFlowing ==
    ASSUME StreamTypeOK, Flowing, Sheds, Onward, sent' = sent
    PROVE  Flowing'
<1>1. HasReader' => HasReader
  BY DEF HasReader, Onward
<1>2. CASE fifo' = fifo
  <2>1. Way' = Way
    BY <1>2 DEF Way, Sheds
  <2>2. QED
    BY <1>1, <2>1 DEF Flowing, Ordered, Holds
<1>3. CASE fifo' = <<>> /\ ~HasReader'
  <2>1. consumed \in Seq(Unit) /\ fifo \in Seq(Unit)
    BY DEF StreamTypeOK
  <2>2. Way' = consumed
    BY <1>3, <2>1, ConcatEmptySeq DEF Way, Sheds
  <2>3. \A w \in Feeders : Ordered(consumed, w, sent[w])
    BY <2>1, OrderedPrefix DEF Flowing, Way
  <2>4. \A w \in Feeders : Ordered(Way, w, sent[w])'
    BY <2>2, <2>3 DEF Ordered
  <2>5. QED
    BY <1>3, <2>4 DEF Flowing
<1>4. QED
  BY <1>2, <1>3 DEF Sheds

\* What the command reads it takes from the front of the pipe.
LEMMA ReadFlowing ==
    ASSUME StreamTypeOK, Flowing, CommandReads, sent' = sent
    PROVE  Flowing'
<1>1. consumed \in Seq(Unit) /\ fifo \in Seq(Unit) /\ fifo # <<>>
  BY DEF StreamTypeOK, CommandReads
<1> DEFINE h == Head(fifo)
           t == Tail(fifo)
<1>2. h \in Unit /\ t \in Seq(Unit)
  BY <1>1, HeadTailProperties
<1>3. <<h>> \in Seq(Unit) /\ Append(consumed, h) = consumed \o <<h>>
  BY <1>1, <1>2
<1>4. fifo = <<h>> \o t
  BY <1>1
<1>5. (consumed \o <<h>>) \o t = consumed \o (<<h>> \o t)
  BY <1>1, <1>2, <1>3, ConcatAssociative
<1>6. Way' = Way
  BY <1>3, <1>4, <1>5 DEF Way, CommandReads
<1>7. UNCHANGED <<holder, command>>
  BY DEF CommandReads, processVars
<1>8. QED
  BY <1>6, <1>7 DEF Flowing, Ordered, Holds, HasReader

\* What is written goes behind what its writer has written before.
LEMMA WriteFlowing ==
    ASSUME StreamTypeOK, FeedTyped, Flowing, NEW w \in Feeders, Write(w)
    PROVE  Flowing'
<1>1. PICK n \in Nat \ {0} : /\ fifo' = fifo \o Units(w, sent[w], n)
                             /\ sent' = [sent EXCEPT ![w] = @ + n]
                             /\ n <= Room /\ sent[w] + n <= taken[w]
  BY WriteTakes
<1> DEFINE m == sent[w]
           us == Units(w, m, n)
           l  == Len(Way)
<1>2. HasReader /\ UNCHANGED <<consumed, holder, command>>
  BY DEF Write, processVars
<1>3. m \in Nat /\ n \in Nat
  BY <1>1, FeedAssumption DEF FeedTyped
<1>4. us \in Seq(Unit) /\ Len(us) = n /\ \A i \in 1 .. n : us[i] = <<w, m + i>>
  BY <1>3, UnitsType
<1>5. consumed \in Seq(Unit) /\ fifo \in Seq(Unit) /\ Way \in Seq(Unit)
  BY DEF StreamTypeOK, Way
<1>6. Way' = Way \o us
  BY <1>1, <1>2, <1>4, <1>5, ConcatAssociative DEF Way
<1>7. l \in Nat /\ DOMAIN Way = 1 .. l /\ \A i \in 1 .. l : Way[i][2] \in Nat
  BY <1>5, LenProperties DEF Unit
<1>8. /\ DOMAIN Way' = 1 .. l + n
      /\ \A i \in 1 .. l : Way'[i] = Way[i]
      /\ \A i \in 1 .. n : Way'[l + i] = <<w, m + i>>
  <2>1. Way' \in Seq(Unit) /\ Len(Way') = l + n
    BY <1>4, <1>5, <1>6, ConcatProperties
  <2>2. DOMAIN Way' = 1 .. l + n
    BY <2>1, LenProperties
  <2>3. \A i \in 1 .. l + n : Way'[i] = IF i <= l THEN Way[i] ELSE us[i - l]
    BY <1>4, <1>5, <1>6, ConcatProperties
  <2> HIDE DEF l, us
  <2>4. \A i \in 1 .. n : l + i \in 1 .. l + n /\ ~(l + i <= l) /\ (l + i) - l = i
    BY <1>3, <1>7
  <2>5. \A i \in 1 .. l : i \in 1 .. l + n /\ i <= l
    BY <1>3, <1>7
  <2>6. QED
    BY <1>4, <2>2, <2>3, <2>4, <2>5
<1>9. sent'[w] = m + n /\ \A v \in Feeders \ {w} : sent'[v] = sent[v]
  BY <1>1 DEF FeedTyped
<1>10. /\ \A v \in Feeders : Ordered(Way, v, sent[v]) /\ Holds(Way, v, sent[v])
       /\ \A v \in Feeders : sent[v] \in Nat
  BY <1>2, FeedAssumption DEF Flowing, FeedTyped
<1> HIDE DEF l, us, m
<1>11. \A i \in 1 .. l + n : i \in 1 .. l \/ \E k \in 1 .. n : i = l + k
  <2> SUFFICES ASSUME NEW i \in 1 .. l + n, i \notin 1 .. l PROVE \E k \in 1 .. n : i = l + k
    OBVIOUS
  <2>1. i - l \in 1 .. n /\ i = l + (i - l)
    BY <1>3, <1>7
  <2>2. QED
    BY <2>1
<1>12. ASSUME NEW v \in Feeders \ {w} PROVE Ordered(Way', v, sent'[v]) /\ Holds(Way', v, sent'[v])
  <2>1. \A i \in 1 .. l + n : Way'[i][1] = v => i \in 1 .. l
    BY <1>8, <1>11
  <2>2. \A i \in 1 .. l : i \in 1 .. l + n /\ Way'[i] = Way[i]
    BY <1>3, <1>7, <1>8
  <2>3. Ordered(Way', v, sent[v])
    <3>1. SUFFICES ASSUME NEW i \in 1 .. l, Way[i][1] = v
                   PROVE  /\ Way[i][2] <= sent[v]
                          /\ \A j \in 1 .. l : Way[j][1] = v /\ i < j => Way[i][2] < Way[j][2]
                          /\ \A k \in 1 .. Way[i][2] : \E j \in 1 .. i : Way'[j] = <<v, k>>
      BY <1>8, <2>1, <2>2 DEF Ordered
    <3>2. /\ Way[i][2] <= sent[v]
          /\ \A j \in 1 .. l : Way[j][1] = v /\ i < j => Way[i][2] < Way[j][2]
          /\ \A k \in 1 .. Way[i][2] : \E j \in 1 .. i : Way[j] = <<v, k>>
      BY <1>7, <1>10, <3>1 DEF Ordered
    <3>3. \A j \in 1 .. i : j \in 1 .. l
      BY <1>7
    <3>4. QED
      BY <2>2, <3>2, <3>3
  <2>4. Holds(Way', v, sent[v])
    BY <1>7, <1>8, <1>10, <2>2 DEF Holds
  <2>5. QED
    BY <1>9, <2>3, <2>4
<1>13. Holds(Way', w, m + n)
  <2> SUFFICES ASSUME NEW k \in 1 .. m + n PROVE \E i \in DOMAIN Way' : Way'[i] = <<w, k>>
    BY DEF Holds
  <2>1. CASE k \in 1 .. m
    <3>1. PICK i \in 1 .. l : Way[i] = <<w, k>>
      BY <1>7, <1>10, <2>1 DEF Holds, m
    <3>2. i \in 1 .. l + n
      BY <1>3, <1>7
    <3>3. QED
      BY <1>8, <3>1, <3>2
  <2>2. CASE k \notin 1 .. m
    <3>1. k - m \in 1 .. n /\ m + (k - m) = k /\ l + (k - m) \in 1 .. l + n
      BY <1>3, <1>7, <2>2
    <3>2. QED
      BY <1>8, <3>1
  <2>3. QED
    BY <2>1, <2>2
<1>14. Ordered(Way', w, m + n)
  <2>1. ASSUME NEW i \in 1 .. l, Way[i][1] = w
        PROVE  /\ Way[i][2] <= m /\ Way[i][2] \in Nat
               /\ \A j \in 1 .. l : Way[j][1] = w /\ i < j => Way[i][2] < Way[j][2]
               /\ \A k \in 1 .. Way[i][2] : \E j \in 1 .. i : Way[j] = <<w, k>>
    BY <1>7, <1>10, <2>1 DEF Ordered, m
  <2>2. ASSUME NEW i \in 1 .. l + n, Way'[i][1] = w PROVE Way'[i][2] <= m + n
    <3>1. CASE i \in 1 .. l
      <4>1. Way'[i][2] \in Nat /\ Way'[i][2] <= m
        BY <1>8, <2>1, <2>2, <3>1
      <4>2. QED
        BY <1>3, <4>1
    <3>2. CASE i \notin 1 .. l
      <4>1. PICK a \in 1 .. n : i = l + a
        BY <1>11, <3>2
      <4>2. Way'[i][2] = m + a
        BY <1>8, <4>1
      <4>3. QED
        BY <1>3, <4>2
    <3>3. QED
      BY <3>1, <3>2
  <2>3. ASSUME NEW i \in 1 .. l + n, NEW j \in 1 .. l + n,
               Way'[i][1] = w, Way'[j][1] = w, i < j
        PROVE  Way'[i][2] < Way'[j][2]
    <3>1. CASE j \in 1 .. l
      <4>1. i \in 1 .. l
        BY <1>7, <2>3, <3>1
      <4>2. QED
        BY <1>8, <2>1, <2>3, <3>1, <4>1
    <3>2. CASE i \in 1 .. l /\ j \notin 1 .. l
      <4>1. PICK k \in 1 .. n : j = l + k
        BY <1>11, <3>2
      <4>2. Way'[i][2] \in Nat /\ Way'[i][2] <= m /\ Way'[j][2] = m + k
        BY <1>8, <2>1, <2>3, <3>2, <4>1
      <4>3. QED
        BY <1>3, <4>2
    <3>3. CASE i \notin 1 .. l /\ j \notin 1 .. l
      <4>1. PICK a \in 1 .. n : i = l + a
        BY <1>11, <3>3
      <4>2. PICK b \in 1 .. n : j = l + b
        BY <1>11, <3>3
      <4>3. a < b /\ Way'[i][2] = m + a /\ Way'[j][2] = m + b
        BY <1>3, <1>7, <1>8, <2>3, <4>1, <4>2
      <4>4. QED
        BY <1>3, <4>3
    <3>4. QED
      BY <3>1, <3>2, <3>3
  <2>4. ASSUME NEW i \in 1 .. l + n, Way'[i][1] = w, NEW k \in 1 .. Way'[i][2]
        PROVE  \E j \in 1 .. i : Way'[j] = <<w, k>>
    <3>1. CASE i \in 1 .. l
      <4>1. PICK j \in 1 .. i : Way[j] = <<w, k>>
        BY <1>8, <2>1, <2>4, <3>1
      <4>2. j \in 1 .. l
        BY <1>7, <3>1
      <4>3. QED
        BY <1>8, <4>1, <4>2
    <3>2. CASE i \notin 1 .. l
      <4>1. PICK a \in 1 .. n : i = l + a
        BY <1>11, <3>2
      <4>2. k \in 1 .. m + a /\ m + a <= m + n
        BY <1>3, <1>8, <2>4, <4>1
      <4>3. CASE k \in 1 .. m
        <5>1. PICK j \in 1 .. l : Way[j] = <<w, k>>
          BY <1>7, <1>10, <4>3 DEF Holds, m
        <5>2. j \in 1 .. i
          BY <1>3, <1>7, <4>1
        <5>3. QED
          BY <1>8, <5>1, <5>2
      <4>4. CASE k \notin 1 .. m
        <5>1. /\ k - m \in 1 .. n /\ m + (k - m) = k
              /\ l + (k - m) \in 1 .. i
          BY <1>3, <1>7, <4>1, <4>2, <4>4
        <5>2. QED
          BY <1>8, <5>1
      <4>5. QED
        BY <4>3, <4>4
    <3>3. QED
      BY <3>1, <3>2
  <2>5. QED
    BY <1>8, <2>2, <2>3, <2>4 DEF Ordered
<1>15. \A v \in Feeders : Ordered(Way', v, sent'[v]) /\ Holds(Way', v, sent'[v])
  BY <1>9, <1>12, <1>13, <1>14
<1>16. QED
  BY <1>15 DEF Flowing, Ordered, Holds

-----------------------------------------------------------------------------
(* A reader's step *)

ReadTyped ==
    /\ want \in [Readers -> ReadOp]
    /\ read \in [Readers -> {"idle", "poll", "size", "tail", "clean", "open", "read", "status",
                             "drain", "ended", "done", "spawn", "unlinked",
                             "ask", "page", "last"}]
    /\ seen \in [Readers -> 0 .. MaxOut]
    /\ found \in [Readers -> BOOLEAN]
    /\ flight \in [Readers -> Seq(1 .. MaxOut)]
    /\ got \in [Readers -> Seq(1 .. MaxOut)]
    /\ answer \in [Readers -> {"none", "running", "completed", "ended", "broken", "cleared",
                               "lost", "drained", "not_found"}]
    /\ breaks \in 0 .. MaxBreaks

ReaderOK(r) ==
    /\ flight[r] # <<>> => read[r] \in {"read", "status", "drain", "ended"}
    /\ Wanted(r) /\ Flow(r) /\ Late(r) /\ Ends(r) /\ Tails(r)

\* A step that is not r's.
Passed(r) ==
    /\ want'[r] = want[r] /\ read'[r] = read[r] /\ seen'[r] = seen[r] /\ found'[r] = found[r]
    /\ flight'[r] = flight[r] /\ got'[r] = got[r] /\ answer'[r] = answer[r]

\* What a step of r owes.
ReaderOwes(r) == ReadTyped' /\ (\A q \in Readers \ {r} : Passed(q)) /\ ReaderOK(r)'

LEMMA ReadOKParts == ReadOK <=> ReadTyped /\ \A r \in Readers : ReaderOK(r)
  BY DEF ReadOK, ReadTypeOK, ReadTyped, ReaderOK

LEMMA LengthsAreNat ==
    ASSUME StreamTypeOK, ReadTyped, NEW r \in Readers
    PROVE  Len(got[r]) \in Nat /\ Len(flight[r]) \in Nat /\ seen[r] \in Nat /\ out \in Nat
<1>1. got[r] \in Seq(1 .. MaxOut) /\ flight[r] \in Seq(1 .. MaxOut)
  BY DEF ReadTyped
<1>2. seen[r] \in 0 .. MaxOut /\ out \in 0 .. MaxOut
  BY DEF ReadTyped, StreamTypeOK
<1>3. QED
  BY <1>1, <1>2, LenProperties

LEMMA PassedOK ==
    ASSUME StreamTypeOK, StreamTypeOK', ReadTyped, NEW r \in Readers, ReaderOK(r), Passed(r), Onward
    PROVE  ReaderOK(r)'
<1>1. Len(got[r]) \in Nat /\ Len(flight[r]) \in Nat /\ out \in Nat
  BY LengthsAreNat
<1>2. out' \in Nat /\ out <= out'
  BY DEF StreamTypeOK, Onward
<1>3. (flight[r] # <<>> => read[r] \in {"read", "status", "drain", "ended"})' /\ Wanted(r)'
  BY DEF ReaderOK, Wanted, Passed
<1>4. Flow(r)'
  <2> DEFINE g == Len(got[r])
             f == Len(flight[r])
  <2>1. g \in Nat /\ f \in Nat
    BY <1>1
  <2> HIDE DEF g, f
  <2>2. g + f <= out => g + f <= out'
    BY <1>1, <1>2, <2>1
  <2>3. QED
    BY <2>2 DEF ReaderOK, Flow, Passed, Numbered, g, f
<1>5. Late(r)'
  BY DEF ReaderOK, Late, Passed, Onward
<1>6. Ends(r)'
  BY DEF ReaderOK, Ends, Passed, Onward
<1>7. Tails(r)'
  BY DEF ReaderOK, Tails, Passed, Onward, From
<1>8. QED
  BY <1>3, <1>4, <1>5, <1>6, <1>7 DEF ReaderOK

\* The file behind a place.
LEMMA FromIs ==
    ASSUME StreamTypeOK, NEW place \in 0 .. out
    PROVE  /\ From(place) \in Seq(1 .. MaxOut)
           /\ Len(From(place)) = out - place
           /\ \A i \in 1 .. out - place : From(place)[i] = place + i
<1>1. out \in Nat /\ out <= MaxOut /\ place \in Nat /\ out - place \in Nat
  BY DEF StreamTypeOK
<1>2. \A i \in 1 .. out - place : place + i \in 1 .. MaxOut
  BY <1>1, StreamsAssumption
<1>3. QED
  BY <1>1, <1>2 DEF From

LEMMA NumberedConcat ==
    ASSUME NEW S, NEW s \in Seq(S), NEW t \in Seq(S), NEW place \in Nat,
           Numbered(s, place), Numbered(t, place + Len(s))
    PROVE  Numbered(s \o t, place)
<1>1. Len(s) \in Nat /\ Len(t) \in Nat /\ DOMAIN s = 1 .. Len(s) /\ DOMAIN t = 1 .. Len(t)
  BY LenProperties
<1>2. /\ DOMAIN (s \o t) = 1 .. Len(s) + Len(t)
      /\ \A i \in 1 .. Len(s) + Len(t) :
            (s \o t)[i] = IF i <= Len(s) THEN s[i] ELSE t[i - Len(s)]
  <2>1. s \o t \in Seq(S) /\ Len(s \o t) = Len(s) + Len(t)
    BY ConcatProperties
  <2>2. DOMAIN (s \o t) = 1 .. Len(s \o t)
    BY <2>1, LenProperties
  <2>3. QED
    BY <2>1, <2>2, ConcatProperties
<1> SUFFICES ASSUME NEW i \in 1 .. Len(s) + Len(t) PROVE (s \o t)[i] = place + i
  BY <1>2 DEF Numbered
<1>3. CASE i <= Len(s)
  <2>1. i \in 1 .. Len(s)
    BY <1>1, <1>3
  <2>2. QED
    BY <1>1, <1>2, <1>3, <2>1 DEF Numbered
<1>4. CASE ~(i <= Len(s))
  <2>1. i - Len(s) \in 1 .. Len(t)
    BY <1>1, <1>4
  <2>2. t[i - Len(s)] = (place + Len(s)) + (i - Len(s))
    BY <1>1, <2>1 DEF Numbered
  <2>3. (place + Len(s)) + (i - Len(s)) = place + i
    BY <1>1
  <2>4. QED
    BY <1>2, <1>4, <2>2, <2>3
<1>5. QED
  BY <1>3, <1>4

\* A part of a numbered file, and where it begins.
LEMMA NumberedPart ==
    ASSUME NEW S, NEW s \in Seq(S), NEW place \in Nat, Numbered(s, place),
           NEW a \in Nat, NEW b \in Nat, b <= Len(s)
    PROVE  /\ SubSeq(s, a + 1, b) \in Seq(S)
           /\ Len(SubSeq(s, a + 1, b)) = IF a < b THEN b - a ELSE 0
           /\ Numbered(SubSeq(s, a + 1, b), place + a)
<1>1. Len(s) \in Nat /\ DOMAIN s = 1 .. Len(s) /\ \A i \in 1 .. Len(s) : s[i] \in S
  BY LenProperties
<1>2. \A i \in a + 1 .. b : i \in 1 .. Len(s)
  BY <1>1
<1>3. \A i \in a + 1 .. b : s[i] \in S
  BY <1>1, <1>2
<1> DEFINE t == SubSeq(s, a + 1, b)
<1>4. /\ t \in Seq(S)
      /\ Len(t) = IF a + 1 <= b THEN b - (a + 1) + 1 ELSE 0
      /\ \A i \in 1 .. b - (a + 1) + 1 : t[i] = s[(a + 1) + i - 1]
  BY <1>3, SubSeqProperties
<1>5. DOMAIN t = 1 .. Len(t)
  BY <1>4, LenProperties
<1> HIDE DEF t
<1>6. Len(t) = IF a < b THEN b - a ELSE 0
  BY <1>4
<1>7. ASSUME NEW i \in 1 .. Len(t) PROVE t[i] = (place + a) + i
  <2>1. i \in 1 .. b - (a + 1) + 1 /\ (a + 1) + i - 1 = a + i /\ a + i \in 1 .. Len(s)
    BY <1>1, <1>6
  <2>2. t[i] = s[a + i]
    BY <1>4, <2>1
  <2>3. s[a + i] = place + (a + i)
    BY <1>1, <2>1 DEF Numbered
  <2>4. place + (a + i) = (place + a) + i
    BY <2>1
  <2>5. QED
    BY <2>2, <2>3, <2>4
<1>8. QED
  BY <1>4, <1>5, <1>6, <1>7 DEF Numbered, t

\* wait and run: the poll, the size and the tail.
LEMMA TailOwes ==
    ASSUME StreamTypeOK, Deaths, ReadTyped, NEW r \in Readers, ReaderOK(r),
           PollEnded(r) \/ PollTimesOut(r) \/ Tailing(r)
    PROVE  ReaderOwes(r)
<1> USE DEF ReadAt, Answer, Streaming
<1>1. want[r] \in ReadOp /\ (read[r] \in {"poll", "size", "tail", "clean"} =>
                                want[r] \in {"wait", "run", "ephemeral"} /\ flight[r] = <<>>)
  BY DEF ReadTyped, ReaderOK, Wanted, ReadOp
<1>2. CASE PollEnded(r)
  <2>1. command' = command /\ command = "gone"
    BY <1>2, OverIsGone DEF PollEnded, processVars
  <2>2. ReadTyped' /\ \A q \in Readers \ {r} : Passed(q)
    BY <1>2 DEF PollEnded, ReadTyped, Passed
  <2>3. ReaderOK(r)'
    BY <1>1, <1>2, <2>1 DEF PollEnded, ReadTyped, ReaderOK, Wanted, Flow, Late, Ends, Tails
  <2>4. QED
    BY <2>2, <2>3 DEF ReaderOwes
<1>3. CASE PollTimesOut(r)
  <2>1. ReadTyped' /\ \A q \in Readers \ {r} : Passed(q)
    BY <1>3 DEF PollTimesOut, ReadTyped, Passed
  <2>2. ReaderOK(r)'
    BY <1>1, <1>3 DEF PollTimesOut, ReadTyped, ReaderOK, Wanted, Flow, Late, Ends, Tails
  <2>3. QED
    BY <2>1, <2>2 DEF ReaderOwes
<1>4. CASE TailSize(r)
  <2>1. UNCHANGED <<dir, command, out>>
    BY <1>4 DEF TailSize, streamVars, processVars
  <2>2. ReadTyped' /\ \A q \in Readers \ {r} : Passed(q)
    <3>1. (IF dir THEN out ELSE 0) \in 0 .. MaxOut
      BY StreamsAssumption DEF StreamTypeOK
    <3>2. QED
      BY <1>4, <3>1 DEF TailSize, ReadTyped, Passed
  <2>3. ReaderOK(r)'
    BY <1>1, <1>4, <2>1 DEF TailSize, ReadTyped, ReaderOK, Wanted, Flow, Late, Ends, Tails
  <2>4. QED
    BY <2>2, <2>3 DEF ReaderOwes
<1>5. CASE TailRead(r)
  <2>1. UNCHANGED <<dir, command, out>> /\ command = "gone"
    BY <1>5 DEF TailRead, streamVars, processVars, ReaderOK, Late
  <2>2. dir => seen[r] = out
    BY <1>5 DEF TailRead, ReaderOK, Late
  <2>3. seen[r] \in Nat /\ out \in Nat /\ InlineCap \in Nat
    BY LengthsAreNat, ReadAssumption
  <2>4. dir => /\ TailStart(r) \in 0 .. out
               /\ TailStart(r) = IF out > InlineCap THEN out - InlineCap ELSE 0
    BY <2>2, <2>3 DEF TailStart
  <2>5. dir => /\ From(TailStart(r)) \in Seq(1 .. MaxOut)
               /\ Len(From(TailStart(r))) = out - TailStart(r)
    BY <2>4, FromIs
  <2>6. got' \in [Readers -> Seq(1 .. MaxOut)]
    <3>1. (IF dir THEN From(TailStart(r)) ELSE <<>>) \in Seq(1 .. MaxOut)
      BY <2>5, EmptySeq
    <3>2. QED
      BY <1>5, <3>1 DEF TailRead, ReadTyped
  <2>7. ReadTyped' /\ \A q \in Readers \ {r} : Passed(q)
    BY <1>5, <2>6 DEF TailRead, ReadTyped, Passed, StreamTypeOK
  <2>8. /\ read'[r] = IF Removable(r) THEN "clean" ELSE "done"
        /\ answer'[r] = "completed" /\ found'[r] = dir
        /\ dir => got'[r] = From(TailStart(r))
        /\ UNCHANGED <<want, seen, flight>>
    BY <1>5 DEF TailRead, ReadTyped
  <2>9. /\ want'[r] \in {"wait", "run", "ephemeral"} /\ flight'[r] = <<>>
        /\ read'[r] \in {"clean", "done"} /\ command' = "gone"
    BY <1>1, <1>5, <2>1, <2>8 DEF TailRead
  <2>10. Tails(r)'
    <3>1. SUFFICES ASSUME dir
                   PROVE  /\ got'[r] = From(IF out > InlineCap THEN out - InlineCap ELSE 0)'
                          /\ read'[r] = "clean" => Len(got'[r]) = out /\ out <= EphemeralCap
      BY <2>1, <2>8 DEF Tails
    <3>2. got'[r] = From(IF out > InlineCap THEN out - InlineCap ELSE 0)'
      BY <2>1, <2>4, <2>8, <3>1 DEF From
    <3>3. ASSUME read'[r] = "clean" PROVE Len(got'[r]) = out /\ out <= EphemeralCap
      BY <2>2, <2>3, <2>5, <2>8, <3>1, <3>3 DEF Removable
    <3>4. QED
      BY <3>2, <3>3
  <2>11. (flight[r] # <<>> => read[r] \in {"read", "status", "drain", "ended"})'
         /\ Wanted(r)' /\ Flow(r)' /\ Late(r)' /\ Ends(r)'
    BY <2>8, <2>9 DEF Wanted, Flow, Late, Ends
  <2>12. QED
    BY <2>7, <2>10, <2>11 DEF ReaderOwes, ReaderOK
<1>6. CASE EphemeralClean(r)
  <2>1. UNCHANGED <<command, out>>
    BY <1>6 DEF EphemeralClean, RemoveProcessDir
  <2>2. ReadTyped' /\ \A q \in Readers \ {r} : Passed(q)
    BY <1>6 DEF EphemeralClean, ReadTyped, Passed
  <2>3. ReaderOK(r)'
    BY <1>1, <1>6, <2>1 DEF EphemeralClean, ReadTyped, ReaderOK, Wanted, Flow, Late, Ends, Tails, From
  <2>4. QED
    BY <2>2, <2>3 DEF ReaderOwes
<1>7. QED
  BY <1>2, <1>3, <1>4, <1>5, <1>6 DEF Tailing

\* One read of follow goes behind what it has forwarded.
LEMMA ForwardIs ==
    ASSUME StreamTypeOK, ReadTyped, NEW r \in Readers, ReaderOK(r),
           read[r] \in {"read", "drain"}, Forward(r)
    PROVE  /\ seen' \in [Readers -> 0 .. MaxOut] /\ flight' \in [Readers -> Seq(1 .. MaxOut)]
           /\ \A q \in Readers \ {r} : seen'[q] = seen[q] /\ flight'[q] = flight[q]
           /\ seen'[r] = Len(got[r]) + Len(flight'[r]) /\ seen'[r] <= out
           /\ Numbered(flight'[r], Len(got[r]))
<1> DEFINE n == IF out - seen[r] < Buffer THEN out - seen[r] ELSE Buffer
           g == Len(got[r])
           f == Len(flight[r])
           part == SubSeq(From(seen[r]), 1, n)
<1>1. g \in Nat /\ f \in Nat /\ seen[r] \in Nat /\ out \in Nat /\ out <= MaxOut /\ out > seen[r]
  BY LengthsAreNat DEF Forward, StreamTypeOK
<1>2. n \in Nat /\ seen[r] + n <= out
  BY <1>1, ReadAssumption
<1>3. seen[r] = g + f /\ Numbered(flight[r], g)
  BY DEF ReaderOK, Wanted, Flow, ReadTyped, ReadOp, Streaming
<1>4. /\ From(seen[r]) \in Seq(1 .. MaxOut) /\ Len(From(seen[r])) = out - seen[r]
      /\ Numbered(From(seen[r]), seen[r])
  <2>1. seen[r] \in 0 .. out
    BY <1>1
  <2>2. QED
    BY <2>1, FromIs, LenProperties DEF Numbered
<1>5. part \in Seq(1 .. MaxOut) /\ Len(part) = n /\ Numbered(part, seen[r])
  <2>1. n <= Len(From(seen[r]))
    BY <1>1, <1>2, <1>4
  <2> HIDE DEF n
  <2>2. /\ SubSeq(From(seen[r]), 0 + 1, n) \in Seq(1 .. MaxOut)
        /\ Len(SubSeq(From(seen[r]), 0 + 1, n)) = IF 0 < n THEN n - 0 ELSE 0
        /\ Numbered(SubSeq(From(seen[r]), 0 + 1, n), seen[r] + 0)
    BY <1>1, <1>2, <1>4, <2>1, NumberedPart
  <2>3. 0 + 1 = 1 /\ (IF 0 < n THEN n - 0 ELSE 0) = n /\ seen[r] + 0 = seen[r]
    BY <1>1, <1>2
  <2>4. QED
    BY <2>2, <2>3
<1>6. /\ seen' = [seen EXCEPT ![r] = @ + n]
      /\ flight' = [flight EXCEPT ![r] = @ \o part]
  BY DEF Forward
<1>7. flight[r] \in Seq(1 .. MaxOut)
  BY DEF ReadTyped
<1> HIDE DEF n, part, g, f
<1>8. flight[r] \o part \in Seq(1 .. MaxOut) /\ Len(flight[r] \o part) = f + n
  BY <1>5, <1>7, ConcatProperties DEF f
<1>9. Numbered(flight[r] \o part, g)
  BY <1>1, <1>3, <1>5, <1>7, NumberedConcat DEF f
<1>10. flight'[r] = flight[r] \o part /\ seen'[r] = seen[r] + n
  BY <1>6 DEF ReadTyped
<1>11. seen[r] + n \in 0 .. MaxOut /\ seen[r] + n = g + (f + n)
  BY <1>1, <1>2, <1>3, StreamsAssumption
<1>12. seen' \in [Readers -> 0 .. MaxOut] /\ flight' \in [Readers -> Seq(1 .. MaxOut)]
  BY <1>6, <1>8, <1>11 DEF ReadTyped
<1>13. QED
  BY <1>2, <1>6, <1>8, <1>9, <1>10, <1>11, <1>12 DEF ReadTyped, g

\* follow on the host: it begins, reads, looks at the status, and drains.
LEMMA FollowOwes ==
    ASSUME StreamTypeOK, Deaths, ReadTyped, NEW r \in Readers, ReaderOK(r), Following(r)
    PROVE  ReaderOwes(r)
<1> USE DEF ReadAt, Answer, Streaming
<1>1. /\ want[r] \in ReadOp
      /\ read[r] \in {"open", "read", "status", "drain", "ended", "spawn", "unlinked"} =>
            want[r] \in {"follow", "cache"}
      /\ read[r] # "done" /\ read[r] # "clean" => answer[r] = "none"
  BY DEF ReadTyped, ReaderOK, Wanted, ReadOp
<1>2. UNCHANGED streamVars /\ UNCHANGED <<dir, command, out>>
  BY DEF Following, FollowOpen, FollowRead, FollowStatus, FollowDrain, StreamEnds, CacheSpawn,
         CacheRunsOut, streamVars, processVars
<1>3. Len(got[r]) \in Nat /\ Len(flight[r]) \in Nat /\ seen[r] \in Nat /\ out \in Nat
  BY LengthsAreNat
<1>4. CASE FollowOpen(r)
  <2>1. flight[r] = <<>> /\ Len(<<>>) = 0 /\ Len(got[r]) + Len(flight[r]) <= out
    BY <1>1, <1>4 DEF FollowOpen, ReaderOK, Flow
  <2> DEFINE g == Len(got[r])
  <2>2. g \in 0 .. MaxOut /\ g = g + Len(flight[r])
    <3>1. g \in Nat /\ g + 0 <= out
      BY <1>3, <2>1
    <3>2. out <= MaxOut /\ MaxOut \in Nat
      BY StreamsAssumption DEF StreamTypeOK
    <3> HIDE DEF g
    <3>3. QED
      BY <1>3, <2>1, <3>1, <3>2
  <2>3. ReadTyped' /\ \A q \in Readers \ {r} : Passed(q)
    BY <1>4, <2>2 DEF FollowOpen, ReadTyped, Passed, StreamTypeOK
  <2>4. seen'[r] = Len(got[r]) + Len(flight[r])
    BY <1>4, <2>2 DEF FollowOpen, ReadTyped
  <2>5. ReaderOK(r)'
    BY <1>1, <1>2, <1>4, <2>1, <2>4 DEF FollowOpen, ReadTyped, ReaderOK, Wanted, Flow, Late, Ends,
                                        Tails, Numbered
  <2>6. QED
    BY <2>3, <2>5 DEF ReaderOwes
<1>5. CASE read[r] \in {"read", "drain"} /\ Forward(r) /\ UNCHANGED read
           /\ UNCHANGED <<streamVars, want, found, got, answer, breaks>>
  <2>1. /\ seen' \in [Readers -> 0 .. MaxOut] /\ flight' \in [Readers -> Seq(1 .. MaxOut)]
        /\ \A q \in Readers \ {r} : seen'[q] = seen[q] /\ flight'[q] = flight[q]
        /\ seen'[r] = Len(got[r]) + Len(flight'[r]) /\ seen'[r] <= out
        /\ Numbered(flight'[r], Len(got[r]))
    BY <1>5, ForwardIs
  <2>2. ReadTyped' /\ \A q \in Readers \ {r} : Passed(q)
    BY <1>5, <2>1 DEF ReadTyped, Passed
  <2>3. Flow(r)'
    BY <1>1, <1>2, <1>5, <2>1 DEF ReaderOK, Flow, Numbered
  <2>4. ReaderOK(r)'
    BY <1>1, <1>2, <1>5, <2>3 DEF ReaderOK, Wanted, Late, Ends, Tails
  <2>5. QED
    BY <2>2, <2>4 DEF ReaderOwes
<1>6. CASE /\ \/ read[r] = "read" /\ out = seen[r] /\ ReadAt(r, "status")
              \/ read[r] = "drain" /\ out = seen[r] /\ ReadAt(r, "ended")
           /\ UNCHANGED <<streamVars, want, seen, flight, found, got, answer, breaks>>
  <2>1. ReadTyped' /\ \A q \in Readers \ {r} : Passed(q)
    BY <1>6 DEF ReadTyped, Passed
  <2>2. ReaderOK(r)'
    BY <1>1, <1>2, <1>6 DEF ReadTyped, ReaderOK, Wanted, Flow, Late, Ends, Tails, Numbered
  <2>3. QED
    BY <2>1, <2>2 DEF ReaderOwes
<1>7. CASE FollowStatus(r)
  <2>1. ReadTyped' /\ \A q \in Readers \ {r} : Passed(q)
    BY <1>7 DEF FollowStatus, ReadTyped, Passed
  <2>2. ReaderOK(r)'
    BY <1>1, <1>2, <1>7 DEF FollowStatus, ReadTyped, ReaderOK, Wanted, Flow, Late, Ends, Tails, Numbered, Deaths
  <2>3. QED
    BY <2>1, <2>2 DEF ReaderOwes
<1>8. CASE StreamEnds(r)
  <2>1. found[r] => command = "gone" /\ Len(got[r]) = out
    <3>1. flight[r] = <<>> /\ Len(<<>>) = 0
      BY <1>8 DEF StreamEnds
    <3>2. seen[r] = Len(got[r]) + 0
      BY <1>8, <3>1 DEF StreamEnds, ReaderOK, Flow
    <3>3. QED
      BY <1>3, <1>8, <3>2 DEF StreamEnds, ReaderOK, Late
  <2>2. ReadTyped' /\ \A q \in Readers \ {r} : Passed(q)
    BY <1>8 DEF StreamEnds, ReadTyped, Passed
  <2>3. ReaderOK(r)'
    BY <1>1, <1>2, <1>8, <2>1 DEF StreamEnds, ReadTyped, ReaderOK, Wanted, Flow, Late, Ends, Tails, Numbered
  <2>4. QED
    BY <2>2, <2>3 DEF ReaderOwes
<1>9. CASE CacheSpawn(r) \/ CacheRunsOut(r)
  <2>1. ReadTyped' /\ \A q \in Readers \ {r} : Passed(q)
    BY <1>9 DEF CacheSpawn, CacheRunsOut, ReadTyped, Passed
  <2>2. ReaderOK(r)'
    BY <1>1, <1>2, <1>9 DEF CacheSpawn, CacheRunsOut, ReadTyped, ReaderOK, Wanted, Flow, Late, Ends,
                            Tails, Numbered
  <2>3. QED
    BY <2>1, <2>2 DEF ReaderOwes
<1>10. QED
  BY <1>4, <1>5, <1>6, <1>7, <1>8, <1>9 DEF Following, FollowRead, FollowDrain

\* The client of a stream, and what breaks, loses or clears it.
LEMMA ClientOwes ==
    ASSUME StreamTypeOK, Deaths, ReadTyped, NEW r \in Readers, ReaderOK(r),
           Arrive(r) \/ Break(r) \/ CacheCleared(r) \/ CacheLost(r)
    PROVE  ReaderOwes(r)
<1> USE DEF ReadAt, Answer, Streaming
<1>1. /\ want[r] \in ReadOp
      /\ read[r] \in {"open", "read", "status", "drain", "ended", "spawn", "unlinked"} =>
            want[r] \in {"follow", "cache"}
      /\ read[r] # "done" /\ read[r] # "clean" => answer[r] = "none"
  BY DEF ReadTyped, ReaderOK, Wanted, ReadOp
<1>2. UNCHANGED streamVars /\ UNCHANGED <<dir, command, out>>
  BY DEF Arrive, Break, CacheCleared, CacheLost, streamVars, processVars
<1>3. Len(got[r]) \in Nat /\ Len(flight[r]) \in Nat /\ seen[r] \in Nat /\ out \in Nat
  BY LengthsAreNat
<1>4. <<>> \in Seq(1 .. MaxOut) /\ Len(<<>>) = 0 /\ \A place : Numbered(<<>>, place)
  BY EmptySeq DEF Numbered
<1>5. CASE Arrive(r)
  <2> DEFINE h == Head(flight[r])
             t == Tail(flight[r])
             g == Len(got[r])
             f == Len(flight[r])
  <2>1. got[r] \in Seq(1 .. MaxOut) /\ flight[r] \in Seq(1 .. MaxOut) /\ flight[r] # <<>>
    BY <1>5 DEF Arrive, ReadTyped
  <2>2. /\ h \in 1 .. MaxOut /\ t \in Seq(1 .. MaxOut) /\ Len(t) = f - 1
        /\ \A i \in 1 .. Len(t) : t[i] = flight[r][i + 1]
    BY <2>1, HeadTailProperties
  <2>3. h = flight[r][1] /\ f \in Nat \ {0} /\ DOMAIN flight[r] = 1 .. f /\ g \in Nat
    BY <1>3, <2>1, LenProperties, EmptySeq
  <2>4. read[r] \in {"read", "status", "drain", "ended"} /\ want[r] \in {"follow", "cache"}
    BY <1>1, <2>1 DEF ReaderOK
  <2>5. /\ Numbered(got[r], 0) /\ Numbered(flight[r], g) /\ g + f <= out /\ seen[r] = g + f
    BY <2>4 DEF ReaderOK, Flow
  <2>6. DOMAIN t = 1 .. Len(t)
    BY <2>2, LenProperties
  <2>7. Append(got[r], h) \in Seq(1 .. MaxOut) /\ Len(Append(got[r], h)) = g + 1
    BY <2>1, <2>2
  <2>8. /\ DOMAIN Append(got[r], h) = 1 .. g + 1
        /\ \A i \in 1 .. g + 1 : Append(got[r], h)[i] = IF i = g + 1 THEN h ELSE got[r][i]
    <3>1. DOMAIN Append(got[r], h) = 1 .. g + 1
      BY <2>7, LenProperties
    <3>2. ASSUME NEW s \in Seq(1 .. MaxOut), NEW e \in 1 .. MaxOut, NEW i \in 1 .. Len(s) + 1
          PROVE  Append(s, e)[i] = IF i = Len(s) + 1 THEN e ELSE s[i]
      OBVIOUS
    <3>3. QED
      BY <2>1, <2>2, <3>1, <3>2
  <2>9. DOMAIN got[r] = 1 .. g
    BY <2>1, LenProperties
  <2>10. /\ got'[r] = Append(got[r], h) /\ flight'[r] = t
         /\ got' \in [Readers -> Seq(1 .. MaxOut)] /\ flight' \in [Readers -> Seq(1 .. MaxOut)]
         /\ \A q \in Readers \ {r} : got'[q] = got[q] /\ flight'[q] = flight[q]
    BY <1>5, <2>2, <2>7 DEF Arrive, ReadTyped
  <2> HIDE DEF h, t, g, f
  <2>11. h = g + 1
    BY <2>3, <2>5 DEF Numbered
  <2>12. Numbered(got'[r], 0)
    <3>1. ASSUME NEW i \in 1 .. g + 1 PROVE Append(got[r], h)[i] = 0 + i
      <4>1. CASE i = g + 1
        BY <2>3, <2>8, <2>11, <4>1
      <4>2. CASE i # g + 1
        <5>1. i \in 1 .. g
          BY <2>3, <4>2
        <5>2. QED
          BY <2>5, <2>8, <2>9, <4>2, <5>1 DEF Numbered
      <4>3. QED
        BY <4>1, <4>2
    <3>2. QED
      BY <2>8, <2>10, <3>1 DEF Numbered
  <2>13. Numbered(flight'[r], g + 1)
    <3>1. ASSUME NEW i \in 1 .. Len(t) PROVE t[i] = (g + 1) + i
      <4>1. i + 1 \in 1 .. f
        BY <2>2, <2>3
      <4>2. t[i] = g + (i + 1)
        BY <2>2, <2>3, <2>5, <4>1 DEF Numbered
      <4>3. QED
        BY <2>3, <4>2
    <3>2. QED
      BY <2>6, <2>10, <3>1 DEF Numbered
  <2>14. Len(got'[r]) = g + 1 /\ Len(flight'[r]) = f - 1 /\ (g + 1) + (f - 1) = g + f
    BY <2>2, <2>3, <2>7, <2>10
  <2>15. Flow(r)'
    BY <1>2, <1>5, <2>5, <2>12, <2>13, <2>14 DEF Arrive, Flow
  <2>16. ReadTyped' /\ \A q \in Readers \ {r} : Passed(q)
    BY <1>5, <2>10 DEF Arrive, ReadTyped, Passed
  <2>17. ReaderOK(r)'
    BY <1>1, <1>2, <1>5, <2>4, <2>15 DEF Arrive, ReaderOK, Wanted, Late, Ends, Tails
  <2>18. QED
    BY <2>16, <2>17 DEF ReaderOwes
<1>6. CASE Break(r) \/ CacheLost(r)
  <2>1. flight'[r] = <<>> /\ want[r] \in {"follow", "cache"} /\ UNCHANGED <<want, seen, found, got>>
    BY <1>6 DEF Break, CacheLost, ReadTyped
  <2>2. Numbered(got[r], 0) /\ Len(got[r]) + 0 <= out
    <3>1. Numbered(got[r], 0) /\ Len(got[r]) + Len(flight[r]) <= out
      BY <2>1 DEF ReaderOK, Flow
    <3> DEFINE g == Len(got[r])
               f == Len(flight[r])
    <3> HIDE DEF g, f
    <3>2. g \in Nat /\ f \in Nat /\ out \in Nat /\ g + f <= out => g + 0 <= out
      OBVIOUS
    <3>3. QED
      BY <1>3, <3>1, <3>2 DEF g, f
  <2>3. ReadTyped' /\ \A q \in Readers \ {r} : Passed(q)
    <3>1. breaks' \in 0 .. MaxBreaks
      BY <1>6, ReadAssumption DEF Break, CacheLost, ReadTyped
    <3>2. /\ read' \in [Readers -> {"idle", "poll", "size", "tail", "clean", "open", "read",
                                    "status", "drain", "ended", "done", "spawn", "unlinked",
                                    "ask", "page", "last"}]
          /\ \A q \in Readers \ {r} : read'[q] = read[q]
      BY <1>6 DEF Break, CacheLost, ReadTyped
    <3>3. /\ answer' \in [Readers -> {"none", "running", "completed", "ended", "broken",
                                      "cleared", "lost", "drained", "not_found"}]
          /\ \A q \in Readers \ {r} : answer'[q] = answer[q]
      BY <1>6 DEF Break, CacheLost, ReadTyped
    <3>4. /\ flight' \in [Readers -> Seq(1 .. MaxOut)]
          /\ \A q \in Readers \ {r} : flight'[q] = flight[q]
      <4>1. flight' = [flight EXCEPT ![r] = <<>>]
        BY <1>6 DEF Break, CacheLost
      <4>2. <<>> \in Seq(1 .. MaxOut)
        BY EmptySeq
      <4>3. QED
        BY <4>1, <4>2 DEF ReadTyped
    <3>5. QED
      BY <2>1, <3>1, <3>2, <3>3, <3>4 DEF ReadTyped, Passed
  <2>4. /\ read'[r] \in {"open", "spawn", "done"}
        /\ answer'[r] = answer[r] \/ (read'[r] = "done" /\ answer'[r] \in {"broken", "cleared", "lost"})
        /\ read[r] # "done"
    BY <1>6 DEF Break, CacheLost, ReadTyped
  <2>5. answer[r] = "none"
    BY <2>1, <2>4 DEF ReaderOK, Wanted
  <2>6. ReaderOK(r)'
    BY <1>2, <1>4, <2>1, <2>2, <2>4, <2>5 DEF ReaderOK, Wanted, Flow, Late, Ends, Tails
  <2>7. QED
    BY <2>3, <2>6 DEF ReaderOwes
<1>7. CASE CacheCleared(r)
  <2>1. /\ flight'[r] = <<>> /\ got'[r] = <<>> /\ want[r] = "cache"
        /\ UNCHANGED <<want, seen, found>>
    BY <1>7 DEF CacheCleared, ReadTyped
  <2>2. ReadTyped' /\ \A q \in Readers \ {r} : Passed(q)
    BY <1>4, <1>7 DEF CacheCleared, ReadTyped, Passed
  <2>3. \/ read'[r] = "done" /\ answer'[r] = "cleared"
        \/ read'[r] = "unlinked" /\ answer'[r] = answer[r] /\ read[r] # "done"
    BY <1>7 DEF CacheCleared, ReadTyped
  <2>4. read[r] # "done" => answer[r] = "none"
    BY <2>1 DEF ReaderOK, Wanted
  <2>5. ReaderOK(r)'
    BY <1>2, <1>3, <1>4, <2>1, <2>3, <2>4 DEF ReaderOK, Wanted, Flow, Late, Ends, Tails
  <2>6. QED
    BY <2>2, <2>5 DEF ReaderOwes
<1>8. QED
  BY <1>5, <1>6, <1>7

\* A page of a drain: what the file that is read, the host's or a cache,
\* holds behind what the client has.
LEMMA PageIs ==
    ASSUME StreamTypeOK, ReadTyped, NEW r \in Readers, NEW file \in Seq(1 .. MaxOut),
           Numbered(got[r], 0), Numbered(file, 0), Len(got[r]) <= out, Len(file) <= out,
           DrainPage(r, file)
    PROVE  /\ got' \in [Readers -> Seq(1 .. MaxOut)]
           /\ \A q \in Readers \ {r} : got'[q] = got[q]
           /\ Numbered(got'[r], 0) /\ Len(got'[r]) <= out
<1> DEFINE g    == Len(got[r])
           l    == Len(file)
           end  == IF l < g + Limit THEN l ELSE g + Limit
           part == SubSeq(file, g + 1, end)
<1>1. g \in Nat /\ l \in Nat /\ out \in Nat /\ Limit \in Nat /\ got[r] \in Seq(1 .. MaxOut)
  BY LengthsAreNat, LenProperties, ReadAssumption DEF ReadTyped
<1>2. end \in Nat /\ end <= l
  BY <1>1
<1>3. g <= out /\ l <= out
  OBVIOUS
<1>4. got' = [got EXCEPT ![r] = @ \o part]
  BY DEF DrainPage
<1>5. g \in Nat /\ end \in Nat /\ end <= Len(file) /\ 0 \in Nat
  BY <1>1, <1>2
<1> HIDE DEF end, g
<1>6. /\ part \in Seq(1 .. MaxOut) /\ Len(part) = IF g < end THEN end - g ELSE 0
      /\ Numbered(part, 0 + g)
  BY <1>5, NumberedPart
<1> HIDE DEF part, l
<1>7. got[r] \o part \in Seq(1 .. MaxOut) /\ Len(got[r] \o part) = g + Len(part)
  BY <1>1, <1>6, ConcatProperties DEF g
<1>8. Numbered(got[r] \o part, 0)
  BY <1>1, <1>6, NumberedConcat DEF g
<1>9. g + Len(part) <= out
  BY <1>1, <1>2, <1>3, <1>6
<1>10. got'[r] = got[r] \o part
  BY <1>4 DEF ReadTyped
<1>11. got' \in [Readers -> Seq(1 .. MaxOut)] /\ \A q \in Readers \ {r} : got'[q] = got[q]
  BY <1>4, <1>7 DEF ReadTyped
<1>12. QED
  BY <1>7, <1>8, <1>9, <1>10, <1>11

LEMMA DrainReadOwes ==
    ASSUME StreamTypeOK, ReadTyped, NEW r \in Readers, ReaderOK(r),
           NEW file \in Seq(1 .. MaxOut),
           Numbered(file, 0), Len(file) <= out,
           DrainRead(r, file)
    PROVE  ReaderOwes(r)
<1> USE DEF ReadAt, Answer, Streaming
<1>1. /\ want[r] = "drain" /\ flight[r] = <<>> /\ answer[r] = "none"
      /\ Numbered(got[r], 0) /\ Len(got[r]) <= out
      /\ read[r] = "last" => command = "gone"
  <2>1. want[r] = "drain" /\ flight[r] = <<>> /\ answer[r] = "none"
    BY DEF DrainRead, ReadTyped, ReaderOK, Wanted, ReadOp
  <2>2. Numbered(got[r], 0) /\ Len(got[r]) + Len(<<>>) <= out
    BY <2>1 DEF ReaderOK, Flow
  <2>3. Len(got[r]) \in Nat /\ out \in Nat /\ Len(<<>>) = 0
    BY LengthsAreNat, EmptySeq
  <2>4. QED
    BY <2>1, <2>2, <2>3 DEF DrainRead, ReaderOK, Late
<1>2. UNCHANGED <<dir, command, out>>
  BY DEF DrainRead, streamVars, processVars
<1>3. Len(<<>>) = 0 /\ \A k \in Nat : k + 0 = k
  BY EmptySeq
<1>4. CASE DrainPage(r, file) /\ read[r] \in {"page", "last"}
           /\ UNCHANGED <<streamVars, want, seen, found, flight, breaks>>
  <2>1. /\ got' \in [Readers -> Seq(1 .. MaxOut)]
        /\ \A q \in Readers \ {r} : got'[q] = got[q]
        /\ Numbered(got'[r], 0) /\ Len(got'[r]) <= out
    BY <1>1, <1>4, PageIs
  <2>2. UNCHANGED <<read, answer>>
    BY <1>4 DEF DrainPage
  <2>3. ReadTyped' /\ \A q \in Readers \ {r} : Passed(q)
    BY <1>4, <2>1, <2>2 DEF ReadTyped, Passed
  <2>4. Flow(r)'
    <3>1. Len(got'[r]) \in Nat
      BY <2>1, LenProperties
    <3>2. Len(got'[r]) + Len(flight'[r]) <= out
      BY <1>1, <1>3, <1>4, <2>1, <3>1
    <3>3. Numbered(flight'[r], Len(got'[r]))
      BY <1>1, <1>4 DEF Numbered
    <3>4. QED
      BY <1>2, <1>4, <2>1, <2>2, <3>2, <3>3 DEF Flow
  <2>5. ReaderOK(r)'
    BY <1>1, <1>2, <1>4, <2>2, <2>4 DEF ReaderOK, Wanted, Late, Ends, Tails
  <2>6. QED
    BY <2>3, <2>5 DEF ReaderOwes
<1>5. CASE /\ Len(got[r]) = Len(file) /\ read[r] = "last" /\ Answer(r, "drained")
           /\ UNCHANGED <<streamVars, want, seen, found, flight, got, breaks>>
  <2>1. ReadTyped' /\ \A q \in Readers \ {r} : Passed(q)
    BY <1>5 DEF ReadTyped, Passed
  <2>2. read'[r] = "done" /\ answer'[r] = "drained"
    BY <1>5 DEF ReadTyped
  <2>3. Flow(r)'
    BY <1>1, <1>2, <1>5, <2>2 DEF ReaderOK, Flow, Numbered
  <2>4. ReaderOK(r)'
    BY <1>1, <1>2, <1>5, <2>2, <2>3 DEF ReaderOK, Wanted, Late, Ends, Tails
  <2>5. QED
    BY <2>1, <2>4 DEF ReaderOwes
<1>6. CASE /\ read[r] = "page" /\ ReadAt(r, "ask")
           /\ UNCHANGED <<streamVars, want, seen, found, flight, got, answer, breaks>>
  <2>1. ReadTyped' /\ \A q \in Readers \ {r} : Passed(q)
    BY <1>6 DEF ReadTyped, Passed
  <2>2. read'[r] = "ask"
    BY <1>6 DEF ReadTyped
  <2>3. ReaderOK(r)'
    BY <1>1, <1>2, <1>6, <2>2 DEF ReaderOK, Wanted, Flow, Late, Ends, Tails, Numbered
  <2>4. QED
    BY <2>1, <2>3 DEF ReaderOwes
<1>7. QED
  BY <1>4, <1>5, <1>6 DEF DrainRead

\* A drain, from the host or from a cache.
LEMMA DrainOwes ==
    ASSUME StreamTypeOK, Deaths, ReadTyped, NEW r \in Readers, \A q \in Readers : ReaderOK(q),
           Drain(r)
    PROVE  ReaderOwes(r)
<1> USE DEF ReadAt, Answer, Streaming
<1>1. ReaderOK(r) /\ want[r] \in ReadOp
  BY DEF ReadTyped
<1>2. CASE DrainAsk(r) \/ DrainGone(r)
  <2>1. want[r] = "drain" /\ flight[r] = <<>> /\ answer[r] = "none"
    BY <1>1, <1>2 DEF DrainAsk, DrainGone, ReaderOK, Wanted, ReadOp
  <2>2. UNCHANGED <<dir, command, out>>
    BY <1>2 DEF DrainAsk, DrainGone, streamVars, processVars
  <2>3. ReadTyped' /\ \A q \in Readers \ {r} : Passed(q)
    BY <1>2 DEF DrainAsk, DrainGone, ReadTyped, Passed
  <2>4. /\ UNCHANGED <<want, seen, found, flight, got>>
        /\ \/ read'[r] = "page" /\ answer'[r] = answer[r]
           \/ read'[r] = "last" /\ answer'[r] = answer[r] /\ Over
           \/ read'[r] = "done" /\ answer'[r] = "not_found"
    BY <1>2 DEF DrainAsk, DrainGone, ReadTyped
  <2>5. read'[r] = "last" => command = "gone"
    BY <2>4, OverIsGone
  <2>6. ReaderOK(r)'
    BY <1>1, <2>1, <2>2, <2>4, <2>5 DEF ReaderOK, Wanted, Flow, Late, Ends, Tails, Numbered
  <2>7. QED
    BY <2>3, <2>6 DEF ReaderOwes
<1>3. CASE dir /\ DrainRead(r, From(0))
  <2>1. 0 \in 0 .. out /\ out - 0 = out
    BY DEF StreamTypeOK
  <2>2. /\ From(0) \in Seq(1 .. MaxOut) /\ Len(From(0)) = out
        /\ Numbered(From(0), 0)
    BY <2>1, FromIs, LenProperties DEF Numbered
  <2>3. Len(From(0)) <= out
    BY <2>2 DEF StreamTypeOK
  <2>4. QED
    BY <1>1, <1>3, <2>2, <2>3, DrainReadOwes
<1>4. ASSUME NEW c \in Cached, DrainRead(r, got[c])
      PROVE  ReaderOwes(r)
  <2>1. c \in Readers /\ want[c] = "cache" /\ ReaderOK(c)
    BY DEF Cached
  <2>2. Numbered(got[c], 0) /\ Len(got[c]) + Len(flight[c]) <= out
    BY <2>1 DEF ReaderOK, Flow
  <2>3. Len(got[c]) \in Nat /\ Len(flight[c]) \in Nat /\ out \in Nat /\ got[c] \in Seq(1 .. MaxOut)
    BY <2>1, LengthsAreNat DEF ReadTyped
  <2> DEFINE g == Len(got[c])
             f == Len(flight[c])
  <2>4. g <= out
    <3> HIDE DEF g, f
    <3>1. g \in Nat /\ f \in Nat /\ out \in Nat /\ g + f <= out
      BY <2>2, <2>3 DEF g, f
    <3>2. QED
      BY <3>1
  <2>5. QED
    BY <1>1, <1>4, <2>2, <2>3, <2>4, DrainReadOwes
<1>5. QED
  BY <1>2, <1>3, <1>4 DEF Drain

-----------------------------------------------------------------------------
(* The invariant of the whole *)

\* A step that is no reader's.
LEMMA AllPassed ==
    ASSUME ReadOK, StreamTypeOK, StreamTypeOK', Onward, UNCHANGED readVars
    PROVE  ReadOK'
<1>1. ReadTyped' /\ \A r \in Readers : Passed(r)
  BY ReadOKParts DEF readVars, ReadTyped, Passed
<1>2. \A r \in Readers : ReaderOK(r)'
  BY <1>1, ReadOKParts, PassedOK
<1>3. QED
  BY <1>1, <1>2 DEF ReadOK, ReadTypeOK, ReadTyped, ReaderOK

LEMMA ReaderReadOK ==
    ASSUME ReadOK, StreamTypeOK, Deaths, ReadNext
    PROVE  ReadOK'
<1>1. ReadTyped /\ \A r \in Readers : ReaderOK(r)
  BY ReadOKParts
<1>2. \A r \in Readers : read[r] = "clean" => command = "gone"
  BY <1>1 DEF ReaderOK, Late
<1>3. StreamTypeOK' /\ Onward
  BY <1>2, ReaderStep
<1>4. PICK r \in Readers :
        \/ PollEnded(r) \/ PollTimesOut(r) \/ Tailing(r)
        \/ Following(r) \/ Arrive(r) \/ Break(r)
        \/ CacheCleared(r) \/ CacheLost(r) \/ Drain(r)
  BY DEF ReadNext
<1>5. ReaderOwes(r)
  BY <1>1, <1>4, TailOwes, FollowOwes, ClientOwes, DrainOwes
<1>6. \A q \in Readers : ReaderOK(q)'
  BY <1>1, <1>3, <1>5, PassedOK DEF ReaderOwes
<1>7. QED
  BY <1>5, <1>6 DEF ReaderOwes, ReadOK, ReadTypeOK, ReadTyped, ReaderOK

\* run turns from its feed to its wait.
LEMMA RunWaitsReadOK ==
    ASSUME ReadOK, StreamTypeOK, NEW r \in Feeders \cap Readers, RunWaits(r)
    PROVE  ReadOK'
<1>1. ReadTyped /\ \A q \in Readers : ReaderOK(q)
  BY ReadOKParts
<1>2. UNCHANGED <<dir, command, out>> /\ StreamTypeOK' /\ Onward
  BY DEF RunWaits, streamVars, processVars, pipeVars, StreamTypeOK, Onward
<1>3. ReadTyped' /\ \A q \in Readers \ {r} : Passed(q)
  BY <1>1 DEF RunWaits, ReadAt, ReadTyped, Passed
<1>4. read[r] = "idle" /\ read'[r] = "poll" /\ UNCHANGED <<want, seen, found, flight, got, answer>>
  BY <1>1 DEF RunWaits, ReadAt, ReadTyped
<1>5. ReaderOK(r)'
  BY <1>1, <1>2, <1>4 DEF ReaderOK, Wanted, Flow, Late, Ends, Tails, Streaming
<1>6. \A q \in Readers : ReaderOK(q)'
  BY <1>1, <1>2, <1>3, <1>5, PassedOK
<1>7. QED
  BY <1>3, <1>6 DEF ReadOK, ReadTypeOK, ReadTyped, ReaderOK

LEMMA ProcessFlowing ==
    ASSUME StreamTypeOK, Deaths, Flowing, ProcessNext, sent' = sent
    PROVE  Flowing'
<1>1. Onward
  BY ProcessStep
<1>2. CASE CommandReads
  BY <1>2, ReadFlowing
<1>3. CASE ~CommandReads
  <2>1. consumed' = consumed /\ (fifo' = fifo \/ fifo' = Kept(holder', command', opened'))
    BY <1>3 DEF ProcessNext, CommandReadsEnd, CommandShutsStdin, CommandWrites, CommandEnds,
         Runner, RunnerReaps, RunnerWritesStatus, RunnerKillsHolder, RunnerExits, KillTerm, Killing,
         KillKill, KillRecords, Clean, RemoveProcessDir, pipeVars, Kept
  <2>2. QED
    BY <1>1, <2>1, KeptSheds, ShedFlowing
<1>4. QED
  BY <1>2, <1>3

LEMMA FeederFlowing ==
    ASSUME FeedOK, Flowing, FeedNext
    PROVE  Flowing'
<1>1. PICK w \in Feeders : Feed(w) \/ CutPipe(w)
  BY DEF FeedNext
<1>2. StreamTypeOK /\ FeedTyped /\ Onward
  BY FeedOKParts, FeederFeedOK
<1>3. CASE Write(w)
  BY <1>2, <1>3, WriteFlowing
<1>4. CASE ~Write(w)
  <2>1. sent' = sent /\ consumed' = consumed
    BY <1>1, <1>4 DEF Feed, Look, CheckStatus, OpenNonblocking, OpenBlocking, Written,
           TimesOut, WriteBroken, Receive, ReceiveEnd, PipeKills, CutPipe, CloseLook,
           CloseStatus, CloseKills, CloseResolves, streamVars, pipeVars
  <2>2. fifo' = fifo \/ fifo' = Kept(holder', command', opened')
    BY <1>1, <1>4 DEF Feed, Look, CheckStatus, OpenNonblocking, OpenBlocking, Written,
           TimesOut, WriteBroken, Receive, ReceiveEnd, PipeKills, CutPipe, CloseLook,
           CloseStatus, CloseKills, CloseResolves, Close, Kept, streamVars, pipeVars, processVars
  <2>3. QED
    BY <1>2, <2>1, <2>2, KeptSheds, ShedFlowing
<1>5. QED
  BY <1>3, <1>4

LEMMA OKInit == Init => StreamsOK
<1> SUFFICES ASSUME Init PROVE StreamsOK
  OBVIOUS
<1>1. <<>> \in Seq(Unit) /\ <<>> \in Seq(1 .. MaxOut) /\ Len(<<>>) = 0
  BY EmptySeq
<1>2. StreamTypeOK /\ Deaths /\ Closed
  <2>1. Len(fifo) <= PipeSize /\ out \in 0 .. MaxOut
    BY <1>1, StreamsAssumption DEF Init, StreamInit
  <2>2. StreamTypeOK
    BY <1>1, <2>1 DEF Init, StreamInit, StreamTypeOK
  <2>3. QED
    BY <2>2 DEF Init, StreamInit, Deaths, Closed
<1>3. /\ ask \in [Feeders -> FeedOp] /\ size \in [Feeders -> 0 .. MaxBody]
      /\ \A w \in Feeders : ask[w] = "close" => size[w] = 0
      /\ \A w \in Feeders : size[w] \in Nat /\ 0 \in 0 .. MaxBody
  BY FeedAssumption DEF Init, FeedInit
<1>4. FeedTyped
  <2>1. feed \in [Feeders -> {"look", "status", "open", "feed", "receive", "kill", "kill_broken",
                             "close_look", "close_status", "close_kill", "close_resolve",
                             "fed", "done"}]
    BY DEF Init, FeedInit, FirstStep
  <2>2. taken \in [Feeders -> 0 .. MaxBody] /\ sent \in [Feeders -> 0 .. MaxBody]
    BY <1>3 DEF Init, FeedInit
  <2>3. QED
    BY <1>3, <2>1, <2>2 DEF Init, FeedInit, FeedTyped
<1>5. ASSUME NEW w \in Feeders PROVE FeederOK(w)
  <2>1. /\ feed[w] = FirstStep(ask[w], size[w]) /\ sent[w] = 0 /\ told[w] = "none"
        /\ taken[w] = IF ask[w] \in Pipes THEN 0 ELSE size[w]
        /\ opened = {} /\ cut = {} /\ w \notin opened
    BY DEF Init, FeedInit, StreamInit
  <2>2. ask[w] \in FeedOp /\ size[w] \in Nat /\ (ask[w] = "close" => size[w] = 0)
    BY <1>3
  <2>3. QED
    BY <2>1, <2>2 DEF FeederOK, Asked, Said, Brought, Fed, FirstStep, FeedOp, Pipes, Runs
<1>6. Flowing
  <2>1. Way = <<>>
    BY <1>1, ConcatEmptySeq DEF Init, StreamInit, Way
  <2>2. DOMAIN <<>> = {} /\ \A w \in Feeders : sent[w] = 0
    BY <1>1, LenProperties DEF Init, FeedInit
  <2>3. DOMAIN Way = {}
    BY <2>1, <2>2
  <2>4. \A w \in Feeders : Ordered(Way, w, sent[w])
    BY <2>3 DEF Ordered
  <2>5. \A w \in Feeders : Holds(Way, w, sent[w])
    <3>1. 1 .. 0 = {}
      OBVIOUS
    <3>2. QED
      BY <2>2, <3>1 DEF Holds
  <2>6. QED
    BY <2>4, <2>5 DEF Flowing
<1>7. ReadTyped
  BY <1>1, StreamsAssumption, ReadAssumption DEF Init, ReadInit, ReadTyped
<1>8. ASSUME NEW r \in Readers PROVE ReaderOK(r)
  <2>1. /\ read[r] = CASE want[r] = "follow" -> "open"
                       [] want[r] = "cache" -> "spawn"
                       [] want[r] = "wait" -> "poll"
                       [] want[r] = "drain" -> "ask"
                       [] OTHER -> "idle"
        /\ flight[r] = <<>> /\ got[r] = <<>> /\ answer[r] = "none" /\ out = 0
        /\ want[r] \in ReadOp
    BY <1>7 DEF Init, ReadInit, StreamInit, ReadTyped
  <2>2. Numbered(<<>>, 0) /\ DOMAIN <<>> = {} /\ Numbered(flight[r], Len(got[r]))
    BY <1>1, <2>1, LenProperties DEF Numbered
  <2>3. QED
    BY <1>1, <2>1, <2>2 DEF ReaderOK, Wanted, Flow, Late, Ends, Tails, Streaming, ReadOp
<1>9. QED
  BY <1>2, <1>4, <1>5, <1>6, <1>7, <1>8, FeedOKParts, ReadOKParts DEF StreamsOK

LEMMA OKStep == StreamsOK /\ [Next]_vars => StreamsOK'
<1> SUFFICES ASSUME StreamsOK, [Next]_vars PROVE StreamsOK'
  OBVIOUS
<1>1. FeedOK /\ Flowing /\ ReadOK /\ StreamTypeOK /\ Deaths
  BY FeedOKParts DEF StreamsOK
<1>2. \A r \in Readers : read[r] = "clean" => command = "gone"
  BY <1>1, ReadOKParts DEF ReaderOK, Late
<1>3. CASE ProcessNext /\ UNCHANGED <<feedVars, readVars>>
  <2>1. StreamTypeOK' /\ Onward
    BY <1>1, <1>3, ProcessStep
  <2>2. FeedOK'
    BY <1>1, <1>3, ProcessFeedOK
  <2>3. Flowing'
    BY <1>1, <1>3, ProcessFlowing DEF feedVars
  <2>4. ReadOK'
    BY <1>1, <1>3, <2>1, AllPassed
  <2>5. QED
    BY <2>2, <2>3, <2>4 DEF StreamsOK
<1>4. CASE FeedNext /\ UNCHANGED readVars
  <2>1. FeedOK' /\ Onward
    BY <1>1, <1>4, FeederFeedOK
  <2>2. Flowing'
    BY <1>1, <1>4, FeederFlowing
  <2>3. StreamTypeOK'
    BY <2>1 DEF FeedOK
  <2>4. ReadOK'
    BY <1>1, <1>4, <2>1, <2>3, AllPassed
  <2>5. QED
    BY <2>1, <2>2, <2>4 DEF StreamsOK
<1>5. CASE ReadNext /\ UNCHANGED feedVars
  <2>1. FeedOK'
    BY <1>1, <1>2, <1>5, ReaderFeedOK
  <2>2. /\ Onward /\ consumed' = consumed
        /\ fifo' = fifo \/ fifo' = Kept(holder', command', opened')
    BY <1>1, <1>2, <1>5, ReaderStep
  <2>3. Flowing'
    BY <1>1, <1>5, <2>2, KeptSheds, ShedFlowing DEF feedVars
  <2>4. ReadOK'
    BY <1>1, <1>5, ReaderReadOK
  <2>5. QED
    BY <2>1, <2>3, <2>4 DEF StreamsOK
<1>6. ASSUME NEW a \in Feeders \cap Readers, RunWaits(a) PROVE StreamsOK'
  <2>1. UNCHANGED <<streamVars, feedVars>>
    BY <1>6 DEF RunWaits
  <2>2. StreamTypeOK' /\ Deaths' /\ Onward
    BY <1>1, <2>1, StreamSame
  <2>3. FeedTyped' /\ \A v \in Feeders : FeederOK(v)' /\ (Ended(v) => Ended(v)')
    BY <1>1, <2>1, <2>2, SameFeeders DEF streamVars, pipeVars
  <2>4. Closed'
    BY <1>1, <2>1, <2>3, FeedOKParts DEF Closed, streamVars, processVars
  <2>5. FeedOK'
    BY <2>2, <2>3, <2>4 DEF FeedOK, FeedTypeOK, FeedTyped, FeederOK
  <2>6. Flowing'
    BY <1>1, <2>1, <2>2, ShedFlowing DEF Sheds, streamVars, pipeVars, feedVars
  <2>7. ReadOK'
    BY <1>1, <1>6, RunWaitsReadOK
  <2>8. QED
    BY <2>5, <2>6, <2>7 DEF StreamsOK
<1>7. CASE UNCHANGED vars
  <2>1. UNCHANGED <<streamVars, feedVars, readVars>>
    BY <1>7 DEF vars
  <2>2. StreamTypeOK' /\ Deaths' /\ Onward
    BY <1>1, <2>1, StreamSame
  <2>3. FeedTyped' /\ \A v \in Feeders : FeederOK(v)' /\ (Ended(v) => Ended(v)')
    BY <1>1, <2>1, <2>2, SameFeeders DEF streamVars, pipeVars
  <2>4. Closed'
    BY <1>1, <2>1, <2>3, FeedOKParts DEF Closed, streamVars, processVars
  <2>5. FeedOK'
    BY <2>2, <2>3, <2>4 DEF FeedOK, FeedTypeOK, FeedTyped, FeederOK
  <2>6. Flowing'
    BY <1>1, <2>1, <2>2, ShedFlowing DEF Sheds, streamVars, pipeVars, feedVars
  <2>7. ReadOK'
    BY <1>1, <2>1, <2>2, AllPassed
  <2>8. QED
    BY <2>5, <2>6, <2>7 DEF StreamsOK
<1>8. QED
  BY <1>3, <1>4, <1>5, <1>6, <1>7 DEF Next, Finished

LEMMA Inductive == Spec => []StreamsOK
  BY OKInit, OKStep, PTL DEF Spec

-----------------------------------------------------------------------------
(* What it says *)

\* Every variable keeps its type; of each body rxd has read as much as it has
\* written, and no more than there is; and a feeder has the FIFO open while
\* it feeds it, never after.
THEOREM TypeCorrect == Spec => []TypeOK
<1>1. StreamsOK => TypeOK
  BY DEF StreamsOK, FeedOK, ReadOK, TypeOK
<1>2. QED
  BY <1>1, Inductive, PTL

\* Whatever the feeders, the command and the holder do in between, each
\* feeder's units arrive once, in order and without a gap, and none is lost
\* before the command stops reading.
THEOREM FeedsInOrder == Spec => []FedInOrder
<1>1. StreamsOK => FedInOrder
  BY DEF StreamsOK, Flowing, Ordered, FedInOrder, Places, HasReader
<1>2. QED
  BY <1>1, Inductive, PTL

\* Who is told "written" has written all of its body, and who is told so of a
\* close has closed stdin.
THEOREM WritesAreTrue == Spec => []WrittenIsTrue
<1>1. StreamsOK => WrittenIsTrue
  BY DEF StreamsOK, FeedOK, Said, WrittenIsTrue
<1>2. QED
  BY <1>1, Inductive, PTL

\* The command reads the end of its input only after a kill, or after one who
\* asked for the end, whose body it has read.
THEOREM EndsWhenAsked == Spec => EndIsAsked
<1>1. ASSUME StreamsOK, [Next]_vars
      PROVE  [eof' # eof =>
                \/ killer # "idle"
                \/ \E w \in Feeders :
                    /\ Ended(w)
                    /\ \/ Holds(consumed, w, size[w])
                       \/ w \in gaveUp \cup cut]_<<streamVars, feedVars>>
  <2>1. SUFFICES ASSUME eof' # eof, killer = "idle"
                 PROVE  \E w \in Feeders :
                          Ended(w) /\ (Holds(consumed, w, size[w]) \/ w \in gaveUp \cup cut)
    OBVIOUS
  <2>2. StreamTypeOK /\ Deaths /\ FeedTyped /\ Closed /\ \A w \in Feeders : FeederOK(w)
    BY <1>1, FeedOKParts DEF StreamsOK
  <2>3. \A r \in Readers : read[r] = "clean" => command = "gone"
    BY <1>1, ReadOKParts DEF StreamsOK, ReaderOK, Late
  <2>4. ~(ReadNext /\ UNCHANGED feedVars)
    BY <2>1, <2>2, <2>3, ReaderStep
  <2>5. ~FeedNext
    BY <2>1 DEF FeedNext, Feed, Look, CheckStatus, OpenNonblocking, OpenBlocking, Write, Written,
           TimesOut, WriteBroken, Receive, ReceiveEnd, PipeKills, CutPipe, CloseLook,
           CloseStatus, CloseKills, CloseResolves, streamVars, pipeVars
  <2>6. ~(\E a \in Feeders \cap Readers : RunWaits(a)) /\ ~UNCHANGED vars
    BY <2>1 DEF RunWaits, vars, streamVars, pipeVars
  <2>7. ProcessNext
    BY <1>1, <2>4, <2>5, <2>6 DEF Next, Finished
  <2>8. CommandReadsEnd
    BY <2>1, <2>7 DEF ProcessNext, CommandReads, CommandShutsStdin, CommandWrites, CommandEnds,
         Runner, RunnerReaps, RunnerWritesStatus, RunnerKillsHolder, RunnerExits, KillTerm, Killing,
         KillKill, KillRecords, Clean, RemoveProcessDir, pipeVars
  <2>9. command = "reads" /\ fifo = <<>> /\ holder # "paused"
    BY <2>8 DEF CommandReadsEnd, HasWriter
  <2>10. PICK w \in Feeders : Ended(w)
    BY <2>1, <2>2, <2>9 DEF Closed
  <2>11. sent[w] \in Nat /\ taken[w] \in Nat /\ size[w] \in Nat
    BY <2>2, FeedAssumption DEF FeedTyped
  <2>12. sent[w] = size[w] \/ w \in gaveUp \cup cut
    <3>1. CASE ask[w] = "close"
      BY <2>2, <2>11, <3>1 DEF FeederOK, Asked
    <3>2. CASE ask[w] # "close"
      <4>1. ask[w] \in {"run", "pipe"} /\ feed[w] \in {"fed", "done"}
        BY <2>10, <3>2 DEF Ended
      <4>2. Fed(w)
        BY <2>2, <4>1 DEF Fed, FeederOK, Asked, Runs
      <4>3. QED
        BY <2>2, <2>9, <4>2 DEF FeederOK, Brought
    <3>3. QED
      BY <3>1, <3>2
  <2>13. Way = consumed
    BY <2>2, <2>9, ConcatEmptySeq DEF Way, StreamTypeOK
  <2>14. Holds(consumed, w, sent[w])
    BY <1>1, <2>9, <2>13 DEF StreamsOK, Flowing, HasReader
  <2>15. QED
    BY <2>10, <2>12, <2>14
<1>2. QED
  BY <1>1, Inductive, PTL DEF Spec, EndIsAsked

\* What a cache, rx or a drain holds, with what is on its way to it, is the
\* beginning of the output, however often a connection broke or a cache was
\* cleared.
THEOREM CachesArePrefixes == Spec => []CacheIsPrefix
<1>1. ASSUME StreamsOK PROVE CacheIsPrefix
  <2> SUFFICES ASSUME NEW r \in Readers, want[r] \in Streaming \cup {"drain"}
               PROVE  got[r] \o flight[r] = [i \in 1 .. Len(got[r] \o flight[r]) |-> i]
    BY DEF CacheIsPrefix
  <2> DEFINE s == got[r] \o flight[r]
  <2>1. got[r] \in Seq(1 .. MaxOut) /\ flight[r] \in Seq(1 .. MaxOut) /\ Len(got[r]) \in Nat
    BY <1>1, LenProperties DEF StreamsOK, ReadOK, ReadTypeOK
  <2>2. Numbered(got[r], 0) /\ Numbered(flight[r], Len(got[r]))
    BY <1>1 DEF StreamsOK, ReadOK, Flow
  <2>3. 0 + Len(got[r]) = Len(got[r]) /\ 0 \in Nat
    BY <2>1
  <2>4. Numbered(s, 0)
    BY <2>1, <2>2, <2>3, NumberedConcat
  <2>5. s \in Seq(1 .. MaxOut)
    BY <2>1, ConcatProperties
  <2> HIDE DEF s
  <2>6. s = [i \in 1 .. Len(s) |-> s[i]] /\ DOMAIN s = 1 .. Len(s)
    BY <2>5, LenProperties
  <2>7. \A i \in 1 .. Len(s) : s[i] = i
    BY <2>4, <2>6 DEF Numbered
  <2>8. [i \in 1 .. Len(s) |-> s[i]] = [i \in 1 .. Len(s) |-> i]
    BY <2>7
  <2>9. QED
    BY <2>6, <2>8 DEF s
<1>2. QED
  BY <1>1, Inductive, PTL

\* A stream that is told to be at its end is that of a process that is over,
\* and all of it.
THEOREM EndsAreWhole == Spec => []EndedIsWhole
<1>1. StreamsOK => EndedIsWhole
  BY DEF StreamsOK, ReadOK, Ends, EndedIsWhole
<1>2. QED
  BY <1>1, Inductive, PTL

\* The tail that wait and run answer with is the last of the output, and an
\* ephemeral run removes nothing that its answer does not hold.
THEOREM TailsAreTrue == Spec => []TailIsTrue
<1>1. StreamsOK => TailIsTrue
  BY DEF StreamsOK, ReadOK, Tails, TailIsTrue
<1>2. QED
  BY <1>1, Inductive, PTL
=============================================================================
