----------------------------- MODULE StdinFeed -----------------------------
(***************************************************************************)
(* The writers of a process's stdin: write, pipe-stdin with its rx, close, *)
(* and the first half of run, which feeds its body and closes.  They share *)
(* the FIFO and the holder and know nothing of each other.                 *)
(***************************************************************************)
EXTENDS ProcessStreams

CONSTANTS
    FeedOps,   \* [Feeders -> what each may ask]
    MaxBody,   \* the longest body, in units
    Chunk      \* how many units pipe-stdin reads at a time

FeedOp == {"write",      \* write a body
           "pipe",       \* feed a stream, then close stdin
           "pipe_open",  \* feed a stream with --no-close
           "close",      \* close stdin
           "run",        \* run: feed the body, then close stdin
           "run_open"}   \* run with keep_stdin_open

ASSUME FeedAssumption ==
    /\ FeedOps \in [Feeders -> SUBSET FeedOp]
    /\ MaxBody \in Nat
    /\ Chunk \in Nat \ {0}

VARIABLES
    ask,     \* what each feeder asks
    size,    \* the length of its body, or of rx's local stdin
    feed,    \* its next step
    taken,   \* how much of the body rxd has read from its own stdin
    sent,    \* how much of it is written to the FIFO
    cut,     \* the pipes whose connection broke
    gaveUp,  \* the feeders whose 30 s were over
    told     \* what the client is told

feedVars == <<ask, size, feed, taken, sent, cut, gaveUp, told>>

Pipes == {"pipe", "pipe_open"}
Runs  == {"run", "run_open"}

Goto(w, l) == feed' = [feed EXCEPT ![w] = l]

\* A client whose connection broke is told that, whatever rxd says.
Tell(w, v) ==
    /\ Goto(w, "done")
    /\ told' = [told EXCEPT ![w] = IF w \in cut THEN "transport" ELSE v]

\* run goes on whatever became of its body: it closes stdin unless asked not
\* to, and then waits.
AfterFeed(w) == IF ask[w] = "run" THEN "close_look" ELSE "fed"

\* A feed ends: run goes on, write is answered.
EndFeed(w, v) ==
    IF ask[w] \in Runs THEN Goto(w, AfterFeed(w)) /\ UNCHANGED told ELSE Tell(w, v)

Close(w) == opened' = opened \ {w} /\ fifo' = Kept(holder, command, opened')

-----------------------------------------------------------------------------
(* Checks before a feed *)

\* run closes stdin before it feeds it.
FirstStep_close_first(a, n) == CASE a = "close" -> "close_look"
                                 [] a = "run"   -> "close_look"
                                 [] a = "run_open" -> IF n = 0 THEN "fed" ELSE "open"
                                 [] OTHER -> "look"

\* A feeder starts; run's own start has returned, so it does not look.
FirstStep(a, n) == CASE a = "close" -> "close_look"
                     [] a = "run"   -> IF n = 0 THEN "close_look" ELSE "open"
                     [] a = "run_open" -> IF n = 0 THEN "fed" ELSE "open"
                     [] OTHER -> "look"

FeedInit ==
    /\ ask \in {a \in [Feeders -> FeedOp] : \A w \in Feeders : a[w] \in FeedOps[w]}
    /\ size \in [Feeders -> 0 .. MaxBody]
    /\ \A w \in Feeders : ask[w] = "close" => size[w] = 0
    /\ feed = [w \in Feeders |-> FirstStep(ask[w], size[w])]
    /\ taken = [w \in Feeders |-> IF ask[w] \in Pipes THEN 0 ELSE size[w]]
    /\ sent = [w \in Feeders |-> 0]
    /\ cut = {} /\ gaveUp = {}
    /\ told = [w \in Feeders |-> "none"]

Look(w) ==
    /\ feed[w] = "look"
    /\ \/ dir /\ Goto(w, "status") /\ UNCHANGED told
       \/ ~dir /\ Tell(w, "refused")
    /\ UNCHANGED <<streamVars, ask, size, taken, sent, cut, gaveUp>>

\* A status that cannot be read is no reason to stop.
CheckStatus(w) ==
    /\ feed[w] = "status"
    /\ \/ dir /\ status = "ended" /\ Tell(w, "refused")
       \/ ~(dir /\ status = "ended") /\ Goto(w, "open") /\ UNCHANGED told
    /\ UNCHANGED <<streamVars, ask, size, taken, sent, cut, gaveUp>>

\* Without a reader a non-blocking open fails.
OpenNonblocking(w) ==
    /\ feed[w] = "open" /\ ask[w] \notin Pipes
    /\ \/ /\ dir /\ HasReader
          /\ opened' = opened \cup {w}
          /\ Goto(w, "feed") /\ UNCHANGED told
       \/ /\ ~(dir /\ HasReader)
          /\ EndFeed(w, "failed") /\ UNCHANGED opened
    /\ UNCHANGED <<dir, status, processVars, killer, fifo, consumed, eof, out,
                   ask, size, taken, sent, cut, gaveUp>>

\* A blocking one waits for a reader.
OpenBlocking(w) ==
    /\ feed[w] = "open" /\ ask[w] \in Pipes
    /\ \/ /\ dir /\ HasReader
          /\ opened' = opened \cup {w}
          /\ Goto(w, "feed") /\ UNCHANGED told
       \/ ~dir /\ Tell(w, "refused") /\ UNCHANGED opened
    /\ UNCHANGED <<dir, status, processVars, killer, fifo, consumed, eof, out,
                   ask, size, taken, sent, cut, gaveUp>>

-----------------------------------------------------------------------------
(* write_all_nonblocking, and the write loop of pipe_stdin *)

Room == PipeSize - Len(fifo)

Units(w, from, n) == [i \in 1 .. n |-> <<w, from + i>>]

Writing(w) == feed[w] = "feed" /\ sent[w] < taken[w]

Unwritten(w) == taken[w] - sent[w]

\* A partial write is taken for a whole one.
Write_partial_is_whole(w) ==
    /\ Writing(w) /\ HasReader /\ Room > 0
    /\ LET n == IF Room < Unwritten(w) THEN Room ELSE Unwritten(w)
       IN  fifo' = fifo \o Units(w, sent[w], n)
    /\ sent' = [sent EXCEPT ![w] = taken[w]]
    /\ UNCHANGED <<dir, status, processVars, killer, opened, consumed, eof, out,
                   ask, size, feed, taken, cut, gaveUp, told>>

\* write(2) takes what there is room for; the loop goes on behind it.
Write(w) ==
    /\ Writing(w) /\ HasReader /\ Room > 0
    /\ LET n == IF Room < Unwritten(w) THEN Room ELSE Unwritten(w)
       IN  /\ fifo' = fifo \o Units(w, sent[w], n)
           /\ sent' = [sent EXCEPT ![w] = @ + n]
    /\ UNCHANGED <<dir, status, processVars, killer, opened, consumed, eof, out,
                   ask, size, feed, taken, cut, gaveUp, told>>

\* The body is written.  pipe_stdin reads on.
Written(w) ==
    /\ feed[w] = "feed" /\ sent[w] = taken[w]
    /\ \/ /\ ask[w] \in Pipes
          /\ Goto(w, "receive") /\ UNCHANGED <<told, fifo, opened>>
       \/ /\ ask[w] \notin Pipes
          /\ EndFeed(w, "written") /\ Close(w)
    /\ UNCHANGED <<dir, status, processVars, killer, consumed, eof, out,
                   ask, size, taken, sent, cut, gaveUp>>

\* The time-out returns without closing the FIFO.
TimesOut_leaks(w) ==
    /\ Writing(w) /\ ask[w] \notin Pipes /\ HasReader /\ Room = 0
    /\ gaveUp' = gaveUp \cup {w}
    /\ EndFeed(w, "timeout")
    /\ UNCHANGED <<streamVars, ask, size, taken, sent, cut>>

\* A full FIFO for 30 s, counted from the first write.
TimesOut(w) ==
    /\ Writing(w) /\ ask[w] \notin Pipes /\ HasReader /\ Room = 0
    /\ gaveUp' = gaveUp \cup {w}
    /\ EndFeed(w, "timeout") /\ Close(w)
    /\ UNCHANGED <<dir, status, processVars, killer, consumed, eof, out,
                   ask, size, taken, sent, cut>>

\* EPIPE ends the loop like the end of the stream.
WriteBroken_exits_well(w) ==
    /\ Writing(w) /\ ~HasReader
    /\ Close(w)
    /\ CASE ask[w] = "pipe" -> Goto(w, "kill") /\ UNCHANGED told
         [] ask[w] = "pipe_open" -> Tell(w, "written")
         [] OTHER -> EndFeed(w, "failed")
    /\ UNCHANGED <<dir, status, processVars, killer, consumed, eof, out,
                   ask, size, taken, sent, cut, gaveUp>>

\* EPIPE; pipe_stdin kills the holder and exits with 1.
WriteBroken(w) ==
    /\ Writing(w) /\ ~HasReader
    /\ Close(w)
    /\ CASE ask[w] = "pipe" -> Goto(w, "kill_broken") /\ UNCHANGED told
         [] ask[w] = "pipe_open" -> Tell(w, "refused")
         [] OTHER -> EndFeed(w, "failed")
    /\ UNCHANGED <<dir, status, processVars, killer, consumed, eof, out,
                   ask, size, taken, sent, cut, gaveUp>>

-----------------------------------------------------------------------------
(* pipe_stdin: the stream from rx, and what rx reports *)

Receive(w) ==
    /\ feed[w] = "receive" /\ taken[w] < size[w] /\ w \notin cut
    /\ \E n \in 1 .. Chunk :
        /\ taken[w] + n <= size[w]
        /\ taken' = [taken EXCEPT ![w] = @ + n]
    /\ Goto(w, "feed")
    /\ UNCHANGED <<streamVars, ask, size, sent, cut, gaveUp, told>>

\* The end of the stream: of rx's own stdin, or of a broken connection, which
\* looks the same to rxd.  Then rx has seen ssh fail.
ReceiveEnd(w) ==
    /\ feed[w] = "receive" /\ (taken[w] = size[w] \/ w \in cut)
    /\ Close(w)
    /\ CASE ask[w] = "pipe" -> Goto(w, "kill") /\ UNCHANGED told
         [] ask[w] = "pipe_open" -> Tell(w, "written")
    /\ UNCHANGED <<dir, status, processVars, killer, consumed, eof, out,
                   ask, size, taken, sent, cut, gaveUp>>

\* kill_stdin_holder; the result is not looked at.
PipeKills(w) ==
    /\ feed[w] \in {"kill", "kill_broken"}
    /\ holder' = IF dir THEN KilledHolder ELSE holder
    /\ fifo' = Kept(holder', command, opened)
    /\ Tell(w, IF feed[w] = "kill" THEN "written" ELSE "refused")
    /\ UNCHANGED <<dir, status, command, runner, killer, opened, consumed, eof, out,
                   ask, size, taken, sent, cut, gaveUp>>

\* ssh breaks before rx has written all of its stdin.
CutPipe(w) ==
    /\ ask[w] \in Pipes /\ feed[w] # "done" /\ w \notin cut /\ taken[w] < size[w]
    /\ cut' = cut \cup {w}
    /\ UNCHANGED <<streamVars, ask, size, feed, taken, sent, gaveUp, told>>

-----------------------------------------------------------------------------
(* close_stdin, for close and for run *)

\* run ignores what close_stdin returns.
EndClose(w, v) == IF ask[w] = "run" THEN Goto(w, "fed") /\ UNCHANGED told ELSE Tell(w, v)

CloseLook(w) ==
    /\ feed[w] = "close_look"
    /\ \/ dir /\ Goto(w, "close_status") /\ UNCHANGED told
       \/ ~dir /\ EndClose(w, "refused")
    /\ UNCHANGED <<streamVars, ask, size, taken, sent, cut, gaveUp>>

CloseStatus(w) ==
    /\ feed[w] = "close_status"
    /\ \/ dir /\ status = "ended" /\ EndClose(w, "refused")
       \/ ~(dir /\ status = "ended") /\ Goto(w, "close_kill") /\ UNCHANGED told
    /\ UNCHANGED <<streamVars, ask, size, taken, sent, cut, gaveUp>>

\* The pid of a zombie passes for a live holder.
CloseKills(w) ==
    /\ feed[w] = "close_kill"
    /\ \/ /\ dir /\ holder # "gone"
          /\ holder' = KilledHolder /\ fifo' = Kept(holder', command, opened)
          /\ EndClose(w, "written")
       \/ /\ ~(dir /\ holder # "gone")
          /\ Goto(w, "close_resolve") /\ UNCHANGED <<told, holder, fifo>>
    /\ UNCHANGED <<dir, status, command, runner, killer, opened, consumed, eof, out,
                   ask, size, taken, sent, cut, gaveUp>>

\* The process ended meanwhile, or somebody has closed stdin before.
CloseResolves(w) ==
    /\ feed[w] = "close_resolve"
    /\ Resolved
    /\ EndClose(w, IF Over THEN "refused" ELSE "failed")
    /\ UNCHANGED <<dir, processVars, killer, pipeVars, out,
                   ask, size, taken, sent, cut, gaveUp>>

-----------------------------------------------------------------------------

\* What rxd does next for a feeder.
Feed(w) ==
    \/ Look(w) \/ CheckStatus(w) \/ OpenNonblocking(w) \/ OpenBlocking(w)
    \/ Write(w) \/ Written(w) \/ TimesOut(w) \/ WriteBroken(w)
    \/ Receive(w) \/ ReceiveEnd(w) \/ PipeKills(w)
    \/ CloseLook(w) \/ CloseStatus(w) \/ CloseKills(w) \/ CloseResolves(w)

FeedNext == \E w \in Feeders : Feed(w) \/ CutPipe(w)

FeedTypeOK ==
    /\ ask \in [Feeders -> FeedOp]
    /\ size \in [Feeders -> 0 .. MaxBody]
    /\ feed \in [Feeders -> {"look", "status", "open", "feed", "receive", "kill", "kill_broken",
                             "close_look", "close_status", "close_kill", "close_resolve",
                             "fed", "done"}]
    /\ taken \in [Feeders -> 0 .. MaxBody]
    /\ sent \in [Feeders -> 0 .. MaxBody]
    /\ cut \subseteq Feeders /\ gaveUp \subseteq Feeders
    /\ told \in [Feeders -> {"none", "written", "refused", "failed", "timeout", "transport"}]
    /\ \A w \in Feeders :
        /\ sent[w] <= taken[w] /\ taken[w] <= size[w]
        /\ w \in opened <=> feed[w] \in {"feed", "receive"}

-----------------------------------------------------------------------------
(* Properties *)

\* What was written to the FIFO: the units the command has read, and those
\* still in the pipe.
Way == consumed \o fifo

\* Where a feeder's units are in it.
Places(w) == {i \in DOMAIN Way : Way[i][1] = w}

\* The first n units of a feeder are among those of a sequence.
Holds(s, w, n) == \A k \in 1 .. n : \E i \in DOMAIN s : s[i] = <<w, k>>

\* Whatever the interleaving of the writers, each one's bytes arrive once and
\* in order, with none missing between them; none is lost before the command
\* stops reading.
FedInOrder ==
    \A w \in Feeders :
        /\ \A i \in Places(w) :
            /\ Way[i][2] <= sent[w]
            /\ \A j \in Places(w) : i < j => Way[i][2] < Way[j][2]
            /\ \A k \in 1 .. Way[i][2] : \E j \in 1 .. i : Way[j] = <<w, k>>
        /\ command = "reads" => Holds(Way, w, sent[w])

\* Who is told that its bytes were written has written all of them; who is
\* told that stdin was closed closed it.
WrittenIsTrue ==
    \A w \in Feeders : told[w] = "written" =>
        /\ sent[w] = size[w]
        /\ ask[w] = "close" => holder # "paused"

\* A feeder that ends stdin by itself, and has written all it will.
Ended(w) ==
    \/ ask[w] = "close" /\ told[w] = "written"
    \/ ask[w] \in {"run", "pipe"} /\ feed[w] \in {"fed", "done"}

\* The command reads the end of its input only when somebody asked for it,
\* by close, by run or by a pipe, and then all of that body has been read,
\* but for what a time-out or a cut connection kept back; or when the
\* process is being killed.
EndIsAsked ==
    [][eof' # eof =>
        \/ killer # "idle"
        \/ \E w \in Feeders :
            /\ Ended(w)
            /\ \/ Holds(consumed, w, size[w])
               \/ w \in gaveUp \cup cut]_<<streamVars, feedVars>>
=============================================================================
