------------------------------ MODULE Streams ------------------------------
(***************************************************************************)
(* The stdin and the output of one process together: StdinFeed and         *)
(* OutputRead around the process of ProcessStreams.  A run is in both: it  *)
(* feeds, closes, and then waits and reads.                                *)
(***************************************************************************)
EXTENDS StdinFeed, OutputRead

vars == <<streamVars, feedVars, readVars>>

\* An actor that feeds and reads is a run.
ASSUME RunAssumption ==
    \A a \in Feeders \cup Readers :
        (a \in Feeders /\ FeedOps[a] \cap Runs # {}) \/ (a \in Readers /\ ReadOps[a] \cap {"run", "ephemeral"} # {}) =>
            /\ a \in Feeders \cap Readers
            /\ FeedOps[a] \subseteq Runs
            /\ ReadOps[a] \subseteq {"run", "ephemeral"}

Init == StreamInit /\ FeedInit /\ ReadInit

\* run has fed and closed stdin, and waits for the end.
RunWaits(a) ==
    /\ feed[a] = "fed" /\ read[a] = "idle"
    /\ ReadAt(a, "poll")
    /\ UNCHANGED <<streamVars, feedVars, want, seen, found, flight, got, answer, breaks>>

\* pipe_stdin waits in open for a reader that will not come.
Stuck(w) == feed[w] = "open" /\ ask[w] \in Pipes /\ dir /\ holder = "gone" /\ command = "gone"

Finished ==
    /\ command = "gone" /\ runner = "gone"
    /\ killer \in {"idle", "done"}
    /\ \A w \in Feeders : feed[w] \in {"fed", "done"} \/ Stuck(w)
    /\ \A r \in Readers : read[r] = "done"
    /\ UNCHANGED vars

Next ==
    \/ ProcessNext /\ UNCHANGED <<feedVars, readVars>>
    \/ FeedNext /\ UNCHANGED readVars
    \/ ReadNext /\ UNCHANGED feedVars
    \/ \E a \in Feeders \cap Readers : RunWaits(a)
    \/ Finished

Spec == Init /\ [][Next]_vars

\* The kernel runs every process that can take a step.  Nothing is assumed of
\* the command, of connections, or of kill and clean.
Fairness ==
    /\ WF_vars((Runner \/ Killing) /\ UNCHANGED <<feedVars, readVars>>)
    /\ \A w \in Feeders : WF_vars(Feed(w) /\ UNCHANGED readVars)
    /\ \A a \in Feeders \cap Readers : WF_vars(RunWaits(a))
    /\ \A r \in Readers :
        /\ WF_vars((PollEnded(r) \/ Tailing(r) \/ Following(r) \/ Drain(r)) /\ UNCHANGED feedVars)
        /\ WF_vars(Arrive(r) /\ UNCHANGED feedVars)

FairSpec == Spec /\ Fairness

-----------------------------------------------------------------------------

TypeOK == StreamTypeOK /\ FeedTypeOK /\ ReadTypeOK

\* No feed that does not block hangs, whatever the command does: not run, not
\* write, not close.  One that does block ends with the process, once it
\* has the FIFO open.
FeedsEnd ==
    \A w \in Feeders :
        /\ ask[w] \notin Pipes ~> feed[w] \in {"fed", "done"}
        /\ w \in opened /\ command = "gone" ~> feed[w] \in {"fed", "done"}

\* As long as the directory is there, every stream, and every drain that is
\* not served by a cache whose daemon died, ends with the process.
StreamsEnd ==
    LET Lost  == \E c \in Readers : answer[c] = "lost"
        Quiet == \A r \in Readers :
                    want[r] \in Streaming \/ (want[r] = "drain" /\ ~Lost) => read[r] = "done"
    IN  command = "gone" ~> Quiet \/ ~dir
=============================================================================
