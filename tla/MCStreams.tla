----------------------------- MODULE MCStreams -----------------------------
(***************************************************************************)
(* Streams for TLC: one actor that is a run, one other feeder, one other   *)
(* reader, and a drain.                                                    *)
(***************************************************************************)
EXTENDS Streams

CONSTANTS
    a1,           \* the run
    w1,           \* the other feeder
    r1,           \* the other reader
    d1,           \* the drain
    RunFeeds,     \* what a1 does with its body
    RunReads,     \* and with its output
    OtherFeeds,   \* what w1 may ask
    OtherReads    \* what r1 may ask

MCFeedOps == [w \in Feeders |-> IF w = a1 THEN RunFeeds ELSE OtherFeeds]

MCReadOps == [r \in Readers |-> CASE r = a1 -> RunReads [] r = d1 -> {"drain"} [] OTHER -> OtherReads]
=============================================================================
