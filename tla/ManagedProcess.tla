---------------------------- MODULE ManagedProcess ----------------------------
(***************************************************************************)
(* What rxd promises of a managed process to those who look at it: its     *)
(* command ends in one way, which is not taken back; nobody is told        *)
(* another, and nobody that it is unknown, as long as there is a runner to *)
(* record it; and what is recorded is not removed before the command is    *)
(* over, again as long as there is a runner.  The files, the probes and    *)
(* the order in which they are written are left to ProcessLifecycle.       *)
(***************************************************************************)
CONSTANTS
    Observers,   \* whoever asks
    Ends,        \* the ways a command can end
    Answers      \* what an observer may be told

VARIABLES
    fate,      \* how the command ends, once that is decided
    over,      \* whether the command is over, or will never come to be
    recorder,  \* whether there is, or will be, a runner to record the end
    kept,      \* whether the record is kept
    told       \* what each observer was told last

vars == <<fate, over, recorder, kept, told>>

Init ==
    /\ fate = "none" /\ over = FALSE /\ recorder = TRUE /\ kept = TRUE
    /\ told = [a \in Observers |-> "none"]

\* The end is decided, and may have come.
Decide ==
    /\ fate = "none" /\ fate' \in Ends
    /\ over' \in {over, TRUE}
    /\ UNCHANGED <<recorder, kept, told>>

\* The command ends, or its runner does.
Stop ==
    /\ over' \in {over, TRUE} /\ recorder' \in {recorder, FALSE}
    /\ UNCHANGED <<fate, kept, told>>

Remove ==
    /\ over \/ ~recorder
    /\ kept' = FALSE
    /\ UNCHANGED <<fate, over, recorder, told>>

\* What may be told; of a removed process, anything that was once recorded.
Tellable(v) ==
    kept => /\ v \in Ends => v = fate
            /\ v = "unknown" => ~recorder

\* An answer; that start failed is the end of it.
Tell(a) ==
    /\ \E v \in Answers : Tellable(v) /\ told' = [told EXCEPT ![a] = v]
    /\ over' \in {over, TRUE}
    /\ UNCHANGED <<fate, recorder, kept>>

Next == Decide \/ Stop \/ Remove \/ \E a \in Observers : Tell(a)

Spec == Init /\ [][Next]_vars
=============================================================================
