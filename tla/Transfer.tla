------------------------------ MODULE Transfer ------------------------------
(***************************************************************************)
(* Puts to one remote path, and gets from it, at the same time: Upload and *)
(* Download share the file system of RemoteFile, and a loss of power hits  *)
(* both.                                                                   *)
(***************************************************************************)
EXTENDS Upload, Download

CONSTANT MayLosePower   \* whether the host may lose power

VARIABLE power          \* "on" before, "lost" after the host lost power once

vars == <<fileVars, putVars, getVars, power>>

Init == FileInit /\ PutInit /\ GetInit /\ power = "on"

PowerLoss ==
    /\ MayLosePower
    /\ power = "on"
    /\ power' = "lost"
    /\ LosePower /\ PutLosePower /\ GetLosePower

\* Every transfer has been reported, and no rxd is left.
Finished ==
    /\ \A p \in Putters : rx[p] = "done" /\ rxd[p] \in {"idle", "gone"}
    /\ \A g \in Getters : getter[g] = "done" /\ server[g] = "gone"
    /\ UNCHANGED vars

Next ==
    \/ PutNext /\ UNCHANGED <<getVars, power>>
    \/ GetNext /\ UNCHANGED <<putVars, power>>
    \/ PowerLoss
    \/ Finished

Spec == Init /\ [][Next]_vars

\* Every rxd and every rx that has started takes its next step: they are
\* processes of a running kernel, and a source is finite.  Nothing is
\* assumed of faults or of other programs.
Fairness ==
    /\ \A p \in Putters :
        /\ WF_vars(RxdPut(p) /\ UNCHANGED <<getVars, power>>)
        /\ WF_vars((RxRequest(p) \/ RxSend(p) \/ RxEnd(p) \/ RxPipeBroken(p) \/ RxAnswer(p))
                   /\ UNCHANGED <<getVars, power>>)
    /\ \A g \in Getters :
        /\ WF_vars(ServerGet(g) /\ UNCHANGED <<putVars, power>>)
        /\ WF_vars(RxGet(g) /\ UNCHANGED <<putVars, power>>)

FairSpec == Spec /\ Fairness

-----------------------------------------------------------------------------
(* Properties *)

TypeOK ==
    /\ FileTypeOK
    /\ PutTypeOK
    /\ GetTypeOK
    /\ power \in {"on", "lost"}

\* A put always ends with a report: rx writes its whole body before it
\* reads, and rxd reads its whole body before it answers, over a pipe that
\* holds less than the body; neither may wait for the other for good.
PutsAnswer == \A p \in Putters : rx[p] = "send" ~> rx[p] = "done"

\* A get always ends with a report ("every command that DOES something
\* prints exactly one JSON object"), also when its local disk fails.
GetsAnswer == \A g \in Getters : getter[g] = "header" ~> getter[g] = "done"

\* The same, for gets whose local disk does not fail.
UndisturbedGetsAnswer ==
    \A g \in Getters : getter[g] = "header" ~> getter[g] \in {"done", "reap"}
=============================================================================
