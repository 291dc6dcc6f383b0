----------------------- MODULE ProcessLifecycleProofs -----------------------
(***************************************************************************)
(* What holds of ProcessLifecycle for any set of clients, any modes and    *)
(* requests and any failing system calls: the types; where nobody kills,   *)
(* the truth of what is answered, though the runner may die; and what kill *)
(* does, where only rxd kills and clients know the id from start.          *)
(***************************************************************************)
EXTENDS ProcessLifecycle, TLAPS

\* The frames and the names of the common kinds of step are always expanded.
USE DEF fileVars, procVars, pipeVars, sysVars, heldVars, actorVars, vars,
        Step, Continue, RunnerStep, CommandStep, Forget, StatusResolved,
        WaitResolved, PollResolved, CleanResolved

-----------------------------------------------------------------------------
(* Type correctness *)

\* Finish keeps the types of what it changes.
LEMMA FinishType ==
    ASSUME ActorTypeOK, NEW a \in Actors, NEW v \in Replies, Finish(a, v)
    PROVE  ActorTypeOK'
  BY DEF ActorTypeOK, Finish, Goto, Steps, Unseen, Sights, Statuses

\* Whatever resolve_state returned, its caller keeps the types.
LEMMA ResolvedType ==
    ASSUME ActorTypeOK, NEW a \in Actors, NEW v \in Statuses \cup Fates,
           Resolved(a, v)
    PROVE  ActorTypeOK'
<1>1. CASE \E w \in Replies : Finish(a, w)
  BY <1>1, FinishType
<1>2. CASE /\ op' = op \/ op' = [op EXCEPT ![a] = "poll"]
           /\ \E l \in Steps : Goto(a, l)
           /\ seen' = [seen EXCEPT ![a] = Unseen]
           /\ reply' = reply \/ \E w \in Replies : reply' = [reply EXCEPT ![a] = w]
  BY <1>2 DEF ActorTypeOK, Goto, Unseen, Sights, Statuses, Requests
<1>3. v \in Replies /\ "cleaned" \in Replies /\ "kept" \in Replies /\ "not_found" \in Replies
  BY DEF Replies
<1>4. {"read_status", "sleep", "remove_runner"} \subseteq Steps
  BY DEF Steps, ResolveSteps, RemoveSteps
<1>5. QED
  BY <1>1, <1>2, <1>3, <1>4 DEF Resolved

\* The initial states have the types.
LEMMA InitType == Init => TypeOK
<1> SUFFICES ASSUME Init PROVE TypeOK
  OBVIOUS
<1>1. SysTypeOK
  BY DEF Init, SysTypeOK, Statuses, NotAlive
<1>2. pc \in [Actors -> Steps]
  BY DEF Init, Steps, StartSteps
<1>3. op \in [Actors -> Requests]
  <2>1. PICK m \in Modes : op = [a \in Actors |-> IF a = Starter THEN m ELSE "none"]
    BY DEF Init
  <2>2. QED
    BY <2>1 DEF Requests
<1>4. seen \in [Actors -> Sights] /\ reply \in [Actors -> Replies]
  BY DEF Init, Unseen, Sights, Replies, Statuses
<1>5. QED
  BY <1>1, <1>2, <1>3, <1>4 DEF TypeOK, ActorTypeOK


\* The processes change no actor's state.
LEMMA SystemType ==
    ASSUME TypeOK, Runner \/ Command \/ CommandEnds \/ Kernel \/ RunnerCrash
    PROVE  TypeOK'
<1> USE DEF SysTypeOK, RunnerSteps, CommandSteps, NotAlive, FileNames, Fates,
            Statuses, Terminal, WriteFile, WriteStatus, Die
<1>a. SUFFICES ASSUME TypeOK PROVE SysTypeOK' /\ UNCHANGED actorVars
  BY DEF TypeOK, ActorTypeOK, actorVars
<1>1. CASE Runner
  <2>1. CASE RunnerSetup
    BY <2>1 DEF TypeOK, RunnerSetup
  <2>2. CASE RunnerForkHolder
    BY <2>2 DEF TypeOK, RunnerForkHolder
  <2>3. CASE RunnerForkCommand
    BY <2>3 DEF TypeOK, RunnerForkCommand
  <2>4. CASE RunnerFailStatus
    BY <2>4 DEF TypeOK, RunnerFailStatus
  <2>5. CASE RunnerFailSync
    BY <2>5 DEF TypeOK, RunnerFailSync
  <2>6. CASE RunnerFailHolder
    BY <2>6 DEF TypeOK, RunnerFailHolder
  <2>7. CASE RunnerRecordSelf
    BY <2>7 DEF TypeOK, RunnerRecordSelf
  <2>8. CASE RunnerRecordHolder
    BY <2>8 DEF TypeOK, RunnerRecordHolder
  <2>9. CASE RunnerSignalStarter
    BY <2>9 DEF TypeOK, RunnerSignalStarter
  <2>10. CASE RunnerReap
    BY <2>10 DEF TypeOK, RunnerReap
  <2>11. CASE RunnerWriteStatus
    BY <2>11 DEF TypeOK, RunnerWriteStatus, StatusLine, Recorded
  <2>12. CASE RunnerWriteEnded
    BY <2>12 DEF TypeOK, RunnerWriteEnded
  <2>13. CASE RunnerKillHolder
    BY <2>13 DEF TypeOK, RunnerKillHolder
  <2>14. QED
    BY <1>1, <2>1, <2>2, <2>3, <2>4, <2>5, <2>6, <2>7, <2>8, <2>9, <2>10, <2>11, <2>12, <2>13 DEF Runner
<1>2. CASE Command
  <2>1. CASE CommandOpenStdin
    BY <2>1 DEF TypeOK, CommandOpenStdin
  <2>2. CASE CommandSignalReady
    BY <2>2 DEF TypeOK, CommandSignalReady
  <2>3. CASE CommandChdir
    BY <2>3 DEF TypeOK, CommandChdir
  <2>4. CASE CommandExec
    BY <2>4 DEF TypeOK, CommandExec
  <2>5. CASE CommandRecordExecError
    BY <2>5 DEF TypeOK, CommandRecordExecError
  <2>6. CASE CommandFailStatus
    BY <2>6 DEF TypeOK, CommandFailStatus
  <2>7. CASE CommandExit127
    BY <2>7 DEF TypeOK, CommandExit127
  <2>8. QED
    BY <1>2, <2>1, <2>2, <2>3, <2>4, <2>5, <2>6, <2>7 DEF Command
<1>3. CASE CommandEnds
  BY <1>3 DEF TypeOK, CommandEnds
<1>4. CASE Kernel
  <2>1. CASE ReapRunner
    BY <2>1 DEF TypeOK, ReapRunner
  <2>2. CASE ReapCommand
    BY <2>2 DEF TypeOK, ReapCommand
  <2>3. CASE ReapHolder
    BY <2>3 DEF TypeOK, ReapHolder
  <2>4. QED
    BY <1>4, <2>1, <2>2, <2>3 DEF Kernel
<1>5. CASE RunnerCrash
  BY <1>5 DEF TypeOK, RunnerCrash
<1>6. QED
  BY <1>1, <1>2, <1>3, <1>4, <1>5


\* A pid file or a status read keeps the types.
LEMMA SightType ==
    ASSUME ActorTypeOK, NEW a \in Actors, NEW b \in BOOLEAN, NEW s \in Statuses
    PROVE  /\ [seen EXCEPT ![a].pid = b] \in [Actors -> Sights]
           /\ [seen EXCEPT ![a].runner = b] \in [Actors -> Sights]
           /\ [seen EXCEPT ![a].status = s] \in [Actors -> Sights]
           /\ seen[a].status \in Statuses
  BY DEF ActorTypeOK, Sights

\* Moving an actor on keeps the types.
LEMMA MoveType ==
    ASSUME ActorTypeOK, NEW a \in Actors, NEW l \in Steps, Goto(a, l),
           UNCHANGED <<op, reply>>, seen' \in [Actors -> Sights]
    PROVE  ActorTypeOK'
  BY DEF ActorTypeOK, Goto

\* What an actor has read is typed.
LEMMA SeenType == ActorTypeOK => seen \in [Actors -> Sights]
  BY DEF ActorTypeOK

\* start and run keep the types.
LEMMA StarterType == ASSUME TypeOK, Start PROVE TypeOK'
<1> USE DEF TypeOK
<1>s. Starter \in Actors
  BY DEF Actors
<1>1. CASE StartMkdir
  <2>1. SysTypeOK'
    BY <1>1 DEF StartMkdir, SysTypeOK, sysVars, WriteFile, WriteStatus, Die, FileNames,
       Statuses, Terminal, RunnerSteps, NotAlive, Fates, KillCommand, TermCommand
  <2>2. ActorTypeOK'
    BY <1>1, <1>s, MoveType, SeenType, FinishType
    DEF StartMkdir, Replies, Statuses, Terminal, Fates, Steps, StartSteps, ResolveSteps
  <2>3. QED
    BY <2>1, <2>2
<1>2. CASE StartWriteRunning
  <2>1. SysTypeOK'
    BY <1>2 DEF StartWriteRunning, SysTypeOK, sysVars, WriteFile, WriteStatus, Die, FileNames,
       Statuses, Terminal, RunnerSteps, NotAlive, Fates, KillCommand, TermCommand
  <2>2. ActorTypeOK'
    BY <1>2, <1>s, MoveType, SeenType, FinishType
    DEF StartWriteRunning, Replies, Statuses, Terminal, Fates, Steps, StartSteps, ResolveSteps
  <2>3. QED
    BY <2>1, <2>2
<1>3. CASE StartFork
  <2>1. files' \subseteq FileNames
    BY <1>3 DEF StartFork, WriteFile, SysTypeOK, FileNames
  <2>2. SysTypeOK'
    BY <1>3, <2>1 DEF StartFork, SysTypeOK, RunnerSteps
  <2>3. ActorTypeOK'
    BY <1>3, <1>s, MoveType, SeenType, FinishType
    DEF StartFork, Replies, Steps, StartSteps
  <2>4. QED
    BY <2>2, <2>3
<1>4. CASE StartReadSync
  <2>1. SysTypeOK'
    BY <1>4 DEF StartReadSync, SysTypeOK, sysVars, WriteFile, WriteStatus, Die, FileNames,
       Statuses, Terminal, RunnerSteps, NotAlive, Fates, KillCommand, TermCommand
  <2>2. ActorTypeOK'
    BY <1>4, <1>s, MoveType, SeenType, FinishType
    DEF StartReadSync, Replies, Statuses, Terminal, Fates, Steps, StartSteps, ResolveSteps
  <2>3. QED
    BY <2>1, <2>2
<1>5. CASE StartWritePid
  <2>1. SysTypeOK'
    BY <1>5 DEF StartWritePid, SysTypeOK, sysVars, WriteFile, WriteStatus, Die, FileNames,
       Statuses, Terminal, RunnerSteps, NotAlive, Fates, KillCommand, TermCommand
  <2>2. ActorTypeOK'
    BY <1>5, <1>s, MoveType, SeenType, FinishType
    DEF StartWritePid, Replies, Statuses, Terminal, Fates, Steps, StartSteps, ResolveSteps
  <2>3. QED
    BY <2>1, <2>2
<1>6. CASE StartReadReady
  <2>1. SysTypeOK'
    BY <1>6 DEF StartReadReady, SysTypeOK, sysVars, WriteFile, WriteStatus, Die, FileNames,
       Statuses, Terminal, RunnerSteps, NotAlive, Fates, KillCommand, TermCommand
  <2>2. ActorTypeOK'
    BY <1>6, <1>s, MoveType, SeenType, FinishType
    DEF StartReadReady, Replies, Statuses, Terminal, Fates, Steps, StartSteps, ResolveSteps
  <2>3. QED
    BY <2>1, <2>2
<1>7. CASE RunCloseStatus
  <2>1. SysTypeOK'
    BY <1>7 DEF RunCloseStatus, SysTypeOK, sysVars, WriteFile, WriteStatus, Die, FileNames,
       Statuses, Terminal, RunnerSteps, NotAlive, Fates, KillCommand, TermCommand
  <2>2. ActorTypeOK'
    BY <1>7, <1>s, MoveType, SeenType, FinishType
    DEF RunCloseStatus, SysTypeOK, Replies, Statuses, Terminal, Fates, Steps, StartSteps, ResolveSteps
  <2>3. QED
    BY <2>1, <2>2
<1>8. CASE RunCloseHolder
  <2>1. SysTypeOK'
    BY <1>8 DEF RunCloseHolder, SysTypeOK, sysVars, WriteFile, WriteStatus, Die, FileNames,
       Statuses, Terminal, RunnerSteps, NotAlive, Fates, KillCommand, TermCommand
  <2>2. ActorTypeOK'
    BY <1>8, <1>s, MoveType, SeenType, FinishType
    DEF RunCloseHolder, Replies, Statuses, Terminal, Fates, Steps, StartSteps, ResolveSteps
  <2>3. QED
    BY <2>1, <2>2
<1>9. QED
  BY <1>1, <1>2, <1>3, <1>4, <1>5, <1>6, <1>7, <1>8 DEF Start

\* resolve_state and its callers keep the types.
LEMMA ResolveType == ASSUME TypeOK, NEW a \in Actors, Resolve(a) PROVE TypeOK'
<1> USE DEF TypeOK
<1>1. CASE ResolveReadStatus(a)
  <2>1. SysTypeOK'
    BY <1>1 DEF ResolveReadStatus, SysTypeOK, sysVars, WriteFile, WriteStatus, Die, FileNames,
       Statuses, Terminal, RunnerSteps, NotAlive, Fates, KillCommand, TermCommand
  <2>2. CASE status \in {"none", "running"}
    BY <1>1, <2>1, <2>2, ResolvedType, MoveType, SeenType
    DEF ResolveReadStatus, Statuses, Steps, ResolveSteps
  <2>3. CASE status \notin {"none", "running"}
    <3>1. /\ seen' = [seen EXCEPT ![a].status = status]
          /\ Goto(a, "read_exec_error") /\ UNCHANGED <<op, reply>>
      BY <1>1, <2>3 DEF ResolveReadStatus
    <3>2. seen' \in [Actors -> Sights]
      BY <3>1, SightType DEF SysTypeOK
    <3>3. QED
      BY <2>1, <3>1, <3>2, MoveType DEF Steps, ResolveSteps
  <2>4. QED
    BY <2>1, <2>2, <2>3
<1>2. CASE ResolveReadExecError(a)
  <2>1. SysTypeOK'
    BY <1>2 DEF ResolveReadExecError, SysTypeOK, sysVars, WriteFile, WriteStatus, Die, FileNames,
       Statuses, Terminal, RunnerSteps, NotAlive, Fates, KillCommand, TermCommand
  <2>2. seen[a].status \in Statuses
    BY SightType DEF Statuses
  <2>3. \E v \in Statuses \cup Fates : Resolved(a, v)
    BY <1>2, <2>2 DEF ResolveReadExecError, Fates
  <2>4. QED
    BY <2>1, <2>3, ResolvedType
<1>3. CASE ResolveReadPid(a)
  <2> DEFINE b == "pid" \in files
  <2>b. b \in BOOLEAN
    OBVIOUS
  <2>1. SysTypeOK'
    BY <1>3 DEF ResolveReadPid, SysTypeOK, sysVars, WriteFile, WriteStatus, Die, FileNames,
       Statuses, Terminal, RunnerSteps, NotAlive, Fates, KillCommand, TermCommand
  <2>3. /\ seen' = [seen EXCEPT ![a].pid = b]
       /\ \E l \in Steps : Goto(a, l)
       /\ UNCHANGED <<op, reply>>
    BY <1>3 DEF ResolveReadPid, Steps, ResolveSteps
  <2>4. ActorTypeOK'
    <3> HIDE DEF b
    <3>1. seen' \in [Actors -> Sights]
      BY <2>b, <2>3, SightType DEF Statuses
    <3>2. QED
      BY <2>3, <3>1, MoveType
  <2>5. QED
    BY <2>1, <2>4
<1>4. CASE ResolveReadRunner(a)
  <2> DEFINE b == "runner_pid" \in files
  <2>b. b \in BOOLEAN
    OBVIOUS
  <2>1. SysTypeOK'
    BY <1>4 DEF ResolveReadRunner, SysTypeOK, sysVars, WriteFile, WriteStatus, Die, FileNames,
       Statuses, Terminal, RunnerSteps, NotAlive, Fates, KillCommand, TermCommand
  <2>2. CASE Resolved(a, "running")
    BY <2>1, <2>2, ResolvedType DEF Statuses
  <2>3. CASE /\ seen' = [seen EXCEPT ![a].runner = b]
              /\ \E l \in {"probe_command", "probe_runner"} : Goto(a, l)
              /\ UNCHANGED <<op, reply>>
    <3> HIDE DEF b
    <3>1. seen' \in [Actors -> Sights]
      BY <2>b, <2>3, SightType DEF Statuses
    <3>2. QED
      BY <2>1, <2>3, <3>1, MoveType DEF Steps, ResolveSteps
  <2>4. QED
    BY <1>4, <2>1, <2>2, <2>3 DEF ResolveReadRunner
<1>5. CASE ResolveProbeCommand(a)
  <2>1. SysTypeOK'
    BY <1>5 DEF ResolveProbeCommand, SysTypeOK, sysVars, WriteFile, WriteStatus, Die, FileNames,
       Statuses, Terminal, RunnerSteps, NotAlive, Fates, KillCommand, TermCommand
  <2>2. ActorTypeOK'
    BY <1>5, MoveType, SeenType, FinishType, ResolvedType
    DEF ResolveProbeCommand, Replies, Statuses, Terminal, Fates, Steps, ResolveSteps
  <2>3. QED
    BY <2>1, <2>2
<1>6. CASE ResolveProbeRunner(a)
  <2>1. SysTypeOK'
    BY <1>6 DEF ResolveProbeRunner, SysTypeOK, sysVars, WriteFile, WriteStatus, Die, FileNames,
       Statuses, Terminal, RunnerSteps, NotAlive, Fates, KillCommand, TermCommand
  <2>2. ActorTypeOK'
    BY <1>6, MoveType, SeenType, FinishType, ResolvedType
    DEF ResolveProbeRunner, Replies, Statuses, Terminal, Fates, Steps, ResolveSteps
  <2>3. QED
    BY <2>1, <2>2
<1>7. CASE ResolveHeal(a)
  <2>1. SysTypeOK'
    BY <1>7 DEF ResolveHeal, SysTypeOK, sysVars, WriteFile, WriteStatus, Die, FileNames,
       Statuses, Terminal, RunnerSteps, NotAlive, Fates, KillCommand, TermCommand
  <2>2. ActorTypeOK'
    BY <1>7, MoveType, SeenType, FinishType
    DEF ResolveHeal, Replies, Statuses, Terminal, Fates, Steps, ResolveSteps
  <2>3. QED
    BY <2>1, <2>2
<1>8. CASE ResolveHealEnded(a)
  <2>1. SysTypeOK'
    BY <1>8 DEF ResolveHealEnded, SysTypeOK, sysVars, WriteFile, WriteStatus, Die, FileNames,
       Statuses, Terminal, RunnerSteps, NotAlive, Fates, KillCommand, TermCommand
  <2>2. ActorTypeOK'
    BY <1>8, MoveType, SeenType, FinishType, ResolvedType
    DEF ResolveHealEnded, Replies, Statuses, Terminal, Fates, Steps, ResolveSteps
  <2>3. QED
    BY <2>1, <2>2
<1>9. CASE PollAgain(a)
  <2>1. SysTypeOK'
    BY <1>9 DEF PollAgain, SysTypeOK, sysVars, WriteFile, WriteStatus, Die, FileNames,
       Statuses, Terminal, RunnerSteps, NotAlive, Fates, KillCommand, TermCommand
  <2>2. ActorTypeOK'
    BY <1>9, MoveType, SeenType, FinishType
    DEF PollAgain, Replies, Statuses, Terminal, Fates, Steps, ResolveSteps
  <2>3. QED
    BY <2>1, <2>2
<1>10. QED
  BY <1>1, <1>2, <1>3, <1>4, <1>5, <1>6, <1>7, <1>8, <1>9 DEF Resolve

\* remove_process_dir keeps the types.
LEMMA RemoveType == ASSUME TypeOK, NEW a \in Actors, Remove(a) PROVE TypeOK'
<1> USE DEF TypeOK, SysTypeOK, ActorTypeOK, Statuses, NotAlive, Die, Goto, Steps,
            RemoveSteps
<1>1. CASE RemoveRunner(a)
  BY <1>1 DEF RemoveRunner
<1>2. CASE RemoveHolder(a)
  BY <1>2 DEF RemoveHolder
<1>3. CASE RemoveFiles(a)
  BY <1>3 DEF RemoveFiles
<1>4. CASE RemoveDir(a)
  BY <1>4 DEF RemoveDir
<1>5. QED
  BY <1>1, <1>2, <1>3, <1>4 DEF Remove

\* kill keeps the types.
LEMMA KillType == ASSUME TypeOK, NEW a \in Actors, Kill(a) PROVE TypeOK'
<1> USE DEF TypeOK
<1>1. CASE KillDir(a)
  <2>1. SysTypeOK'
    BY <1>1 DEF KillDir, SysTypeOK, sysVars, WriteFile, WriteStatus, Die, FileNames,
       Statuses, Terminal, RunnerSteps, NotAlive, Fates, KillCommand, TermCommand
  <2>2. ActorTypeOK'
    BY <1>1, MoveType, SeenType, FinishType
    DEF KillDir, Replies, Statuses, Terminal, Fates, Steps, KillSteps
  <2>3. QED
    BY <2>1, <2>2
<1>2. CASE KillStatus(a)
  <2>1. SysTypeOK'
    BY <1>2 DEF KillStatus, SysTypeOK, sysVars, WriteFile, WriteStatus, Die, FileNames,
       Statuses, Terminal, RunnerSteps, NotAlive, Fates, KillCommand, TermCommand
  <2>2. ActorTypeOK'
    BY <1>2, MoveType, SeenType, FinishType
    DEF KillStatus, SysTypeOK, Replies, Statuses, Terminal, Fates, Steps, KillSteps
  <2>3. QED
    BY <2>1, <2>2
<1>3. CASE KillReadRunner(a)
  <2> DEFINE b == "runner_pid" \in files
  <2>b. b \in BOOLEAN
    OBVIOUS
  <2>1. SysTypeOK'
    BY <1>3 DEF KillReadRunner, SysTypeOK, sysVars, WriteFile, WriteStatus, Die, FileNames,
       Statuses, Terminal, RunnerSteps, NotAlive, Fates, KillCommand, TermCommand
  <2>3. /\ seen' = [seen EXCEPT ![a].runner = b]
       /\ \E l \in Steps : Goto(a, l)
       /\ UNCHANGED <<op, reply>>
    BY <1>3 DEF KillReadRunner, Steps, KillSteps
  <2>4. ActorTypeOK'
    <3> HIDE DEF b
    <3>1. seen' \in [Actors -> Sights]
      BY <2>b, <2>3, SightType DEF Statuses
    <3>2. QED
      BY <2>3, <3>1, MoveType
  <2>5. QED
    BY <2>1, <2>4
<1>4. CASE KillReadPid(a)
  <2> DEFINE b == "pid" \in files
  <2>b. b \in BOOLEAN
    OBVIOUS
  <2>1. SysTypeOK'
    BY <1>4 DEF KillReadPid, SysTypeOK, sysVars, WriteFile, WriteStatus, Die, FileNames,
       Statuses, Terminal, RunnerSteps, NotAlive, Fates, KillCommand, TermCommand
  <2>3. /\ seen' = [seen EXCEPT ![a].pid = b]
       /\ \E l \in Steps : Goto(a, l)
       /\ UNCHANGED <<op, reply>>
    BY <1>4 DEF KillReadPid, Steps, KillSteps
  <2>4. ActorTypeOK'
    <3> HIDE DEF b
    <3>1. seen' \in [Actors -> Sights]
      BY <2>b, <2>3, SightType DEF Statuses
    <3>2. QED
      BY <2>3, <3>1, MoveType
  <2>5. QED
    BY <2>1, <2>4
<1>5. CASE KillTerm(a)
  <2>1. SysTypeOK'
    BY <1>5 DEF KillTerm, SysTypeOK, sysVars, WriteFile, WriteStatus, Die, FileNames,
       Statuses, Terminal, RunnerSteps, NotAlive, Fates, KillCommand, TermCommand
  <2>2. ActorTypeOK'
    BY <1>5, MoveType, SeenType, FinishType
    DEF KillTerm, Replies, Statuses, Terminal, Fates, Steps, KillSteps
  <2>3. QED
    BY <2>1, <2>2
<1>6. CASE KillCheck(a)
  <2>1. SysTypeOK'
    BY <1>6 DEF KillCheck, SysTypeOK, sysVars, WriteFile, WriteStatus, Die, FileNames,
       Statuses, Terminal, RunnerSteps, NotAlive, Fates, KillCommand, TermCommand
  <2>2. ActorTypeOK'
    BY <1>6, MoveType, SeenType, FinishType
    DEF KillCheck, Replies, Statuses, Terminal, Fates, Steps, KillSteps
  <2>3. QED
    BY <2>1, <2>2
<1>7. CASE KillKill(a)
  <2>1. SysTypeOK'
    BY <1>7 DEF KillKill, SysTypeOK, sysVars, WriteFile, WriteStatus, Die, FileNames,
       Statuses, Terminal, RunnerSteps, NotAlive, Fates, KillCommand, TermCommand
  <2>2. ActorTypeOK'
    BY <1>7, MoveType, SeenType, FinishType
    DEF KillKill, Replies, Statuses, Terminal, Fates, Steps, KillSteps
  <2>3. QED
    BY <2>1, <2>2
<1>8. CASE KillRead(a)
  <2>1. SysTypeOK'
    BY <1>8 DEF KillRead, SysTypeOK, sysVars, WriteFile, WriteStatus, Die, FileNames,
       Statuses, Terminal, RunnerSteps, NotAlive, Fates, KillCommand, TermCommand
  <2>2. ActorTypeOK'
    BY <1>8, MoveType, SeenType, FinishType
    DEF KillRead, Replies, Statuses, Terminal, Fates, Steps, KillSteps
  <2>3. QED
    BY <2>1, <2>2
<1>9. CASE KillWrite(a)
  <2>1. SysTypeOK'
    BY <1>9 DEF KillWrite, SysTypeOK, sysVars, WriteFile, WriteStatus, Die, FileNames,
       Statuses, Terminal, RunnerSteps, NotAlive, Fates, KillCommand, TermCommand
  <2>2. ActorTypeOK'
    BY <1>9, MoveType, SeenType, FinishType
    DEF KillWrite, Replies, Statuses, Terminal, Fates, Steps, KillSteps
  <2>3. QED
    BY <2>1, <2>2
<1>10. CASE KillEnded(a)
  <2>1. SysTypeOK'
    BY <1>10 DEF KillEnded, SysTypeOK, sysVars, WriteFile, WriteStatus, Die, FileNames,
       Statuses, Terminal, RunnerSteps, NotAlive, Fates, KillCommand, TermCommand
  <2>2. ActorTypeOK'
    BY <1>10, MoveType, SeenType, FinishType
    DEF KillEnded, Replies, Statuses, Terminal, Fates, Steps, KillSteps
  <2>3. QED
    BY <2>1, <2>2
<1>11. QED
  BY <1>1, <1>2, <1>3, <1>4, <1>5, <1>6, <1>7, <1>8, <1>9, <1>10 DEF Kill

\* A new request keeps the types.
LEMMA RequestType == ASSUME TypeOK, NEW c \in Clients, Request(c) PROVE TypeOK'
  BY DEF Request, TypeOK, SysTypeOK, ActorTypeOK, sysVars, Actors, Goto,
         Requests, Steps, KillSteps, ResolveSteps

\* TypeOK: every value the system's variables take, of ProcessDir's files and
\* of the process table, is one the code can produce.
THEOREM TypeCorrect == Spec => []TypeOK
<1>1. TypeOK /\ [Next]_vars => TypeOK'
  <2> SUFFICES ASSUME TypeOK, [Next]_vars PROVE TypeOK'
    OBVIOUS
  <2>1. CASE Start
    BY <2>1, StarterType
  <2>2. CASE Runner \/ Command \/ CommandEnds \/ Kernel \/ RunnerCrash
    BY <2>2, SystemType
  <2>3. CASE \E c \in Clients : Request(c)
    BY <2>3, RequestType
  <2>4. CASE \E a \in Actors : Actor(a)
    BY <2>4, ResolveType, RemoveType, KillType DEF Actor
  <2>5. CASE UNCHANGED vars
    BY <2>5 DEF vars, TypeOK, SysTypeOK, ActorTypeOK
  <2>6. QED
    BY <2>1, <2>2, <2>3, <2>4, <2>5 DEF Next, Finished
<1>2. QED
  BY InitType, <1>1, PTL DEF Spec


-----------------------------------------------------------------------------
(* How the command ended, and what is written and read of it *)

\* Which steps of the starter, the runner and the command go together.
RunnerOrder ==
    /\ pc[Starter] \in {"mkdir", "write_running", "fork"} => runner = "unborn"
    /\ runner \in {"unborn", "setup", "fork_holder", "fork_command"}
         => command = "unborn" /\ fate = "none"
    /\ runner \in {"fail_status", "fail_sync", "fail_holder"}
         => command = "unborn"
    /\ runner \in {"write_status", "write_ended", "kill_holder"}
         => command = "gone"

\* When the fate of the command is decided.
FateOfCommand ==
    /\ command = "unborn" => fate \in {"none", "exited127"}
    /\ command \in {"open_stdin", "signal_ready", "chdir", "exec", "running"}
         => fate = "none"
    /\ command = "record_exec_error" => fate = "execfailed"
    /\ command \in {"fail_status", "exit127"}
         => fate \in {"exited127", "execfailed"}
    /\ command \in {"zombie", "gone"} => fate \in Fates

FilesNeedDir == files # {} => dir = "present"

\* The exec_error marker says that exec failed and, once the command is past
\* writing it, is there until somebody removes the files.
MarkerIsTrue ==
    /\ "exec_error" \in files => fate = "execfailed"
    /\ fate = "execfailed" /\ command # "record_exec_error" /\ ~RemovalBegun
         => "exec_error" \in files

\* A recorded exit is the command's, and no exec failure is recorded before
\* its marker.
Truthful(s) ==
    s \in Recorded => /\ fate \in Fates /\ s = StatusLine(fate)
                      /\ command # "record_exec_error"

NobodyKills == \A a \in Actors : pc[a] \notin KillSteps

\* The inductive invariant: what is written down is true, and so is what has
\* been read of it, even of a status that has been overwritten since.
Truth ==
    /\ RunnerOrder /\ FateOfCommand /\ FilesNeedDir /\ MarkerIsTrue
    /\ Truthful(status) /\ \A a \in Actors : Truthful(seen[a].status)
    /\ NobodyKills


\* The processes keep the invariant.
LEMMA SystemTruth ==
    ASSUME TypeOK, Truth, Runner \/ Command \/ CommandEnds \/ Kernel \/ RunnerCrash
    PROVE  Truth'
<1> USE DEF TypeOK, SysTypeOK, RunnerSteps, CommandSteps, NotAlive, Alive, Fates,
            Statuses, Terminal, Recorded, RemovalBegun, WriteFile, WriteStatus,
            StatusLine, Truth, RunnerOrder, FateOfCommand, FilesNeedDir,
            MarkerIsTrue, Truthful, NobodyKills, actorVars
<1>1. CASE Runner
  <2>1. CASE RunnerSetup
    BY <2>1 DEF RunnerSetup
  <2>2. CASE RunnerForkHolder
    BY <2>2 DEF RunnerForkHolder
  <2>3. CASE RunnerForkCommand
    BY <2>3 DEF RunnerForkCommand
  <2>4. CASE RunnerFailStatus
    BY <2>4 DEF RunnerFailStatus
  <2>5. CASE RunnerFailSync
    BY <2>5 DEF RunnerFailSync
  <2>6. CASE RunnerFailHolder
    BY <2>6 DEF RunnerFailHolder
  <2>7. CASE RunnerRecordSelf
    BY <2>7 DEF RunnerRecordSelf
  <2>8. CASE RunnerRecordHolder
    BY <2>8 DEF RunnerRecordHolder
  <2>9. CASE RunnerSignalStarter
    BY <2>9 DEF RunnerSignalStarter
  <2>10. CASE RunnerReap
    BY <2>10 DEF RunnerReap
  <2>11. CASE RunnerWriteStatus
    BY <2>11 DEF RunnerWriteStatus
  <2>12. CASE RunnerWriteEnded
    BY <2>12 DEF RunnerWriteEnded
  <2>13. CASE RunnerKillHolder
    BY <2>13 DEF RunnerKillHolder
  <2>14. QED
    BY <1>1, <2>1, <2>2, <2>3, <2>4, <2>5, <2>6, <2>7, <2>8, <2>9, <2>10, <2>11, <2>12, <2>13 DEF Runner
<1>2. CASE Command
  <2>1. CASE CommandOpenStdin
    BY <2>1 DEF CommandOpenStdin
  <2>2. CASE CommandSignalReady
    BY <2>2 DEF CommandSignalReady
  <2>3. CASE CommandChdir
    BY <2>3 DEF CommandChdir
  <2>4. CASE CommandExec
    BY <2>4 DEF CommandExec
  <2>5. CASE CommandRecordExecError
    BY <2>5 DEF CommandRecordExecError
  <2>6. CASE CommandFailStatus
    BY <2>6 DEF CommandFailStatus
  <2>7. CASE CommandExit127
    BY <2>7 DEF CommandExit127
  <2>8. QED
    BY <1>2, <2>1, <2>2, <2>3, <2>4, <2>5, <2>6, <2>7 DEF Command
<1>3. CASE CommandEnds
  BY <1>3 DEF CommandEnds
<1>4. CASE Kernel
  <2>1. CASE ReapRunner
    BY <2>1 DEF ReapRunner
  <2>2. CASE ReapCommand
    BY <2>2 DEF ReapCommand
  <2>3. CASE ReapHolder
    BY <2>3 DEF ReapHolder
  <2>4. QED
    BY <1>4, <2>1, <2>2, <2>3 DEF Kernel
<1>5. CASE RunnerCrash
  BY <1>5 DEF RunnerCrash
<1>6. QED
  BY <1>1, <1>2, <1>3, <1>4, <1>5


\* The starter keeps the invariant: nothing is born before its fork.
LEMMA StarterTruth == ASSUME TypeOK, Truth, Start PROVE Truth'
<1> USE DEF TypeOK, SysTypeOK, ActorTypeOK, RunnerSteps, CommandSteps, NotAlive,
            Alive, Fates, Statuses, Terminal, Recorded, RemovalBegun, WriteFile,
            WriteStatus, StatusLine, Truth, RunnerOrder, FateOfCommand,
            FilesNeedDir, MarkerIsTrue, Truthful, NobodyKills, Goto, Finish,
            Actors, Unseen, Die, sysVars, KillSteps
<1>1. CASE StartMkdir
  BY <1>1 DEF StartMkdir
<1>2. CASE StartWriteRunning
  BY <1>2 DEF StartWriteRunning
<1>3. CASE StartFork
  BY <1>3 DEF StartFork
<1>4. CASE StartReadSync
  BY <1>4 DEF StartReadSync
<1>5. CASE StartWritePid
  BY <1>5 DEF StartWritePid
<1>6. CASE StartReadReady
  BY <1>6 DEF StartReadReady
<1>7. CASE RunCloseStatus
  BY <1>7 DEF RunCloseStatus
<1>8. CASE RunCloseHolder
  BY <1>8 DEF RunCloseHolder
<1>9. QED
  BY <1>1, <1>2, <1>3, <1>4, <1>5, <1>6, <1>7, <1>8 DEF Start

\* What an actor does after resolve_state: it forgets what it has read.
LEMMA ResolvedStep ==
    ASSUME ActorTypeOK, NEW a \in Actors, NEW v, Resolved(a, v)
    PROVE  \A b \in Actors :
             /\ seen'[b].status \in {seen[b].status, "none"}
             /\ pc'[b] \in {pc[b], "done", "read_status", "sleep", "remove_runner"}
             /\ reply'[b] \in {reply[b], v, "not_found", "kept", "cleaned"}
  BY DEF ActorTypeOK, Sights, Resolved, Finish, Goto, Unseen

\* An actor that at most heals keeps the invariant, whatever it reads of the
\* status.
LEMMA ObserverTruth ==
    ASSUME TypeOK, Truth,
           UNCHANGED <<dir, runner, command, fate>>,
           status' \in {status, "unknown"},
           files' = files \/ (dir = "present" /\ files' = files \cup {"ended"}),
           \A b \in Actors :
             /\ seen'[b].status \in {seen[b].status, status, "none"}
             /\ pc'[b] \in {pc[b]} \cup {"done", "sleep", "remove_runner"} \cup ResolveSteps
    PROVE  Truth'
<1>1. NobodyKills'
  BY DEF Truth, NobodyKills, ResolveSteps, KillSteps
<1>2. RunnerOrder' /\ FateOfCommand'
  BY DEF Truth, RunnerOrder, FateOfCommand, ResolveSteps, Actors
<1>3. FilesNeedDir' /\ MarkerIsTrue'
  BY DEF Truth, FilesNeedDir, MarkerIsTrue, RemovalBegun
<1>4. Truthful(status)' /\ \A a \in Actors : Truthful(seen[a].status)'
  BY DEF Truth, Truthful, Recorded, StatusLine
<1>5. QED
  BY <1>1, <1>2, <1>3, <1>4 DEF Truth

\* resolve_state keeps the invariant: healing writes no exit.
LEMMA ResolveTruth == ASSUME TypeOK, Truth, NEW a \in Actors, Resolve(a) PROVE Truth'
<1> USE DEF TypeOK, ActorTypeOK, Sights, ResolveSteps, Goto, Finish, Unseen,
            sysVars
<1>1. CASE ResolveReadStatus(a)
  BY <1>1, ResolvedStep, ObserverTruth DEF ResolveReadStatus
<1>2. CASE ResolveReadExecError(a)
  BY <1>2, ResolvedStep, ObserverTruth DEF ResolveReadExecError
<1>3. CASE ResolveReadPid(a)
  BY <1>3, ObserverTruth DEF ResolveReadPid
<1>4. CASE ResolveReadRunner(a)
  BY SMTT(30), <1>4, ResolvedStep, ObserverTruth DEF ResolveReadRunner
<1>5. CASE ResolveProbeCommand(a)
  BY <1>5, ResolvedStep, ObserverTruth DEF ResolveProbeCommand
<1>6. CASE ResolveProbeRunner(a)
  BY <1>6, ResolvedStep, ObserverTruth DEF ResolveProbeRunner
<1>7. CASE ResolveHeal(a)
  BY <1>7, ObserverTruth DEF ResolveHeal, WriteStatus
<1>8. CASE ResolveHealEnded(a)
  BY <1>8, ResolvedStep, ObserverTruth DEF ResolveHealEnded, WriteFile
<1>9. CASE PollAgain(a)
  BY <1>9, ObserverTruth DEF PollAgain
<1>10. QED
  BY <1>1, <1>2, <1>3, <1>4, <1>5, <1>6, <1>7, <1>8, <1>9 DEF Resolve

\* Removal keeps the invariant: it only kills the runner and the holder, and
\* takes all the files before the directory.
LEMMA RemoveTruth == ASSUME TypeOK, Truth, NEW a \in Actors, Remove(a) PROVE Truth'
<1> USE DEF TypeOK, SysTypeOK, ActorTypeOK, RunnerSteps, NotAlive, Alive, Fates,
            Statuses, Recorded, RemovalBegun, StatusLine, Truth, RunnerOrder,
            FateOfCommand, FilesNeedDir, MarkerIsTrue, Truthful, NobodyKills,
            Goto, Die, KillSteps, Actors
<1>1. CASE RemoveRunner(a)
  BY <1>1 DEF RemoveRunner
<1>2. CASE RemoveHolder(a)
  BY <1>2 DEF RemoveHolder
<1>3. CASE RemoveFiles(a)
  BY <1>3 DEF RemoveFiles
<1>4. CASE RemoveDir(a)
  BY <1>4 DEF RemoveDir
<1>5. QED
  BY <1>1, <1>2, <1>3, <1>4 DEF Remove

\* A request other than kill keeps the invariant.
LEMMA RequestTruth ==
    ASSUME "kill" \notin Ops, TypeOK, Truth, NEW c \in Clients, Request(c)
    PROVE  Truth'
<1>1. /\ UNCHANGED sysVars /\ UNCHANGED seen
      /\ pc' = [pc EXCEPT ![c] = "read_status"]
  BY DEF Request, Goto
<1>2. QED
  BY <1>1, ObserverTruth DEF sysVars, TypeOK, ActorTypeOK, ResolveSteps

\* Initially nothing is written and nothing has been read.
LEMMA InitTruth == Init => Truth
<1> SUFFICES ASSUME Init PROVE Truth
  OBVIOUS
<1>1. NobodyKills
  BY DEF Init, NobodyKills, KillSteps
<1>2. RunnerOrder /\ FateOfCommand /\ FilesNeedDir /\ MarkerIsTrue
  BY DEF Init, RunnerOrder, FateOfCommand, FilesNeedDir, MarkerIsTrue
<1>3. Truthful(status) /\ \A a \in Actors : Truthful(seen[a].status)
  BY DEF Init, Truthful, Recorded, Unseen
<1>4. QED
  BY <1>1, <1>2, <1>3 DEF Truth

\* Truth is inductive where nobody kills.
LEMMA NextTruth ==
    ASSUME "kill" \notin Ops PROVE TypeOK /\ Truth /\ [Next]_vars => Truth'
<1> SUFFICES ASSUME TypeOK, Truth, [Next]_vars PROVE Truth'
  OBVIOUS
<1>1. CASE Start
  BY <1>1, StarterTruth
<1>2. CASE Runner \/ Command \/ CommandEnds \/ Kernel \/ RunnerCrash
  BY <1>2, SystemTruth
<1>3. CASE \E c \in Clients : Request(c)
  BY <1>3, RequestTruth
<1>4. CASE \E a \in Actors : Actor(a)
  <2>1. PICK a \in Actors : Actor(a)
    BY <1>4
  <2>2. CASE Kill(a)
    <3>1. pc[a] \in KillSteps
      BY <2>2 DEF Kill, KillSteps, KillDir, KillStatus, KillReadRunner, KillReadPid,
                  KillTerm, KillCheck, KillKill, KillRead, KillWrite, KillEnded
    <3>2. QED
      BY <3>1 DEF Truth, NobodyKills
  <2>3. QED
    BY <2>1, <2>2, ResolveTruth, RemoveTruth DEF Actor
<1>5. CASE UNCHANGED vars
  BY <1>5, ObserverTruth DEF vars, TypeOK
<1>6. QED
  BY <1>1, <1>2, <1>3, <1>4, <1>5 DEF Next, Finished


\* Nobody answers a wrong exit: with what is written true, so is what is told.
LEMMA TruthAnswers ==
    ASSUME TypeOK, Truth, [Next]_vars, NEW a \in Actors,
           reply'[a] # reply[a], reply'[a] \in Fates,
           runner = "unborn" \/ ~RemovalBegun
    PROVE  reply'[a] = fate
<1> USE DEF TypeOK, ActorTypeOK
<1>1. CASE Start
  BY <1>1 DEF Start, StartMkdir, StartWriteRunning, StartFork, StartReadSync,
              StartWritePid, StartReadReady, RunCloseStatus, RunCloseHolder,
              sysVars, Finish, Fates, Actors
<1>2. CASE Runner \/ Command \/ CommandEnds \/ Kernel \/ RunnerCrash
  <2>1. reply' = reply
    BY <1>2 DEF Runner, RunnerSetup, RunnerForkHolder, RunnerForkCommand,
                RunnerFailStatus, RunnerFailSync, RunnerFailHolder,
                RunnerRecordSelf, RunnerRecordHolder, RunnerSignalStarter,
                RunnerReap, RunnerWriteStatus, RunnerWriteEnded,
                RunnerKillHolder, Command, CommandOpenStdin,
                CommandSignalReady, CommandChdir, CommandExec,
                CommandRecordExecError, CommandFailStatus, CommandExit127,
                CommandEnds, Kernel, ReapRunner, ReapCommand, ReapHolder,
                RunnerCrash, actorVars
  <2>2. QED
    BY <2>1
<1>3. CASE \E c \in Clients : Request(c)
  BY <1>3 DEF Request
<1>4. CASE \E b \in Actors : Actor(b)
  <2>1. PICK b \in Actors : Actor(b)
    BY <1>4
  <2>2. CASE ResolveReadExecError(b)
    <3>1. PICK v : /\ v = IF "exec_error" \in files THEN "execfailed"
                                                     ELSE seen[b].status
                   /\ Resolved(b, v)
      BY <2>2 DEF ResolveReadExecError
    <3>2. reply'[a] = v
      BY <3>1, ResolvedStep DEF Fates
    <3>3. CASE "exec_error" \in files
      BY <3>1, <3>2, <3>3 DEF Truth, MarkerIsTrue
    <3>4. CASE "exec_error" \notin files
      <4>1. Truthful(seen[b].status) /\ v = seen[b].status /\ v \in Recorded
        BY <3>1, <3>2, <3>4, SightType
        DEF Truth, Fates, Recorded, Statuses, Terminal
      <4>2. fate # "execfailed"
        BY <3>4, <4>1 DEF Truth, Truthful, MarkerIsTrue, RunnerOrder
      <4>3. QED
        BY <3>2, <4>1, <4>2 DEF Truthful, StatusLine
    <3>5. QED
      BY <3>3, <3>4
  <2>3. CASE Resolve(b) /\ ~ResolveReadExecError(b)
    <3>1. \/ reply' = reply \/ Finish(b, "timeout")
          \/ \E v \in {"none", "running", "unknown"} : Resolved(b, v)
      BY <2>3
      DEF Resolve, ResolveReadStatus, ResolveReadPid, ResolveReadRunner,
          ResolveProbeCommand, ResolveProbeRunner, ResolveHeal,
          ResolveHealEnded, PollAgain
    <3>2. QED
      BY <3>1, ResolvedStep DEF Fates, Finish
  <2>4. CASE Remove(b)
    BY <2>4 DEF Remove, RemoveRunner, RemoveHolder, RemoveFiles, RemoveDir
  <2>5. CASE Kill(b)
    <3>1. pc[b] \in KillSteps
      BY <2>5 DEF Kill, KillSteps, KillDir, KillStatus, KillReadRunner, KillReadPid,
                  KillTerm, KillCheck, KillKill, KillRead, KillWrite, KillEnded
    <3>2. QED
      BY <3>1 DEF Truth, NobodyKills
  <2>6. QED
    BY <2>1, <2>2, <2>3, <2>4, <2>5 DEF Actor
<1>5. CASE UNCHANGED vars
  BY <1>5 DEF vars
<1>6. QED
  BY <1>1, <1>2, <1>3, <1>4, <1>5 DEF Next, Finished

\* AnswersAreTrue: where nobody kills, whoever is told by status, wait, run or
\* list how the command ended is told how it did end, for any number of readers
\* and writers of the process directory and even if the runner dies.  (With a
\* kill, a command that was about to exit 127 may be answered so and then die
\* of the signal.)
THEOREM AnswersTrue == ASSUME "kill" \notin Ops PROVE Spec => AnswersAreTrue
<1>1. TypeOK /\ Truth /\ [Next]_vars
        => [\A a \in Actors :
              reply'[a] # reply[a] /\ reply'[a] \in Fates /\ ~RemovalBegun
                => reply'[a] = fate]_vars
  BY TruthAnswers
<1>2. Spec => []Truth
  <2>1. TypeOK /\ Truth /\ [Next]_vars => Truth'
    BY NextTruth
  <2>2. QED
    BY <2>1, InitTruth, TypeCorrect, PTL DEF Spec
<1>3. QED
  BY <1>1, <1>2, TypeCorrect, PTL DEF Spec, AnswersAreTrue

-----------------------------------------------------------------------------
(* What kill leaves behind *)

\* The starter knows from the pipes, or from a failure, how its start went.
Heard == pc[Starter] \notin StartSteps

\* Nobody will write a status that tells an exit.
Silent == WillNotRun /\ runner \in {"unborn", "fail_holder", "zombie", "gone"}

\* What has come through the pipe is so: the runner of a start that went well
\* has forked the command, that of one that failed forks none.
PipeIsTrue ==
    /\ sync = "empty" =>
         runner \in {"unborn", "setup", "fork_holder", "fork_command",
                     "record_runner", "record_holder", "sync",
                     "fail_status", "fail_sync"}
    /\ sync = "zero" => /\ command = "unborn"
                        /\ runner \in {"fail_holder", "zombie", "gone"}
    /\ sync = "pid" => command # "unborn" /\ runner # "unborn"
    /\ runner \in {"record_runner", "record_holder", "sync"} => command # "unborn"
    /\ pc[Starter] = "read_sync" => runner # "unborn"
    /\ pc[Starter] \in {"write_pid", "read_ready"} => sync = "pid"
    /\ Heard /\ sync = "empty" => reply[Starter] = "error"
    /\ reply[Starter] = "error" => pc[Starter] = "done" /\ runner = "unborn"

\* Both pids of a command that was announced are on record when its starter
\* goes on, until somebody removes them.
PidsOnRecord ==
    /\ runner \in {"record_holder", "sync"} \/ sync = "pid"
         => "runner_pid" \in files \/ RemovalBegun
    /\ sync = "pid" /\ (Heard \/ pc[Starter] = "read_ready")
         => "pid" \in files \/ RemovalBegun
    /\ "pid" \in files => sync = "pid"
    /\ \A a \in Actors : seen[a].pid => sync = "pid"

\* Clients come when start has answered.
ClientsComeLate == \A c \in Clients : pc[c] # "idle" => StartReturned

\* A final status is written or read, and healing begins, when the command is
\* over; removal when the runner is dead, too.
OverFirst ==
    /\ status \in Terminal => WillNotRun
    /\ RemovalBegun /\ runner # "unborn" => Silent
    /\ \A a \in Actors :
         /\ seen[a].status \in Terminal => WillNotRun
         /\ pc[a] = "read_exec_error" => seen[a].status \in Terminal
         /\ pc[a] \in {"read_runner", "probe_command"} => seen[a].pid \/ WillNotRun
         /\ pc[a] \in {"probe_runner", "heal", "heal_ended", "remove_runner"}
              => WillNotRun
         /\ pc[a] \in {"remove_holder", "remove_files", "remove_dir"} => Silent

\* A kill knows both pids or comes too late for anything; the runner is dead
\* when it has signalled, and the command when it is done.
KillsInOrder ==
    \A a \in Actors :
      /\ pc[a] = "kill_pid" => seen[a].runner \/ Silent
      /\ pc[a] \in {"kill_term", "kill_check", "kill_kill"}
           => (seen[a].runner /\ seen[a].pid) \/ Silent
      /\ pc[a] \in {"kill_check", "kill_kill"} => ~Alive(runner) \/ Silent
      /\ pc[a] \in {"kill_read", "kill_write", "kill_ended"} => Silent
      /\ pc[a] = "kill_write" => status \notin Recorded
      /\ pc[a] = "idle" => reply[a] = "none"

\* The inductive invariant.
KillsOK ==
    /\ RunnerOrder /\ FilesNeedDir /\ PipeIsTrue /\ PidsOnRecord
    /\ ClientsComeLate /\ OverFirst /\ KillsInOrder /\ KilledMeansDead

\* The processes keep the invariant: they speak up before they fall silent.
LEMMA SystemKills ==
    ASSUME TypeOK, KillsOK, Runner \/ Command \/ CommandEnds \/ Kernel
    PROVE  KillsOK'
<1> USE DEF TypeOK, SysTypeOK, RunnerSteps, CommandSteps, NotAlive, Alive, Fates,
            Statuses, Terminal, Recorded, RemovalBegun, WriteFile, WriteStatus,
            StatusLine, Die, WillNotRun, KillsOK, RunnerOrder, FilesNeedDir, Heard, Silent,
            PipeIsTrue, PidsOnRecord, ClientsComeLate, StartReturned, OverFirst,
            KillsInOrder, KilledMeansDead
<1>1. CASE Runner
  <2>1. CASE RunnerSetup
    BY <2>1 DEF RunnerSetup
  <2>2. CASE RunnerForkHolder
    BY <2>2 DEF RunnerForkHolder
  <2>3. CASE RunnerForkCommand
    BY <2>3 DEF RunnerForkCommand
  <2>4. CASE RunnerFailStatus
    BY <2>4 DEF RunnerFailStatus
  <2>5. CASE RunnerFailSync
    BY <2>5 DEF RunnerFailSync
  <2>6. CASE RunnerFailHolder
    BY <2>6 DEF RunnerFailHolder
  <2>7. CASE RunnerRecordSelf
    BY <2>7 DEF RunnerRecordSelf
  <2>8. CASE RunnerRecordHolder
    BY <2>8 DEF RunnerRecordHolder
  <2>9. CASE RunnerSignalStarter
    BY <2>9 DEF RunnerSignalStarter
  <2>10. CASE RunnerReap
    BY <2>10 DEF RunnerReap
  <2>11. CASE RunnerWriteStatus
    BY <2>11 DEF RunnerWriteStatus
  <2>12. CASE RunnerWriteEnded
    BY <2>12 DEF RunnerWriteEnded
  <2>13. CASE RunnerKillHolder
    BY <2>13 DEF RunnerKillHolder
  <2>14. QED
    BY <1>1, <2>1, <2>2, <2>3, <2>4, <2>5, <2>6, <2>7, <2>8, <2>9, <2>10, <2>11, <2>12, <2>13 DEF Runner
<1>2. CASE Command
  <2>1. CASE CommandOpenStdin
    BY <2>1 DEF CommandOpenStdin
  <2>2. CASE CommandSignalReady
    BY <2>2 DEF CommandSignalReady
  <2>3. CASE CommandChdir
    BY <2>3 DEF CommandChdir
  <2>4. CASE CommandExec
    BY <2>4 DEF CommandExec
  <2>5. CASE CommandRecordExecError
    BY <2>5 DEF CommandRecordExecError
  <2>6. CASE CommandFailStatus
    BY <2>6 DEF CommandFailStatus
  <2>7. CASE CommandExit127
    BY <2>7 DEF CommandExit127
  <2>8. QED
    BY <1>2, <2>1, <2>2, <2>3, <2>4, <2>5, <2>6, <2>7 DEF Command
<1>3. CASE CommandEnds
  BY <1>3 DEF CommandEnds
<1>4. CASE Kernel
  <2>1. CASE ReapRunner
    BY <2>1 DEF ReapRunner
  <2>2. CASE ReapCommand
    BY <2>2 DEF ReapCommand
  <2>3. CASE ReapHolder
    BY <2>3 DEF ReapHolder
  <2>4. QED
    BY <1>4, <2>1, <2>2, <2>3 DEF Kernel
<1>6. QED
  BY <1>1, <1>2, <1>3, <1>4

\* start and run keep the invariant.
LEMMA StarterKills == ASSUME TypeOK, KillsOK, Start PROVE KillsOK'
<1> USE DEF TypeOK, SysTypeOK, ActorTypeOK, RunnerSteps, CommandSteps, NotAlive, Alive,
            Statuses, Terminal, Recorded, RemovalBegun, WriteFile, WriteStatus,
            Die, WillNotRun, KillsOK, RunnerOrder, FilesNeedDir, Heard, Silent,
            PipeIsTrue, PidsOnRecord, ClientsComeLate, StartReturned, OverFirst,
            KillsInOrder, KilledMeansDead, StartSteps, Goto, Finish, Unseen, Actors
<1>1. CASE StartMkdir
  BY <1>1 DEF StartMkdir
<1>2. CASE StartWriteRunning
  BY <1>2 DEF StartWriteRunning
<1>3. CASE StartFork
  BY <1>3 DEF StartFork
<1>4. CASE StartReadSync
  BY <1>4 DEF StartReadSync
<1>5. CASE StartWritePid
  BY <1>5 DEF StartWritePid
<1>6. CASE StartReadReady
  BY <1>6 DEF StartReadReady
<1>7. CASE RunCloseStatus
  BY <1>7 DEF RunCloseStatus
<1>8. CASE RunCloseHolder
  BY <1>8 DEF RunCloseHolder
<1>9. QED
  BY <1>1, <1>2, <1>3, <1>4, <1>5, <1>6, <1>7, <1>8 DEF Start

\* Whoever has resolved the state keeps the invariant.
LEMMA ResolvedKills ==
    ASSUME TypeOK, KillsOK, NEW a \in Actors, NEW v, Resolved(a, v),
           pc[a] \in ResolveSteps, v # "error",
           UNCHANGED <<dir, status, runner, command, fate, sync>>,
           files' = files \/ (files' = files \cup {"ended"} /\ dir = "present"),
           v \notin {"none", "running"} => WillNotRun
    PROVE  KillsOK'
<1> USE DEF TypeOK, ActorTypeOK, Sights, KillsOK
<1>0. /\ seen' = [seen EXCEPT ![a] = Unseen]
      /\ op[a] # "kill"
      /\ op' = op \/ (op[a] = "wait" /\ op' = [op EXCEPT ![a] = "poll"])
  BY DEF Resolved, Finish, Goto, Polling
<1>p. \/ \E l \in {"done", "read_status", "sleep"} : pc' = [pc EXCEPT ![a] = l]
      \/ pc' = [pc EXCEPT ![a] = "remove_runner"] /\ WillNotRun
  BY DEF Resolved, Finish, Goto
<1>r. \/ reply' = reply
      \/ \E w \in {v, "not_found", "kept", "cleaned"} :
           reply' = [reply EXCEPT ![a] = w]
  BY DEF Resolved, Finish, Goto
<1>1. /\ \E l \in {"done", "read_status", "sleep", "remove_runner"} :
           pc' = [pc EXCEPT ![a] = l] /\ (l = "remove_runner" => WillNotRun)
      /\ \/ reply' = reply
         \/ \E w \in {v, "not_found", "kept", "cleaned"} :
              reply' = [reply EXCEPT ![a] = w]
  BY <1>p, <1>r
<1>2. RunnerOrder' /\ FilesNeedDir'
  BY <1>0, <1>1 DEF RunnerOrder, FilesNeedDir, ResolveSteps, Actors
<1>3. PipeIsTrue'
  BY <1>0, <1>1 DEF PipeIsTrue, Heard, StartSteps, ResolveSteps, Actors
<1>4. PidsOnRecord'
  BY <1>0, <1>1 DEF PidsOnRecord, Heard, StartSteps, ResolveSteps, Actors, RemovalBegun, Unseen
<1>5. ClientsComeLate'
  BY <1>0, <1>1 DEF ClientsComeLate, StartReturned, ResolveSteps, Actors
<1>6. (WillNotRun => WillNotRun') /\ (Silent => Silent')
  BY <1>0, <1>1 DEF Silent, WillNotRun, PipeIsTrue, ResolveSteps, Actors
<1>7. OverFirst'
  BY <1>0, <1>1, <1>6 DEF OverFirst, RemovalBegun, Unseen, Terminal
<1>8. KillsInOrder'
  BY <1>0, <1>1, <1>6 DEF KillsInOrder, Recorded, Alive, ResolveSteps
<1>9. KilledMeansDead'
  BY <1>0, <1>1, <1>6 DEF KilledMeansDead
<1>10. QED
  BY <1>2, <1>3, <1>4, <1>5, <1>7, <1>8, <1>9

\* When somebody looks, the starter knows how its start went.
LEMMA LookersCome ==
    ASSUME TypeOK, KillsOK, NEW a \in Actors, pc[a] \notin StartSteps \cup {"idle"}
    PROVE  Heard /\ (a # Starter => StartReturned)
  BY DEF KillsOK, ClientsComeLate, StartReturned, Heard, StartSteps, Actors

\* Who finds no pid of the command on record comes too late for it.
LEMMA NoPidMeansOver ==
    ASSUME TypeOK, KillsOK, Heard, "pid" \notin files \/ "runner_pid" \notin files
    PROVE  Silent
  BY DEF TypeOK, SysTypeOK, KillsOK, RunnerOrder, PidsOnRecord, PipeIsTrue,
         OverFirst, Silent, WillNotRun

\* Looking at the process keeps the invariant, and healing, which follows the
\* end of the command.
LEMMA ResolveKills ==
    ASSUME TypeOK, KillsOK, NEW a \in Actors, Resolve(a)
    PROVE  KillsOK'
<1> USE DEF TypeOK, ActorTypeOK, Sights, Goto
<1>a. ResolveSteps \cap StartSteps = {} /\ "idle" \notin ResolveSteps
  BY DEF ResolveSteps, StartSteps
<1>s. ASSUME NEW v \in {"none", "running"}, Resolved(a, v), UNCHANGED sysVars,
             pc[a] \in ResolveSteps
      PROVE  KillsOK'
  BY <1>s, ResolvedKills
<1>1. CASE ResolveReadStatus(a)
  <2>1. CASE status = "none"
    BY <1>1, <2>1, <1>s DEF ResolveReadStatus, ResolveSteps
  <2>2. CASE status # "none"
    <3>1. /\ pc[a] = "read_status" /\ UNCHANGED <<sysVars, op, reply>>
          /\ \/ seen' = seen /\ pc' = [pc EXCEPT ![a] = "read_pid"]
             \/ /\ seen' = [seen EXCEPT ![a].status = status]
                /\ pc' = [pc EXCEPT ![a] = "read_exec_error"]
                /\ status \in Terminal
      BY <1>1, <2>2 DEF ResolveReadStatus, SysTypeOK, Statuses
    <3>2. QED
      BY <3>1
      DEF KillsOK, RunnerOrder, FilesNeedDir, PipeIsTrue, PidsOnRecord, Heard,
          ClientsComeLate, StartReturned, OverFirst, KillsInOrder, KilledMeansDead,
          Silent, WillNotRun, RemovalBegun, StartSteps, Actors, Alive, NotAlive
  <2>3. QED
    BY <2>1, <2>2
<1>2. CASE ResolveReadExecError(a)
  <2>1. PICK v \in {"execfailed", seen[a].status} : Resolved(a, v)
    BY <1>2 DEF ResolveReadExecError
  <2>2. pc[a] = "read_exec_error" /\ seen[a].status \in Terminal
    BY <1>2 DEF ResolveReadExecError, KillsOK, OverFirst
  <2>3. v # "error" /\ WillNotRun
    BY <2>1, <2>2 DEF KillsOK, OverFirst, Terminal
  <2>4. QED
    BY <1>2, <2>1, <2>2, <2>3, ResolvedKills DEF ResolveReadExecError, ResolveSteps
<1>3. CASE ResolveReadPid(a)
  <2>1. "pid" \in files \/ Silent
    BY <1>3, <1>a, LookersCome, NoPidMeansOver DEF ResolveReadPid, ResolveSteps
  <2> DEFINE b == "pid" \in files
  <2>2. /\ seen' = [seen EXCEPT ![a].pid = b] /\ b \in BOOLEAN
        /\ pc[a] = "read_pid" /\ pc' = [pc EXCEPT ![a] = "read_runner"]
        /\ UNCHANGED <<sysVars, op, reply>>
        /\ b \/ Silent
        /\ b => sync = "pid"
    BY <1>3, <2>1 DEF ResolveReadPid, KillsOK, PidsOnRecord
  <2>3. QED
    <3> HIDE DEF b
    <3>1. QED
      BY <2>2
      DEF KillsOK, RunnerOrder, FilesNeedDir, PipeIsTrue,
        PidsOnRecord, Heard, ClientsComeLate, StartReturned, OverFirst,
        KillsInOrder, KilledMeansDead, Silent, WillNotRun, RemovalBegun,
        StartSteps, Actors, Alive, NotAlive
<1>4. CASE ResolveReadRunner(a)
  <2>1. CASE Resolved(a, "running")
    BY <1>4, <2>1, <1>s DEF ResolveReadRunner, ResolveSteps
  <2>2. CASE ~Resolved(a, "running")
    <3>1. /\ seen' = [seen EXCEPT ![a].runner = "runner_pid" \in files]
          /\ pc' = [pc EXCEPT ![a] = IF seen[a].pid THEN "probe_command"
                                                   ELSE "probe_runner"]
          /\ pc[a] = "read_runner" /\ UNCHANGED <<sysVars, op, reply>>
      BY <1>4, <2>2 DEF ResolveReadRunner
    <3>2. QED
      BY <3>1
      DEF KillsOK, RunnerOrder, FilesNeedDir, PipeIsTrue, PidsOnRecord, Heard,
          ClientsComeLate, StartReturned, OverFirst, KillsInOrder, KilledMeansDead,
          Silent, WillNotRun, RemovalBegun, StartSteps, Actors, Alive, NotAlive
  <2>3. QED
    BY <2>1, <2>2
<1>5. CASE ResolveProbeCommand(a)
  <2>1. CASE Resolved(a, "running")
    BY <1>5, <2>1, <1>s DEF ResolveProbeCommand, ResolveSteps
  <2>2. CASE ~Resolved(a, "running")
    <3>1. pc[a] = "probe_command" /\ command \in {"unborn", "gone"}
      BY <1>5, <2>2 DEF ResolveProbeCommand, Exists
    <3>2. WillNotRun
      BY <3>1 DEF KillsOK, OverFirst, PidsOnRecord, PipeIsTrue, WillNotRun
    <3>3. QED
      BY <1>5, <2>2, <3>1, <3>2
      DEF ResolveProbeCommand, KillsOK, RunnerOrder, FilesNeedDir, PipeIsTrue,
          PidsOnRecord, Heard, ClientsComeLate, StartReturned, OverFirst,
          KillsInOrder, KilledMeansDead, Silent, WillNotRun, RemovalBegun,
          StartSteps, Actors, Alive, NotAlive
  <2>3. QED
    BY <2>1, <2>2
<1>6. CASE ResolveProbeRunner(a)
  <2>1. CASE Resolved(a, "running")
    BY <1>6, <2>1, <1>s DEF ResolveProbeRunner, ResolveSteps
  <2>2. CASE ~Resolved(a, "running")
    BY <1>6, <2>2
    DEF ResolveProbeRunner, KillsOK, RunnerOrder, FilesNeedDir, PipeIsTrue,
        PidsOnRecord, Heard, ClientsComeLate, StartReturned, OverFirst,
        KillsInOrder, KilledMeansDead, Silent, WillNotRun, RemovalBegun,
        StartSteps, Actors, Alive, NotAlive
  <2>3. QED
    BY <2>1, <2>2
<1>7. CASE ResolveHeal(a)
  BY <1>7
  DEF ResolveHeal, WriteStatus, KillsOK, RunnerOrder, FilesNeedDir, PipeIsTrue,
      PidsOnRecord, Heard, ClientsComeLate, StartReturned, OverFirst,
      KillsInOrder, KilledMeansDead, Silent, WillNotRun, RemovalBegun,
      StartSteps, Actors, Alive, NotAlive, Recorded
<1>8. CASE ResolveHealEnded(a)
  <2>1. Resolved(a, "unknown") /\ pc[a] = "heal_ended" /\ WillNotRun
    BY <1>8 DEF ResolveHealEnded, KillsOK, OverFirst
  <2>2. QED
    BY <1>8, <2>1, ResolvedKills DEF ResolveHealEnded, WriteFile, ResolveSteps
<1>9. CASE PollAgain(a)
  BY <1>9
  DEF PollAgain, Finish, Unseen, Terminal, KillsOK, RunnerOrder, FilesNeedDir,
      PipeIsTrue, PidsOnRecord, Heard, ClientsComeLate, StartReturned, OverFirst,
      KillsInOrder, KilledMeansDead, Silent, WillNotRun, RemovalBegun,
      StartSteps, Actors, Alive, NotAlive
<1>10. QED
  BY <1>1, <1>2, <1>3, <1>4, <1>5, <1>6, <1>7, <1>8, <1>9 DEF Resolve

\* Removal keeps the invariant: it kills the runner before it takes its pid.
LEMMA RemoveKills ==
    ASSUME TypeOK, KillsOK, NEW a \in Actors, Remove(a)
    PROVE  KillsOK'
<1> USE DEF TypeOK, SysTypeOK, ActorTypeOK, RunnerSteps, Goto, Die,
            KillsOK, RunnerOrder, FilesNeedDir, PipeIsTrue, PidsOnRecord, Heard,
            ClientsComeLate, StartReturned, OverFirst, KillsInOrder,
            KilledMeansDead, Silent, WillNotRun, RemovalBegun, StartSteps,
            Actors, Alive, NotAlive
<1>1. CASE RemoveRunner(a)
  <2>1. "runner_pid" \in files \/ Silent
    BY <1>1, LookersCome, NoPidMeansOver DEF RemoveRunner
  <2>2. QED
    BY <1>1, <2>1 DEF RemoveRunner
<1>2. CASE RemoveHolder(a)
  BY <1>2 DEF RemoveHolder
<1>3. CASE RemoveFiles(a)
  BY <1>3 DEF RemoveFiles, Terminal, Recorded
<1>4. CASE RemoveDir(a)
  BY <1>4 DEF RemoveDir
<1>5. QED
  BY <1>1, <1>2, <1>3, <1>4 DEF Remove

\* So do requests, which come when start has answered.
LEMMA RequestKills ==
    ASSUME ~EarlyIds, TypeOK, KillsOK, NEW c \in Clients, Request(c)
    PROVE  KillsOK'
<1>1. /\ UNCHANGED sysVars /\ UNCHANGED <<seen, reply>> /\ StartReturned
      /\ pc[c] = "idle" /\ reply[c] = "none" /\ c # Starter
      /\ \E l \in {"kill_dir", "read_status"} : pc' = [pc EXCEPT ![c] = l]
      /\ \E o \in Ops : op' = [op EXCEPT ![c] = o]
  BY ConstantsAssumption DEF Request, Goto, KillsOK, KillsInOrder, Actors
<1>2. QED
  BY <1>1
  DEF TypeOK, ActorTypeOK, KillsOK, RunnerOrder, FilesNeedDir, PipeIsTrue,
      PidsOnRecord, Heard, ClientsComeLate, StartReturned, OverFirst, KillsInOrder,
      KilledMeansDead, Silent, WillNotRun, RemovalBegun, StartSteps, Actors

\* kill keeps the invariant: it signals the runner before it looks at the
\* command, and goes on when neither is left that could write.
LEMMA KillKills ==
    ASSUME TypeOK, KillsOK, NEW a \in Actors, Kill(a)
    PROVE  KillsOK'
<1> USE DEF TypeOK, ActorTypeOK, Sights, Goto, Finish, Unseen, KillsOK,
            RunnerOrder, FilesNeedDir, PipeIsTrue, PidsOnRecord, Heard,
            ClientsComeLate, StartReturned, OverFirst, KillsInOrder,
            KilledMeansDead, Silent, WillNotRun, RemovalBegun, StartSteps,
            Actors, Alive, NotAlive
<1>1. CASE KillDir(a)
  BY <1>1 DEF KillDir, Terminal
<1>2. CASE KillStatus(a)
  BY <1>2 DEF KillStatus, Terminal
<1>3. CASE KillReadRunner(a)
  <2> DEFINE b == "runner_pid" \in files
  <2>1. b \/ Silent
    BY <1>3, LookersCome, NoPidMeansOver DEF KillReadRunner
  <2>2. /\ seen' = [seen EXCEPT ![a].runner = b] /\ b \in BOOLEAN
        /\ pc[a] = "kill_runner_pid" /\ pc' = [pc EXCEPT ![a] = "kill_pid"]
        /\ UNCHANGED <<sysVars, op, reply>>
    BY <1>3 DEF KillReadRunner
  <2>3. QED
    <3> HIDE DEF b
    <3>1. QED
      BY <2>1, <2>2
<1>4. CASE KillReadPid(a)
  <2> DEFINE b == "pid" \in files
  <2>1. b \/ Silent
    BY <1>4, LookersCome, NoPidMeansOver DEF KillReadPid
  <2>2. /\ seen' = [seen EXCEPT ![a].pid = b] /\ b \in BOOLEAN
        /\ pc[a] = "kill_pid" /\ pc' = [pc EXCEPT ![a] = "kill_term"]
        /\ UNCHANGED <<sysVars, op, reply>> /\ (b => sync = "pid")
    BY <1>4 DEF KillReadPid
  <2>3. QED
    <3> HIDE DEF b
    <3>1. QED
      BY <2>1, <2>2
<1>5. CASE KillTerm(a)
  BY <1>5 DEF KillTerm, TermCommand, KillCommand, Die, Exists, SysTypeOK
<1>6. CASE KillCheck(a)
  BY <1>6 DEF KillCheck, Exists
<1>7. CASE KillKill(a)
  BY <1>7 DEF KillKill, KillCommand, Die
<1>8. CASE KillRead(a)
  BY <1>8 DEF KillRead, Terminal, Recorded
<1>9. CASE KillWrite(a)
  BY <1>9 DEF KillWrite, WriteStatus, Recorded
<1>10. CASE KillEnded(a)
  BY <1>10 DEF KillEnded, WriteFile, Terminal
<1>11. QED
  BY <1>1, <1>2, <1>3, <1>4, <1>5, <1>6, <1>7, <1>8, <1>9, <1>10 DEF Kill

\* Initially there is nothing to kill.
LEMMA InitKills == Init => KillsOK
<1> SUFFICES ASSUME Init PROVE KillsOK
  OBVIOUS
<1>1. RunnerOrder /\ FilesNeedDir /\ PipeIsTrue /\ ClientsComeLate
  BY ConstantsAssumption
  DEF Init, RunnerOrder, FilesNeedDir, PipeIsTrue, Heard, StartSteps,
      ClientsComeLate, Actors
<1>2. PidsOnRecord /\ OverFirst
  BY DEF Init, PidsOnRecord, OverFirst, Terminal, Unseen, Heard, StartSteps, Actors
<1>3. KillsInOrder /\ KilledMeansDead
  BY DEF Init, KillsInOrder, KilledMeansDead
<1>4. QED
  BY <1>1, <1>2, <1>3 DEF KillsOK

\* KillsOK is inductive where the runner is killed by rxd alone, and nobody
\* has the id before start has answered.
LEMMA NextKills ==
    ASSUME ~EarlyIds, ~RunnerMayCrash
    PROVE  TypeOK /\ KillsOK /\ [Next]_vars => KillsOK'
<1> SUFFICES ASSUME TypeOK, KillsOK, [Next]_vars PROVE KillsOK'
  OBVIOUS
<1>1. CASE Start
  BY <1>1, StarterKills
<1>2. CASE Runner \/ Command \/ CommandEnds \/ Kernel
  BY <1>2, SystemKills
<1>3. CASE \E c \in Clients : Request(c)
  BY <1>3, RequestKills
<1>4. CASE \E a \in Actors : Actor(a)
  BY <1>4, ResolveKills, RemoveKills, KillKills DEF Actor
<1>5. CASE UNCHANGED vars
  BY <1>5
  DEF KillsOK, RunnerOrder, FilesNeedDir, PipeIsTrue, PidsOnRecord, Heard,
      ClientsComeLate, StartReturned, OverFirst, KillsInOrder, KilledMeansDead,
      Silent, WillNotRun, RemovalBegun
<1>6. QED
  BY <1>1, <1>2, <1>3, <1>4, <1>5 DEF Next, Finished, RunnerCrash

\* So it always holds.
LEMMA AlwaysKillsOK ==
    ASSUME ~EarlyIds, ~RunnerMayCrash PROVE Spec => []KillsOK
<1>1. TypeOK /\ KillsOK /\ [Next]_vars => KillsOK'
  BY NextKills
<1>2. QED
  BY <1>1, InitKills, TypeCorrect, PTL DEF Spec

\* KilledMeansDead: whoever was answered Killed by an id that start had
\* answered finds the command dead, however many kill, look and remove at once,
\* if nothing but rxd kills the runner.
THEOREM KilledIsDead ==
    ASSUME ~EarlyIds, ~RunnerMayCrash PROVE Spec => []KilledMeansDead
<1>1. KillsOK => KilledMeansDead
  BY DEF KillsOK
<1>2. QED
  BY <1>1, AlwaysKillsOK, PTL

\* KillKeepsTheTruth: exited(killed) never replaces an exit that was recorded
\* between the two looks of kill at the status.
THEOREM KillsKeepTruth ==
    ASSUME ~EarlyIds, ~RunnerMayCrash PROVE Spec => KillKeepsTheTruth
<1>1. TypeOK /\ KillsOK /\ [Next]_vars
        => [(status \in Recorded) => status' # "killed"]_vars
  <2> SUFFICES ASSUME TypeOK, KillsOK, [Next]_vars, status \in Recorded
               PROVE  status' # "killed"
    OBVIOUS
  <2>0. status # "killed"
    BY DEF Recorded
  <2>1. CASE Start
    BY <2>0, <2>1
    DEF Start, StartMkdir, StartWriteRunning, StartFork, StartReadSync,
        StartWritePid, StartReadReady, RunCloseStatus, RunCloseHolder, WriteStatus
  <2>2. CASE Runner
    BY <2>0, <2>2
    DEF Runner, RunnerSetup, RunnerForkHolder, RunnerForkCommand,
        RunnerFailStatus, RunnerFailSync, RunnerFailHolder, RunnerRecordSelf,
        RunnerRecordHolder, RunnerSignalStarter, RunnerReap, RunnerWriteStatus,
        RunnerWriteEnded, RunnerKillHolder, WriteStatus, StatusLine, TypeOK,
        SysTypeOK, Fates
  <2>3. CASE Command \/ CommandEnds \/ Kernel
    BY <2>0, <2>3
    DEF Command, CommandOpenStdin, CommandSignalReady, CommandChdir, CommandExec,
        CommandRecordExecError, CommandFailStatus, CommandExit127, CommandEnds,
        Kernel, ReapRunner, ReapCommand, ReapHolder, WriteStatus
  <2>4. CASE \E c \in Clients : Request(c)
    BY <2>0, <2>4 DEF Request
  <2>5. ASSUME NEW a \in Actors, Resolve(a) \/ Remove(a) PROVE status' # "killed"
    BY <2>0, <2>5
    DEF Resolve, ResolveReadStatus, ResolveReadExecError, ResolveReadPid,
        ResolveReadRunner, ResolveProbeCommand, ResolveProbeRunner, ResolveHeal,
        ResolveHealEnded, PollAgain, WriteStatus, Remove, RemoveRunner,
        RemoveHolder, RemoveFiles, RemoveDir
  <2>6. ASSUME NEW a \in Actors, Kill(a) PROVE status' # "killed"
    <3>1. pc[a] # "kill_write"
      BY DEF KillsOK, KillsInOrder
    <3>2. QED
      BY <2>0, <2>6, <3>1
      DEF Kill, KillDir, KillStatus, KillReadRunner, KillReadPid, KillTerm,
          KillCheck, KillKill, KillRead, KillWrite, KillEnded
  <2>7. CASE UNCHANGED vars
    BY <2>0, <2>7
  <2>8. QED
    BY <2>1, <2>2, <2>3, <2>4, <2>5, <2>6, <2>7
    DEF Next, Finished, Actor, RunnerCrash
<1>2. QED
  BY <1>1, AlwaysKillsOK, TypeCorrect, PTL DEF Spec, KillKeepsTheTruth

=============================================================================
