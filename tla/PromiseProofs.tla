---------------------------- MODULE PromiseProofs ----------------------------
(***************************************************************************)
(* ProcessLifecycle implements ManagedProcess for any set of clients, any  *)
(* failing system calls and a runner that may die, where nobody kills; and *)
(* what run answers there.                                                 *)
(***************************************************************************)
EXTENDS ProcessLifecycleProofs

USE DEF fileVars, procVars, pipeVars, sysVars, heldVars, actorVars, vars,
        Step, Continue, RunnerStep, CommandStep, Forget, StatusResolved,
        WaitResolved, PollResolved, CleanResolved

-----------------------------------------------------------------------------
(* The inductive invariant *)

\* Nothing is written and nothing has been read before the runner is forked.
NothingYet(a) ==
    /\ seen[a].status = "none" /\ ~seen[a].pid /\ ~seen[a].runner
    /\ pc[a] \notin {"read_exec_error", "probe_command", "probe_runner",
                     "heal", "heal_ended", "write_pid"} \cup RemoveSteps

Newborn ==
    runner = "unborn" => /\ status \in {"none", "running"} /\ files = {}
                         /\ sync = "empty" /\ \A a \in Actors : NothingYet(a)

\* Whoever knows of the command's pid finds the runner's.
RunnerOnRecord ==
    /\ runner \in {"record_holder", "sync"} => "runner_pid" \in files
    /\ sync = "pid" => "runner_pid" \in files
    /\ pc[Starter] = "write_pid" => "runner_pid" \in files
    /\ "pid" \in files => "runner_pid" \in files
    /\ \A a \in Actors : seen[a].pid => "runner_pid" \in files

\* Healing comes after the runner's death.
HealedLate ==
    /\ status = "unknown" => RunnerDead
    /\ \A a \in Actors :
         /\ seen[a].status = "unknown" => RunnerDead
         /\ pc[a] \in {"heal", "heal_ended"} => RunnerDead
         /\ pc[a] \in {"probe_command", "probe_runner"} => seen[a].runner

\* The command is over, or there is no runner to tell whether it is.
Settled == WillNotRun \/ RunnerDead

\* So it is where a final status is written, has been read, or led to removal.
RemovedLate ==
    /\ status \in Terminal => Settled
    /\ \A a \in Actors :
         seen[a].status \in Terminal \/ pc[a] \in RemoveSteps => Settled

\* What holds of a process that nobody has begun to remove, and what always
\* does.
Keeping ==
    /\ Newborn
    /\ ~RemovalBegun => RunnerOnRecord /\ HealedLate /\ RemovedLate
    /\ \A a \in Actors :
         pc[a] = "read_exec_error" => seen[a].status \in Terminal
    /\ reply[Starter] = "error" => pc[Starter] = "done" /\ runner = "unborn"
    /\ runner = "fail_status" => fate = "none"

\* The record is kept until a removal begins, as ManagedProcess is told.
Kept == runner = "unborn" \/ ~RemovalBegun

-----------------------------------------------------------------------------
(* The processes *)

\* The processes only go forward: an end is decided once, the command and the
\* runner stay dead, and the FIFO is neither made nor removed.
LEMMA SystemMoves ==
    ASSUME TypeOK, Truth, Keeping,
           Runner \/ Command \/ CommandEnds \/ Kernel \/ RunnerCrash
    PROVE  /\ UNCHANGED actorVars
           /\ ("stdin_pipe" \in files') = ("stdin_pipe" \in files)
           /\ (runner' = "unborn") = (runner = "unborn")
           /\ RunnerDead => RunnerDead'
           /\ WillNotRun => WillNotRun'
           /\ fate' = fate \/ (fate = "none" /\ fate' \in Fates /\ RunnerDead' = RunnerDead)
<1> USE DEF TypeOK, SysTypeOK, RunnerSteps, CommandSteps, NotAlive, Alive, Fates,
            Statuses, Terminal, Recorded, RemovalBegun, WriteFile, WriteStatus,
            StatusLine, Truth, RunnerOrder, FateOfCommand, FilesNeedDir,
            Keeping, RunnerDead, WillNotRun, Die
<1>1. CASE Runner
  <2>1. CASE RunnerSetup
    BY <2>1 DEF RunnerSetup
  <2>2. CASE RunnerForkHolder
    BY <2>2 DEF RunnerForkHolder
  <2>3. CASE RunnerForkCommand
    BY <2>3 DEF RunnerForkCommand
  <2>4. CASE RunnerFailStatus
    BY <2>4 DEF RunnerFailStatus
  <2>5. CASE RunnerFailSync
    BY <2>5 DEF RunnerFailSync
  <2>6. CASE RunnerFailHolder
    BY <2>6 DEF RunnerFailHolder
  <2>7. CASE RunnerRecordSelf
    BY <2>7 DEF RunnerRecordSelf
  <2>8. CASE RunnerRecordHolder
    BY <2>8 DEF RunnerRecordHolder
  <2>9. CASE RunnerSignalStarter
    BY <2>9 DEF RunnerSignalStarter
  <2>10. CASE RunnerReap
    BY <2>10 DEF RunnerReap
  <2>11. CASE RunnerWriteStatus
    BY <2>11 DEF RunnerWriteStatus
  <2>12. CASE RunnerWriteEnded
    BY <2>12 DEF RunnerWriteEnded
  <2>13. CASE RunnerKillHolder
    BY <2>13 DEF RunnerKillHolder
  <2>14. QED
    BY <1>1, <2>1, <2>2, <2>3, <2>4, <2>5, <2>6, <2>7, <2>8, <2>9, <2>10, <2>11, <2>12, <2>13 DEF Runner
<1>2. CASE Command
  <2>1. CASE CommandOpenStdin
    BY <2>1 DEF CommandOpenStdin
  <2>2. CASE CommandSignalReady
    BY <2>2 DEF CommandSignalReady
  <2>3. CASE CommandChdir
    BY <2>3 DEF CommandChdir
  <2>4. CASE CommandExec
    BY <2>4 DEF CommandExec
  <2>5. CASE CommandRecordExecError
    BY <2>5 DEF CommandRecordExecError
  <2>6. CASE CommandFailStatus
    BY <2>6 DEF CommandFailStatus
  <2>7. CASE CommandExit127
    BY <2>7 DEF CommandExit127
  <2>8. QED
    BY <1>2, <2>1, <2>2, <2>3, <2>4, <2>5, <2>6, <2>7 DEF Command
<1>3. CASE CommandEnds
  BY <1>3 DEF CommandEnds
<1>4. CASE Kernel
  <2>1. CASE ReapRunner
    BY <2>1 DEF ReapRunner
  <2>2. CASE ReapCommand
    BY <2>2 DEF ReapCommand
  <2>3. CASE ReapHolder
    BY <2>3 DEF ReapHolder
  <2>4. QED
    BY <1>4, <2>1, <2>2, <2>3 DEF Kernel
<1>5. CASE RunnerCrash
  BY <1>5 DEF RunnerCrash
<1>6. QED
  BY <1>1, <1>2, <1>3, <1>4, <1>5

\* The processes keep the invariant.
LEMMA SystemKeeping ==
    ASSUME TypeOK, Truth, Keeping,
           Runner \/ Command \/ CommandEnds \/ Kernel \/ RunnerCrash
    PROVE  Keeping'
<1> USE DEF TypeOK, SysTypeOK, RunnerSteps, CommandSteps, NotAlive, Alive, Fates,
            Statuses, Terminal, Recorded, RemovalBegun, WriteFile, WriteStatus,
            StatusLine, Truth, RunnerOrder, FateOfCommand, FilesNeedDir,
            Keeping, Newborn, NothingYet, RunnerOnRecord, HealedLate,
            Settled, RemovedLate, RunnerDead, WillNotRun, Die
<1>1. CASE Runner
  <2>1. CASE RunnerSetup
    BY <2>1 DEF RunnerSetup
  <2>2. CASE RunnerForkHolder
    BY <2>2 DEF RunnerForkHolder
  <2>3. CASE RunnerForkCommand
    BY <2>3 DEF RunnerForkCommand
  <2>4. CASE RunnerFailStatus
    BY <2>4 DEF RunnerFailStatus
  <2>5. CASE RunnerFailSync
    BY <2>5 DEF RunnerFailSync
  <2>6. CASE RunnerFailHolder
    BY <2>6 DEF RunnerFailHolder
  <2>7. CASE RunnerRecordSelf
    BY <2>7 DEF RunnerRecordSelf
  <2>8. CASE RunnerRecordHolder
    BY <2>8 DEF RunnerRecordHolder
  <2>9. CASE RunnerSignalStarter
    BY <2>9 DEF RunnerSignalStarter
  <2>10. CASE RunnerReap
    BY <2>10 DEF RunnerReap
  <2>11. CASE RunnerWriteStatus
    BY <2>11 DEF RunnerWriteStatus
  <2>12. CASE RunnerWriteEnded
    BY <2>12 DEF RunnerWriteEnded
  <2>13. CASE RunnerKillHolder
    BY <2>13 DEF RunnerKillHolder
  <2>14. QED
    BY <1>1, <2>1, <2>2, <2>3, <2>4, <2>5, <2>6, <2>7, <2>8, <2>9, <2>10, <2>11, <2>12, <2>13 DEF Runner
<1>2. CASE Command
  <2>1. CASE CommandOpenStdin
    BY <2>1 DEF CommandOpenStdin
  <2>2. CASE CommandSignalReady
    BY <2>2 DEF CommandSignalReady
  <2>3. CASE CommandChdir
    BY <2>3 DEF CommandChdir
  <2>4. CASE CommandExec
    BY <2>4 DEF CommandExec
  <2>5. CASE CommandRecordExecError
    BY <2>5 DEF CommandRecordExecError
  <2>6. CASE CommandFailStatus
    BY <2>6 DEF CommandFailStatus
  <2>7. CASE CommandExit127
    BY <2>7 DEF CommandExit127
  <2>8. QED
    BY <1>2, <2>1, <2>2, <2>3, <2>4, <2>5, <2>6, <2>7 DEF Command
<1>3. CASE CommandEnds
  BY <1>3 DEF CommandEnds
<1>4. CASE Kernel
  <2>1. CASE ReapRunner
    BY <2>1 DEF ReapRunner
  <2>2. CASE ReapCommand
    BY <2>2 DEF ReapCommand
  <2>3. CASE ReapHolder
    BY <2>3 DEF ReapHolder
  <2>4. QED
    BY <1>4, <2>1, <2>2, <2>3 DEF Kernel
<1>5. CASE RunnerCrash
  BY <1>5 DEF RunnerCrash
<1>6. QED
  BY <1>1, <1>2, <1>3, <1>4, <1>5

-----------------------------------------------------------------------------
(* The starter *)

\* start and run decide nothing: all they tell is that start failed, when there
\* will be no command, or that it has started.
LEMMA StarterMoves ==
    ASSUME TypeOK, Truth, Keeping, Start
    PROVE  /\ fate' = fate /\ RunnerDead' = RunnerDead /\ Kept' = Kept
           /\ WillNotRun => WillNotRun'
           /\ reply' = reply \/ \E v \in {"error", "started"} :
                                reply' = [reply EXCEPT ![Starter] = v]
<1> USE DEF TypeOK, SysTypeOK, ActorTypeOK, RunnerSteps, CommandSteps, NotAlive,
            Alive, Statuses, Terminal, RemovalBegun, WriteFile, WriteStatus,
            Truth, RunnerOrder, FilesNeedDir, Goto, Finish, Actors, Unseen, Die,
            RemoveSteps, Keeping, Newborn, NothingYet, RunnerDead,
            WillNotRun, Kept
<1>1. CASE StartMkdir
  BY <1>1 DEF StartMkdir
<1>2. CASE StartWriteRunning
  BY <1>2 DEF StartWriteRunning
<1>3. CASE StartFork
  BY <1>3 DEF StartFork
<1>4. CASE StartReadSync
  BY <1>4 DEF StartReadSync
<1>5. CASE StartWritePid
  BY <1>5 DEF StartWritePid
<1>6. CASE StartReadReady
  BY <1>6 DEF StartReadReady
<1>7. CASE RunCloseStatus
  BY <1>7 DEF RunCloseStatus
<1>8. CASE RunCloseHolder
  BY <1>8 DEF RunCloseHolder
<1>9. QED
  BY <1>1, <1>2, <1>3, <1>4, <1>5, <1>6, <1>7, <1>8 DEF Start

\* start and run keep the invariant.
LEMMA StarterKeeping ==
    ASSUME TypeOK, Truth, Keeping, Start
    PROVE  Keeping'
<1> USE DEF TypeOK, SysTypeOK, ActorTypeOK, RunnerSteps, CommandSteps, NotAlive,
            Alive, Statuses, Terminal, RemovalBegun, WriteFile, WriteStatus,
            Truth, RunnerOrder, FilesNeedDir, Goto, Finish, Actors, Unseen, Die,
            RemoveSteps, Keeping, Newborn, NothingYet, RunnerOnRecord,
            HealedLate, Settled, RemovedLate, RunnerDead, WillNotRun
<1>1. CASE StartMkdir
  BY <1>1 DEF StartMkdir
<1>2. CASE StartWriteRunning
  BY <1>2 DEF StartWriteRunning
<1>3. CASE StartFork
  BY <1>3 DEF StartFork
<1>4. CASE StartReadSync
  BY <1>4 DEF StartReadSync
<1>5. CASE StartWritePid
  BY <1>5 DEF StartWritePid
<1>6. CASE StartReadReady
  BY <1>6 DEF StartReadReady
<1>7. CASE RunCloseStatus
  BY <1>7 DEF RunCloseStatus
<1>8. CASE RunCloseHolder
  BY <1>8 DEF RunCloseHolder
<1>9. QED
  BY <1>1, <1>2, <1>3, <1>4, <1>5, <1>6, <1>7, <1>8 DEF Start

-----------------------------------------------------------------------------
(* resolve_state and its callers *)

\* What Resolved does to the actors.
LEMMA ResolvedForm ==
    ASSUME ActorTypeOK, NEW a \in Actors, NEW v, Resolved(a, v)
    PROVE  /\ seen' = [seen EXCEPT ![a] = Unseen]
           /\ \/ \E l \in {"done", "read_status", "sleep"} : Goto(a, l)
              \/ Goto(a, "remove_runner") /\ v \notin {"none", "running"}
           /\ \/ reply' = reply
              \/ \E w \in {v, "not_found", "kept", "cleaned"} :
                    reply' = [reply EXCEPT ![a] = w]
  BY DEF Resolved, Finish, Goto

\* Whoever has resolved the state keeps the invariant.
LEMMA ResolvedKeeping ==
    ASSUME TypeOK, Keeping, NEW a \in Actors, NEW v, Resolved(a, v),
           pc[a] # "done", v # "error",
           UNCHANGED <<status, runner, command, fate, sync>>,
           files' = files \/ (files' = files \cup {"ended"} /\ runner # "unborn"),
           v \notin {"none", "running"}
             => runner # "unborn" /\ (RemovalBegun \/ Settled)
    PROVE  Keeping'
<1> USE ResolvedForm DEF TypeOK, ActorTypeOK, Sights, Goto, Unseen
<1>1. Newborn'
  BY DEF Keeping, Newborn, NothingYet, RemoveSteps, Statuses
<1>2. RemovalBegun' = RemovalBegun /\ RunnerDead' = RunnerDead
  BY DEF RemovalBegun, RunnerDead
<1>3. reply'[Starter] = "error" => reply[Starter] = "error" /\ Starter # a
  BY DEF Keeping, Actors
<1>4. WillNotRun => WillNotRun'
  BY DEF WillNotRun, Keeping, Actors
<1>5. ~RemovalBegun => RunnerOnRecord'
  BY DEF Keeping, RunnerOnRecord, Actors
<1>6. ~RemovalBegun => HealedLate'
  BY <1>2 DEF Keeping, HealedLate
<1>7. ~RemovalBegun => RemovedLate'
  <2>1. Settled => Settled'
    BY <1>2, <1>4 DEF Settled
  <2>2. ASSUME ~RemovalBegun, NEW b \in Actors,
               seen'[b].status \in Terminal \/ pc'[b] \in RemoveSteps
        PROVE  Settled'
    <3>1. CASE b = a
      BY <2>1, <2>2, <3>1 DEF RemoveSteps, Terminal
    <3>2. CASE b # a
      BY <2>1, <2>2, <3>2 DEF Keeping, RemovedLate
    <3>3. QED
      BY <3>1, <3>2
  <2>3. QED
    BY <2>1, <2>2 DEF Keeping, RemovedLate
<1>8. \A b \in Actors : pc'[b] = "read_exec_error" => seen'[b].status \in Terminal
  BY DEF Keeping
<1>9. reply'[Starter] = "error" => pc'[Starter] = "done" /\ runner' = "unborn"
  BY <1>3 DEF Keeping, Actors
<1>10. runner' = "fail_status" => fate' = "none"
  BY DEF Keeping
<1>11. QED
  BY <1>1, <1>2, <1>5, <1>6, <1>7, <1>8, <1>9, <1>10 DEF Keeping

\* resolve_state keeps the invariant: it heals when it has seen a runner pid
\* and found neither process, and reads a final status only when it is due.
LEMMA ResolveKeeping ==
    ASSUME TypeOK, Truth, Keeping, NEW a \in Actors, Resolve(a)
    PROVE  Keeping'
<1> USE DEF TypeOK, ActorTypeOK, Sights, Goto, sysVars
<1>s. ASSUME NEW v \in {"none", "running"}, Resolved(a, v), UNCHANGED sysVars,
             pc[a] # "done"
      PROVE  Keeping'
  BY <1>s, ResolvedKeeping
<1>1. CASE ResolveReadStatus(a)
  <2>1. CASE status = "none"
    BY <1>1, <2>1, <1>s DEF ResolveReadStatus
  <2>r. CASE status = "running"
    BY <1>1, <2>r
    DEF ResolveReadStatus, Keeping, Newborn, NothingYet, RunnerOnRecord,
        HealedLate, Settled, RemovedLate, RunnerDead, WillNotRun, RemovalBegun,
        RemoveSteps, Actors
  <2>2. CASE status \notin {"none", "running"}
    <3>1. /\ seen' = [seen EXCEPT ![a].status = status]
          /\ pc' = [pc EXCEPT ![a] = "read_exec_error"]
          /\ pc[a] = "read_status" /\ status \in Terminal
          /\ UNCHANGED <<sysVars, reply>>
      BY <1>1, <2>2 DEF ResolveReadStatus, SysTypeOK, Statuses
    <3>2. QED
      BY <2>2, <3>1
      DEF Keeping, Newborn, NothingYet, RunnerOnRecord, HealedLate, Settled,
          RemovedLate, RunnerDead, WillNotRun, RemovalBegun, RemoveSteps, Actors
  <2>3. QED
    BY <2>1, <2>r, <2>2
<1>2. CASE ResolveReadExecError(a)
  <2>1. PICK v : /\ v \in {"execfailed", seen[a].status} /\ Resolved(a, v)
    BY <1>2 DEF ResolveReadExecError
  <2>2. pc[a] = "read_exec_error" /\ seen[a].status \in Terminal /\ v # "error"
    BY <1>2, <2>1 DEF ResolveReadExecError, Keeping, Terminal
  <2>3. runner # "unborn" /\ (RemovalBegun \/ Settled)
    BY <2>2 DEF Keeping, Newborn, NothingYet, RemovedLate
  <2>4. QED
    BY <1>2, <2>1, <2>2, <2>3, ResolvedKeeping DEF ResolveReadExecError
<1>3. CASE ResolveReadPid(a)
  BY <1>3
  DEF ResolveReadPid, Keeping, Newborn, NothingYet, RunnerOnRecord, HealedLate,
      Settled, RemovedLate, RunnerDead, WillNotRun, RemovalBegun, RemoveSteps, Actors
<1>4. CASE ResolveReadRunner(a)
  <2>1. CASE Resolved(a, "running")
    BY <1>4, <2>1, <1>s DEF ResolveReadRunner
  <2>2. CASE ~Resolved(a, "running")
    <3>1. /\ seen' = [seen EXCEPT ![a].runner = "runner_pid" \in files]
          /\ pc' = [pc EXCEPT ![a] = IF seen[a].pid THEN "probe_command"
                                                   ELSE "probe_runner"]
          /\ seen[a].pid \/ "runner_pid" \in files
          /\ pc[a] = "read_runner" /\ UNCHANGED <<sysVars, reply>>
      BY <1>4, <2>2 DEF ResolveReadRunner
    <3>2. runner # "unborn"
      BY <3>1 DEF Keeping, Newborn, NothingYet
    <3>3. QED
      BY <3>1, <3>2
      DEF Keeping, Newborn, RunnerOnRecord, HealedLate, Settled, RemovedLate,
          RunnerDead, WillNotRun, RemovalBegun, RemoveSteps, Actors
  <2>3. QED
    BY <2>1, <2>2
<1>5. CASE ResolveProbeCommand(a)
  <2>1. CASE Resolved(a, "running")
    BY <1>5, <2>1, <1>s DEF ResolveProbeCommand
  <2>2. CASE ~Resolved(a, "running")
    BY <1>5, <2>2
    DEF ResolveProbeCommand, Keeping, Newborn, NothingYet, RunnerOnRecord,
        HealedLate, Settled, RemovedLate, RunnerDead, WillNotRun, RemovalBegun,
        RemoveSteps, Actors
  <2>3. QED
    BY <2>1, <2>2
<1>6. CASE ResolveProbeRunner(a)
  <2>1. CASE Resolved(a, "running")
    BY <1>6, <2>1, <1>s DEF ResolveProbeRunner
  <2>2. CASE ~Resolved(a, "running")
    BY <1>6, <2>2
    DEF ResolveProbeRunner, Exists, Keeping, Newborn, NothingYet, RunnerOnRecord,
        HealedLate, Settled, RemovedLate, RunnerDead, WillNotRun, RemovalBegun,
        RemoveSteps, Actors
  <2>3. QED
    BY <2>1, <2>2
<1>7. CASE ResolveHeal(a)
  BY <1>7
  DEF ResolveHeal, WriteStatus, Keeping, Newborn, NothingYet, RunnerOnRecord,
      HealedLate, Settled, RemovedLate, RunnerDead, WillNotRun, RemovalBegun,
      RemoveSteps, Actors
<1>8. CASE ResolveHealEnded(a)
  <2>1. Resolved(a, "unknown") /\ pc[a] = "heal_ended"
    BY <1>8 DEF ResolveHealEnded
  <2>2. runner # "unborn" /\ (RemovalBegun \/ Settled)
    BY <2>1 DEF Keeping, Newborn, NothingYet, HealedLate, Settled
  <2>3. QED
    BY <1>8, <2>1, <2>2, ResolvedKeeping DEF ResolveHealEnded, WriteFile
<1>9. CASE PollAgain(a)
  BY <1>9
  DEF PollAgain, Finish, Unseen, Keeping, Newborn, NothingYet, RunnerOnRecord,
      HealedLate, Settled, RemovedLate, RunnerDead, WillNotRun, RemovalBegun,
      RemoveSteps, Actors, Terminal
<1>10. QED
  BY <1>1, <1>2, <1>3, <1>4, <1>5, <1>6, <1>7, <1>8, <1>9 DEF Resolve

\* Removal keeps the invariant: the files go together.
LEMMA RemoveKeeping ==
    ASSUME TypeOK, Truth, Keeping, NEW a \in Actors, Remove(a)
    PROVE  Keeping'
<1> USE DEF TypeOK, SysTypeOK, ActorTypeOK, RunnerSteps, NotAlive, Alive, Goto,
            Die, Keeping, Newborn, NothingYet, RunnerOnRecord, HealedLate,
            Settled, RemovedLate, RunnerDead, WillNotRun, RemovalBegun,
            RemoveSteps, Actors
<1>1. CASE RemoveRunner(a)
  BY <1>1 DEF RemoveRunner
<1>2. CASE RemoveHolder(a)
  BY <1>2 DEF RemoveHolder
<1>3. CASE RemoveFiles(a)
  BY <1>3 DEF RemoveFiles
<1>4. CASE RemoveDir(a)
  BY <1>4 DEF RemoveDir
<1>5. QED
  BY <1>1, <1>2, <1>3, <1>4 DEF Remove

\* A request other than kill keeps the invariant.
LEMMA RequestKeeping ==
    ASSUME "kill" \notin Ops, TypeOK, Keeping, NEW c \in Clients, Request(c)
    PROVE  Keeping'
<1>1. /\ UNCHANGED sysVars /\ UNCHANGED <<seen, reply>>
      /\ pc[c] = "idle" /\ pc' = [pc EXCEPT ![c] = "read_status"]
  BY DEF Request, Goto
<1>2. QED
  BY <1>1
  DEF sysVars, TypeOK, ActorTypeOK, Keeping, Newborn, NothingYet,
      RunnerOnRecord, HealedLate, Settled, RemovedLate, RunnerDead, WillNotRun,
      RemovalBegun, RemoveSteps, Actors

\* Initially nothing has happened.
LEMMA InitKeeping == Init => Keeping
<1> SUFFICES ASSUME Init PROVE Keeping
  OBVIOUS
<1>1. Newborn
  BY DEF Init, Newborn, NothingYet, RemoveSteps, Unseen
<1>2. RemovalBegun
  BY DEF Init, RemovalBegun
<1>3. \A a \in Actors : pc[a] # "read_exec_error" /\ reply[a] # "error"
  BY DEF Init
<1>4. runner # "fail_status"
  BY DEF Init
<1>5. QED
  BY <1>1, <1>2, <1>3, <1>4 DEF Keeping, Actors

\* A client that kills is in one of the steps of kill.
LEMMA KillStep == ASSUME NEW a \in Actors, Kill(a) PROVE pc[a] \in KillSteps
  BY DEF Kill, KillSteps, KillDir, KillStatus, KillReadRunner, KillReadPid,
         KillTerm, KillCheck, KillKill, KillRead, KillWrite, KillEnded

\* Keeping is inductive where nobody kills.
LEMMA NextKeeping ==
    ASSUME "kill" \notin Ops PROVE TypeOK /\ Truth /\ Keeping /\ [Next]_vars => Keeping'
<1> SUFFICES ASSUME TypeOK, Truth, Keeping, [Next]_vars PROVE Keeping'
  OBVIOUS
<1>1. CASE Start
  BY <1>1, StarterKeeping
<1>2. CASE Runner \/ Command \/ CommandEnds \/ Kernel \/ RunnerCrash
  BY <1>2, SystemKeeping
<1>3. CASE \E c \in Clients : Request(c)
  BY <1>3, RequestKeeping
<1>4. CASE \E a \in Actors : Actor(a)
  BY <1>4, ResolveKeeping, RemoveKeeping, KillStep DEF Actor, Truth, NobodyKills
<1>5. CASE UNCHANGED vars
  BY <1>5
  DEF vars, Keeping, Newborn, NothingYet, RunnerOnRecord, HealedLate, Settled,
      RemovedLate, RunnerDead, WillNotRun, RemovalBegun
<1>6. QED
  BY <1>1, <1>2, <1>3, <1>4, <1>5 DEF Next, Finished

-----------------------------------------------------------------------------
(* The refinement *)

\* A step that decides or stops something, and tells nothing.
LEMMA QuietStep ==
    ASSUME reply' = reply, Kept' = Kept, WillNotRun => WillNotRun',
           RunnerDead => RunnerDead',
           fate' = fate \/ (fate = "none" /\ fate' \in Fates /\ RunnerDead' = RunnerDead)
    PROVE  [Promise!Next]_(Promise!vars)
<1>1. /\ WillNotRun \in BOOLEAN /\ WillNotRun' \in BOOLEAN
      /\ RunnerDead \in BOOLEAN /\ RunnerDead' \in BOOLEAN
  BY DEF WillNotRun, RunnerDead
<1>2. CASE fate' = fate
  BY <1>1, <1>2 DEF Promise!Next, Promise!Stop, Kept
<1>3. CASE fate' # fate
  BY <1>1, <1>3 DEF Promise!Next, Promise!Decide, Kept
<1>4. QED
  BY <1>2, <1>3

\* A step that tells something that may be told.
LEMMA TellStep ==
    ASSUME NEW a \in Actors, NEW v \in Replies, reply' = [reply EXCEPT ![a] = v],
           Kept' = Kept, fate' = fate, RunnerDead' = RunnerDead,
           WillNotRun => WillNotRun',
           Kept => (v \in Fates => v = fate) /\ (v = "unknown" => RunnerDead)
    PROVE  Promise!Next
<1>1. WillNotRun \in BOOLEAN /\ WillNotRun' \in BOOLEAN
  BY DEF WillNotRun
<1>2. Promise!Tellable(v)
  BY DEF Promise!Tellable, Kept
<1>3. QED
  BY <1>1, <1>2 DEF Promise!Next, Promise!Tell, Kept

\* What start and run do is told, or quiet.
LEMMA StarterRefines ==
    ASSUME TypeOK, Truth, Keeping, Start
    PROVE  [Promise!Next]_(Promise!vars)
<1>1. CASE reply' = reply
  BY <1>1, StarterMoves, QuietStep
<1>2. CASE \E v \in {"error", "started"} : reply' = [reply EXCEPT ![Starter] = v]
  <2>1. PICK v \in {"error", "started"} : reply' = [reply EXCEPT ![Starter] = v]
    BY <1>2
  <2>2. v \in Replies /\ v \notin Fates /\ v # "unknown" /\ Starter \in Actors
    BY DEF Replies, Fates, Actors
  <2>3. QED
    BY <2>1, <2>2, StarterMoves, TellStep
<1>3. QED
  BY <1>1, <1>2, StarterMoves

\* What the processes do is quiet.
LEMMA SystemRefines ==
    ASSUME TypeOK, Truth, Keeping,
           Runner \/ Command \/ CommandEnds \/ Kernel \/ RunnerCrash
    PROVE  [Promise!Next]_(Promise!vars)
<1>1. Kept' = Kept
  BY SystemMoves DEF Kept, RemovalBegun
<1>2. QED
  BY <1>1, SystemMoves, QuietStep

\* What resolve_state leads its caller to answer, and what stays.
LEMMA ResolveMoves ==
    ASSUME TypeOK, Truth, Keeping, NEW a \in Actors, Resolve(a)
    PROVE  /\ pc[a] # "done" /\ UNCHANGED <<runner, command, fate>>
           /\ ("stdin_pipe" \in files') = ("stdin_pipe" \in files)
           /\ reply' = reply \/ \E v \in Replies \ {"error"} :
                                /\ reply' = [reply EXCEPT ![a] = v]
                                /\ Kept /\ v = "unknown" => RunnerDead
<1> USE DEF TypeOK, ActorTypeOK, sysVars
<1>r. ASSUME NEW v \in (Statuses \cup Fates), Resolved(a, v),
             Kept /\ v = "unknown" => RunnerDead
      PROVE  reply' = reply \/ \E w \in Replies \ {"error"} :
                                /\ reply' = [reply EXCEPT ![a] = w]
                                /\ Kept /\ w = "unknown" => RunnerDead
  BY <1>r, ResolvedForm DEF Replies, Statuses, Terminal, Fates
<1>n. "none" \in Statuses /\ "running" \in Statuses /\ "unknown" \in Statuses
  BY DEF Statuses, Terminal
<1>1. CASE ResolveReadStatus(a)
  BY <1>1, <1>r, <1>n DEF ResolveReadStatus
<1>2. CASE ResolveReadExecError(a)
  <2>1. PICK v \in {"execfailed", seen[a].status} :
          /\ v = "execfailed" \/ "exec_error" \notin files
          /\ Resolved(a, v)
    BY <1>2 DEF ResolveReadExecError
  <2>2. Kept /\ v = "unknown" => RunnerDead
    BY <2>1 DEF Keeping, Newborn, NothingYet, HealedLate, Kept
  <2>3. v \in Statuses \cup Fates
    BY <2>1, SightType DEF Fates, Statuses
  <2>4. QED
    BY <1>2, <2>1, <2>2, <2>3, <1>r DEF ResolveReadExecError
<1>3. CASE ResolveReadPid(a)
  BY <1>3 DEF ResolveReadPid
<1>4. CASE ResolveReadRunner(a)
  BY <1>4, <1>r, <1>n DEF ResolveReadRunner
<1>5. CASE ResolveProbeCommand(a)
  BY <1>5, <1>r, <1>n DEF ResolveProbeCommand
<1>6. CASE ResolveProbeRunner(a)
  BY <1>6, <1>r, <1>n DEF ResolveProbeRunner
<1>7. CASE ResolveHeal(a)
  BY <1>7 DEF ResolveHeal
<1>8. CASE ResolveHealEnded(a)
  <2>1. pc[a] = "heal_ended" /\ Resolved(a, "unknown")
    BY <1>8 DEF ResolveHealEnded
  <2>2. Kept => RunnerDead
    BY <2>1 DEF Keeping, Newborn, NothingYet, HealedLate, Kept
  <2>3. QED
    BY <1>8, <2>1, <2>2, <1>r, <1>n DEF ResolveHealEnded, WriteFile
<1>9. CASE PollAgain(a)
  BY <1>9 DEF PollAgain, Finish, Replies
<1>10. QED
  BY <1>1, <1>2, <1>3, <1>4, <1>5, <1>6, <1>7, <1>8, <1>9 DEF Resolve

\* What an observer does is told, and true, or quiet.
LEMMA ResolveRefines ==
    ASSUME TypeOK, Truth, Keeping, NEW a \in Actors, Resolve(a)
    PROVE  [Promise!Next]_(Promise!vars)
<1>1. Kept' = Kept /\ RunnerDead' = RunnerDead /\ fate' = fate
  BY ResolveMoves DEF Kept, RemovalBegun, RunnerDead
<1>2. WillNotRun => WillNotRun'
  BY ResolveMoves DEF WillNotRun, Keeping, Actors, TypeOK, ActorTypeOK
<1>3. CASE reply' = reply
  BY <1>1, <1>2, <1>3, QuietStep
<1>4. CASE reply' # reply
  <2>1. PICK v \in Replies \ {"error"} :
          /\ reply' = [reply EXCEPT ![a] = v]
          /\ Kept /\ v = "unknown" => RunnerDead
    BY <1>4, ResolveMoves
  <2>f. reply \in [Actors -> Replies]
    BY DEF TypeOK, ActorTypeOK
  <2>2. reply'[a] = v /\ reply'[a] # reply[a]
    <3>1. reply'[a] = v
      BY <2>1, <2>f
    <3>2. ASSUME v = reply[a] PROVE FALSE
      BY <1>4, <2>1, <2>f, <3>2
    <3>3. QED
      BY <3>1, <3>2
  <2>3. Kept /\ v \in Fates => v = fate
    BY <2>2, TruthAnswers DEF Kept, Next, Actor
  <2>4. QED
    <3>1. Kept => (v \in Fates => v = fate) /\ (v = "unknown" => RunnerDead)
      BY <2>1, <2>3
    <3>2. QED
      BY <1>1, <1>2, <2>1, <3>1, TellStep
<1>5. QED
  BY <1>3, <1>4

\* The record of a process is removed when it may be.
LEMMA RemoveRefines ==
    ASSUME TypeOK, Truth, Keeping, NEW a \in Actors, Remove(a)
    PROVE  [Promise!Next]_(Promise!vars)
<1> USE DEF TypeOK, SysTypeOK, RunnerSteps, NotAlive, Die, Alive
<1>1. CASE RemoveRunner(a) \/ RemoveHolder(a) \/ RemoveDir(a)
  <2>1. /\ UNCHANGED <<command, fate, files, reply>>
        /\ runner' \in {runner, "zombie"} /\ (runner' = "unborn") = (runner = "unborn")
    BY <1>1 DEF RemoveRunner, RemoveHolder, RemoveDir
  <2>2. Kept' = Kept
    BY <2>1 DEF Kept, RemovalBegun
  <2>3. (WillNotRun => WillNotRun') /\ (RunnerDead => RunnerDead')
    BY <2>1 DEF WillNotRun, RunnerDead
  <2>4. QED
    BY <2>1, <2>2, <2>3, QuietStep
<1>2. CASE RemoveFiles(a)
  <2>1. /\ UNCHANGED <<runner, command, fate, reply>> /\ RemovalBegun'
        /\ pc[a] \in RemoveSteps
    BY <1>2 DEF RemoveFiles, RemovalBegun, RemoveSteps
  <2>2. runner # "unborn" /\ ~Kept'
    BY <2>1 DEF Keeping, Newborn, NothingYet, Kept
  <2>3. WillNotRun' = WillNotRun /\ RunnerDead' = RunnerDead
    BY <2>1 DEF WillNotRun, RunnerDead
  <2>4. CASE Kept
    <3>1. WillNotRun \/ RunnerDead
      BY <2>1, <2>2, <2>4 DEF Kept, Keeping, RemovedLate, Settled
    <3>2. Promise!Remove
      BY <2>1, <2>2, <2>3, <3>1 DEF Promise!Remove, Kept
    <3>3. QED
      BY <3>2 DEF Promise!Next
  <2>5. CASE ~Kept
    <3>1. Kept' = Kept
      BY <2>2, <2>5 DEF Kept
    <3>2. QED
      BY <2>1, <2>3, <3>1, QuietStep
  <2>6. QED
    BY <2>4, <2>5
<1>3. QED
  BY <1>1, <1>2 DEF Remove

\* Every step of the processes and of those who look at them is one that
\* ManagedProcess allows, or none.
LEMMA NextRefines ==
    ASSUME "kill" \notin Ops
    PROVE  TypeOK /\ Truth /\ Keeping /\ [Next]_vars => [Promise!Next]_(Promise!vars)
<1> SUFFICES ASSUME TypeOK, Truth, Keeping, [Next]_vars
             PROVE  [Promise!Next]_(Promise!vars)
  OBVIOUS
<1>1. CASE Start
  BY <1>1, StarterRefines
<1>2. CASE Runner \/ Command \/ CommandEnds \/ Kernel \/ RunnerCrash
  BY <1>2, SystemRefines
<1>3. CASE (\E c \in Clients : Request(c)) \/ UNCHANGED vars
  <2>1. UNCHANGED <<runner, command, fate, files, reply>>
    BY <1>3 DEF Request, vars
  <2>2. /\ Kept' = Kept /\ WillNotRun' = WillNotRun /\ RunnerDead' = RunnerDead
    BY <2>1 DEF Kept, RemovalBegun, WillNotRun, RunnerDead
  <2>3. QED
    BY <2>1, <2>2, QuietStep
<1>4. CASE \E a \in Actors : Actor(a)
  BY <1>4, ResolveRefines, RemoveRefines, KillStep DEF Actor, Truth, NobodyKills
<1>5. QED
  BY <1>1, <1>2, <1>3, <1>4 DEF Next, Finished

\* The initial states of the one are initial in the other.
LEMMA InitRefines == Init => Promise!Init
  BY DEF Init, Promise!Init, WillNotRun, RunnerDead, Actors

\* KeepsItsPromise: where nobody kills, the lock-free steps of start, runner,
\* command, resolve_state and remove_process_dir implement ManagedProcess, for
\* any number of observers, whatever system calls fail and whenever the runner
\* dies: nobody is told a wrong end, nobody exited(unknown) while a runner is
\* there to record it, and no record is removed before its time.
THEOREM PromiseKept == ASSUME "kill" \notin Ops PROVE Spec => KeepsItsPromise
<1>1. TypeOK /\ Truth /\ [Next]_vars => Truth'
  BY NextTruth
<1>2. TypeOK /\ Truth /\ Keeping /\ [Next]_vars => Keeping'
  BY NextKeeping
<1>3. TypeOK /\ Truth /\ Keeping /\ [Next]_vars => [Promise!Next]_(Promise!vars)
  BY NextRefines
<1>4. QED
  BY <1>1, <1>2, <1>3, InitTruth, InitKeeping, InitRefines, TypeCorrect, PTL
  DEF Spec, KeepsItsPromise, Promise!Spec

-----------------------------------------------------------------------------
(* What run answers *)

\* A dead runner keeps its pid until the starter, its parent, has answered, and
\* so nobody heals before.
HealedAfterwards ==
    /\ runner = "gone" => StartReturned
    /\ op[Starter] \in {"start", "run", "ephemeral"}
    /\ status # "killed" /\ \A a \in Actors : seen[a].status # "killed"
    /\ ~RemovalBegun /\ ~StartReturned =>
         /\ status # "unknown"
         /\ \A a \in Actors : /\ seen[a].status # "unknown"
                              /\ pc[a] \notin {"heal", "heal_ended"}

\* The processes keep the invariant: only a starter that is done lets its runner
\* be reaped.
LEMMA SystemHealed ==
    ASSUME TypeOK, Truth, Keeping, HealedAfterwards,
           Runner \/ Command \/ CommandEnds \/ Kernel \/ RunnerCrash
    PROVE  HealedAfterwards'
<1>1. UNCHANGED actorVars /\ RemovalBegun' = RemovalBegun
  BY SystemMoves DEF RemovalBegun
<1>2. runner' = "gone" => runner = "gone" \/ StartReturned
  BY DEF Runner, RunnerSetup, RunnerForkHolder, RunnerForkCommand,
         RunnerFailStatus, RunnerFailSync, RunnerFailHolder, RunnerRecordSelf,
         RunnerRecordHolder, RunnerSignalStarter, RunnerReap, RunnerWriteStatus,
         RunnerWriteEnded, RunnerKillHolder, Command, CommandOpenStdin,
         CommandSignalReady, CommandChdir, CommandExec, CommandRecordExecError,
         CommandFailStatus, CommandExit127, CommandEnds, Kernel, ReapRunner,
         ReapCommand, ReapHolder, RunnerCrash
<1>3. status' \in {status, "exited", "exited127", "signaled"}
  <2>1. CASE Runner
    BY <2>1
    DEF Runner, RunnerSetup, RunnerForkHolder, RunnerForkCommand,
        RunnerFailStatus, RunnerFailSync, RunnerFailHolder, RunnerRecordSelf,
        RunnerRecordHolder, RunnerSignalStarter, RunnerReap, RunnerWriteStatus,
        RunnerWriteEnded, RunnerKillHolder, WriteStatus, StatusLine, Truth,
        RunnerOrder, FateOfCommand, Fates
  <2>2. CASE Command \/ CommandEnds \/ Kernel \/ RunnerCrash
    BY <2>2
    DEF Command, CommandOpenStdin, CommandSignalReady, CommandChdir, CommandExec,
        CommandRecordExecError, CommandFailStatus, CommandExit127, CommandEnds,
        Kernel, ReapRunner, ReapCommand, ReapHolder, RunnerCrash, WriteStatus
  <2>3. QED
    BY <2>1, <2>2
<1>4. QED
  BY <1>1, <1>2, <1>3 DEF HealedAfterwards, StartReturned

\* start and run keep the invariant.
LEMMA StarterHealed ==
    ASSUME TypeOK, Truth, Keeping, HealedAfterwards, Start
    PROVE  HealedAfterwards'
<1> USE DEF TypeOK, SysTypeOK, ActorTypeOK, Actors, Goto, Finish, Unseen,
            HealedAfterwards, StartReturned, RemovalBegun, WriteStatus, WriteFile,
            Keeping, Newborn, NothingYet, Truth, RunnerOrder
<1>1. CASE StartMkdir
  BY <1>1 DEF StartMkdir
<1>2. CASE StartWriteRunning
  BY <1>2 DEF StartWriteRunning
<1>3. CASE StartFork
  BY <1>3 DEF StartFork
<1>4. CASE StartReadSync
  BY <1>4 DEF StartReadSync
<1>5. CASE StartWritePid
  BY <1>5 DEF StartWritePid
<1>6. CASE StartReadReady
  BY <1>6 DEF StartReadReady
<1>7. CASE RunCloseStatus
  BY <1>7 DEF RunCloseStatus
<1>8. CASE RunCloseHolder
  BY <1>8 DEF RunCloseHolder
<1>9. QED
  BY <1>1, <1>2, <1>3, <1>4, <1>5, <1>6, <1>7, <1>8 DEF Start

\* Looking and healing: before the starter has answered, whoever looks for the
\* runner that is on record finds it.
LEMMA ResolveHealed ==
    ASSUME TypeOK, Truth, Keeping, HealedAfterwards, NEW a \in Actors, Resolve(a)
    PROVE  HealedAfterwards'
<1> USE DEF TypeOK, ActorTypeOK, Sights, Goto, StartReturned
<1>0. /\ pc[a] # "done" /\ runner' = runner
      /\ RemovalBegun' = RemovalBegun
  BY ResolveMoves DEF RemovalBegun
<1>1. StartReturned => StartReturned'
  BY <1>0 DEF Resolve, ResolveReadStatus, ResolveReadExecError, ResolveReadPid,
       ResolveReadRunner, ResolveProbeCommand, ResolveProbeRunner, ResolveHeal,
       ResolveHealEnded, PollAgain, Resolved, Finish, Actors
<1>2. op'[Starter] = op[Starter]
  <2>1. op[Starter] # "wait"
    BY DEF HealedAfterwards
  <2>2. op' = op \/ (op[a] = "wait" /\ op' = [op EXCEPT ![a] = "poll"])
    BY DEF Resolve, ResolveReadStatus, ResolveReadExecError, ResolveReadPid,
         ResolveReadRunner, ResolveProbeCommand, ResolveProbeRunner, ResolveHeal,
         ResolveHealEnded, PollAgain, Resolved, Finish
  <2>3. QED
    BY <2>1, <2>2 DEF Actors
<1>3. \A b \in Actors : seen'[b].status \in {seen[b].status, status, "none"}
  BY DEF Resolve, ResolveReadStatus, ResolveReadExecError, ResolveReadPid,
       ResolveReadRunner, ResolveProbeCommand, ResolveProbeRunner, ResolveHeal,
       ResolveHealEnded, PollAgain, Resolved, Finish, Unseen
<1>4. CASE ~RemovalBegun /\ ~StartReturned
  <2>1. pc[a] \notin {"heal", "heal_ended"} /\ runner # "gone"
    BY <1>4 DEF HealedAfterwards
  <2>2. pc[a] = "probe_runner" => seen[a].runner /\ Exists(runner)
    BY <1>4, <2>1 DEF Keeping, Newborn, NothingYet, HealedLate, Exists
  <2>3. status' = status
    BY <2>1 DEF Resolve, ResolveReadStatus, ResolveReadExecError, ResolveReadPid,
       ResolveReadRunner, ResolveProbeCommand, ResolveProbeRunner, ResolveHeal,
       ResolveHealEnded, PollAgain
  <2>4. \A b \in Actors : pc'[b] \in {"heal", "heal_ended"} => pc'[b] = pc[b]
    BY <2>1, <2>2
    DEF Resolve, ResolveReadStatus, ResolveReadExecError, ResolveReadPid,
       ResolveReadRunner, ResolveProbeCommand, ResolveProbeRunner, ResolveHeal,
       ResolveHealEnded, PollAgain, Resolved, Finish
  <2>5. QED
    BY <1>0, <1>2, <1>3, <1>4, <2>1, <2>3, <2>4 DEF HealedAfterwards
<1>5. CASE RemovalBegun \/ StartReturned
  <2>1. status' \in {status, "unknown"}
    BY DEF Resolve, ResolveReadStatus, ResolveReadExecError, ResolveReadPid,
       ResolveReadRunner, ResolveProbeCommand, ResolveProbeRunner, ResolveHeal,
       ResolveHealEnded, PollAgain, WriteStatus
  <2>2. QED
    BY <1>0, <1>1, <1>2, <1>3, <1>5, <2>1 DEF HealedAfterwards
<1>6. QED
  BY <1>4, <1>5

\* Removal keeps it, requests keep it, and it holds initially.
LEMMA RemoveHealed ==
    ASSUME TypeOK, HealedAfterwards, NEW a \in Actors, Remove(a)
    PROVE  HealedAfterwards'
  BY DEF TypeOK, ActorTypeOK, Goto, Die, Alive, NotAlive, Remove, RemoveRunner, RemoveHolder,
         RemoveFiles, RemoveDir, HealedAfterwards, StartReturned, RemovalBegun,
         Actors

LEMMA RequestHealed ==
    ASSUME TypeOK, HealedAfterwards, NEW c \in Clients, Request(c), "kill" \notin Ops
    PROVE  HealedAfterwards'
<1>1. /\ UNCHANGED sysVars /\ UNCHANGED seen /\ pc[c] = "idle" /\ c # Starter
      /\ pc' = [pc EXCEPT ![c] = "read_status"]
      /\ \E o \in Ops : op' = [op EXCEPT ![c] = o]
  BY ConstantsAssumption DEF Request, Goto
<1>2. QED
  BY <1>1 DEF TypeOK, ActorTypeOK, HealedAfterwards, StartReturned, RemovalBegun,
              Actors

LEMMA InitHealed == Init => HealedAfterwards
<1> SUFFICES ASSUME Init PROVE HealedAfterwards
  OBVIOUS
<1>1. op[Starter] \in Modes
  BY DEF Init, Actors
<1>2. QED
  BY <1>1, ConstantsAssumption DEF Init, HealedAfterwards, RemovalBegun, Unseen

\* HealedAfterwards is inductive where nobody kills.
LEMMA NextHealed ==
    ASSUME "kill" \notin Ops
    PROVE  TypeOK /\ Truth /\ Keeping /\ HealedAfterwards /\ [Next]_vars => HealedAfterwards'
<1> SUFFICES ASSUME TypeOK, Truth, Keeping, HealedAfterwards, [Next]_vars
             PROVE  HealedAfterwards'
  OBVIOUS
<1>1. CASE Start
  BY <1>1, StarterHealed
<1>2. CASE Runner \/ Command \/ CommandEnds \/ Kernel \/ RunnerCrash
  BY <1>2, SystemHealed
<1>3. CASE \E c \in Clients : Request(c)
  BY <1>3, RequestHealed
<1>4. CASE \E a \in Actors : Actor(a)
  BY <1>4, ResolveHealed, RemoveHealed, KillStep DEF Actor, Truth, NobodyKills
<1>5. CASE UNCHANGED vars
  BY <1>5 DEF HealedAfterwards, StartReturned, RemovalBegun
<1>6. QED
  BY <1>1, <1>2, <1>3, <1>4, <1>5 DEF Next, Finished

\* What the starter answers when it resolves the state.
LEMMA StarterTells ==
    ASSUME TypeOK, Truth, Keeping, HealedAfterwards, Resolve(Starter), ~RemovalBegun
    PROVE  reply'[Starter] \in {reply[Starter], "timeout"} \cup Fates
<1> USE DEF TypeOK, ActorTypeOK, StartReturned
<1>s. Starter \in Actors
  BY DEF Actors
<1>0. pc[Starter] # "done"
  BY <1>s, ResolveMoves
<1>1. ASSUME NEW v, v \in {"none", "running"} \cup Fates, Resolved(Starter, v)
      PROVE  reply'[Starter] \in {reply[Starter]} \cup Fates
  BY <1>s, <1>1 DEF Resolved, Polling, Finish, HealedAfterwards
<1>2. CASE ResolveReadExecError(Starter)
  <2>1. PICK v \in {"execfailed", seen[Starter].status} : Resolved(Starter, v)
    BY <1>2 DEF ResolveReadExecError
  <2>2. seen[Starter].status \in Terminal \ {"killed", "unknown"}
    BY <1>0, <1>2, <1>s DEF ResolveReadExecError, Keeping, HealedAfterwards
  <2>3. v \in Fates
    BY <2>1, <2>2 DEF Terminal, Fates
  <2>4. QED
    BY <1>1, <2>1, <2>3
<1>3. CASE PollAgain(Starter)
  BY <1>s, <1>3 DEF PollAgain, Finish
<1>4. CASE ResolveHealEnded(Starter)
  BY <1>0, <1>s, <1>4 DEF ResolveHealEnded, HealedAfterwards
<1>5. CASE /\ Resolve(Starter) /\ ~ResolveReadExecError(Starter)
           /\ ~PollAgain(Starter) /\ ~ResolveHealEnded(Starter)
  <2>1. reply' = reply \/ \E v \in {"none", "running"} : Resolved(Starter, v)
    BY <1>5 DEF Resolve, ResolveReadStatus, ResolveReadPid, ResolveReadRunner,
                ResolveProbeCommand, ResolveProbeRunner, ResolveHeal
  <2>2. QED
    BY <1>1, <2>1
<1>6. QED
  BY <1>2, <1>3, <1>4, <1>5

\* RunReportsTheExit: where nobody kills, run answers how the command ended, or
\* that it runs, or that start failed, and never exited(unknown), though the
\* runner may die at any step and others heal the status that run reads.
THEOREM RunsReport == ASSUME "kill" \notin Ops PROVE Spec => RunReportsTheExit
<1>1. TypeOK /\ Truth /\ Keeping /\ HealedAfterwards /\ [Next]_vars
        => [op[Starter] # "start" /\ reply'[Starter] # reply[Starter]
              /\ ~RemovalBegun
                => reply'[Starter] \in {fate, "timeout", "error"}]_vars
  <2> SUFFICES ASSUME TypeOK, Truth, Keeping, HealedAfterwards, [Next]_vars,
                      op[Starter] # "start", reply'[Starter] # reply[Starter],
                      ~RemovalBegun
               PROVE  reply'[Starter] \in {fate, "timeout", "error"}
    OBVIOUS
  <2> USE DEF TypeOK, ActorTypeOK
  <2>s. Starter \in Actors
    BY DEF Actors
  <2>1. reply'[Starter] \in {"timeout", "error"} \cup Fates
    <3>1. CASE Start
      BY <2>s, <3>1
      DEF Start, StartMkdir, StartWriteRunning, StartFork, StartReadSync,
          StartWritePid, StartReadReady, RunCloseStatus, RunCloseHolder, Finish
    <3>2. CASE Runner \/ Command \/ CommandEnds \/ Kernel \/ RunnerCrash
      BY <3>2, SystemMoves
    <3>3. CASE \E c \in Clients : Request(c)
      BY <3>3 DEF Request
    <3>4. ASSUME NEW a \in Actors, Actor(a) PROVE reply'[Starter] \in {"timeout"} \cup Fates
      <4>1. CASE Resolve(a)
        <5>1. a = Starter
          BY <2>s, <4>1, ResolveMoves
        <5>2. QED
          BY <4>1, <5>1, StarterTells
      <4>2. CASE Remove(a)
        BY <4>2 DEF Remove, RemoveRunner, RemoveHolder, RemoveFiles, RemoveDir
      <4>3. CASE Kill(a)
        BY <4>3, KillStep DEF Truth, NobodyKills
      <4>4. QED
        BY <3>4, <4>1, <4>2, <4>3 DEF Actor
    <3>5. CASE UNCHANGED vars
      BY <3>5
    <3>6. QED
      BY <3>1, <3>2, <3>3, <3>4, <3>5 DEF Next, Finished
  <2>2. reply'[Starter] \in Fates => reply'[Starter] = fate
    BY <2>s, TruthAnswers
  <2>3. QED
    BY <2>1, <2>2
<1>2. TypeOK /\ Truth /\ [Next]_vars => Truth'
  BY NextTruth
<1>3. TypeOK /\ Truth /\ Keeping /\ [Next]_vars => Keeping'
  BY NextKeeping
<1>4. TypeOK /\ Truth /\ Keeping /\ HealedAfterwards /\ [Next]_vars => HealedAfterwards'
  BY NextHealed
<1>5. QED
  BY <1>1, <1>2, <1>3, <1>4, InitTruth, InitKeeping, InitHealed, TypeCorrect, PTL
  DEF Spec, RunReportsTheExit

=============================================================================
