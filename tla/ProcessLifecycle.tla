-------------------------- MODULE ProcessLifecycle --------------------------
(***************************************************************************)
(* One managed process of rxd, from `start` to the removal of its          *)
(* directory: the starter (the rxd that serves start or run), the runner   *)
(* it forks, the stdin holder and the command the runner forks, and the    *)
(* other rxd invocations (Clients) that look at the process, wait for it,  *)
(* kill it or clean it up at the same time.  Nothing is shared but the     *)
(* files of the process directory and the kernel's process table; there is *)
(* no lock, so every read, write, fork, probe and signal is a step.        *)
(***************************************************************************)
CONSTANTS
    Clients,     \* rxd invocations other than the starter, one request each
    Starter,     \* the rxd invocation that serves start or run
    Modes,       \* what the starter may serve: "start", "run" (ephemeral
                 \* false or output too large), "ephemeral" (run, removed)
    Ops,         \* what a client may ask: "status", "wait", "kill", "clean"
    Faults,      \* the system calls of start that may fail
    RunnerMayCrash, \* whether the runner may be killed from outside rxd
    EarlyIds     \* whether a client may learn the id (from list or clean,
                 \* which read the base directory) before start answered

ASSUME ConstantsAssumption ==
    /\ Starter \notin Clients
    /\ Modes \subseteq {"start", "run", "ephemeral"}
    /\ Ops \subseteq {"status", "wait", "kill", "clean"}
    /\ Faults \subseteq {"setup", "runner_setup", "holder_fork",
                         "command_fork", "stdin", "chdir", "exec"}
    /\ RunnerMayCrash \in BOOLEAN
    /\ EarlyIds \in BOOLEAN

Actors == Clients \cup {Starter}

VARIABLES
    dir,      \* the process directory: "absent", "present" or "removed"
    status,   \* content of the status file, "none" when there is no file
    files,    \* which of the other files exist with their content
    runner,   \* the runner: its next step, or "unborn", "zombie", "gone"
    holder,   \* the stdin holder: "unborn", "alive", "zombie", "gone"
    command,  \* the command: its next step, or "unborn", "zombie", "gone"
    fate,     \* how the command ends, once that is decided
    sync,     \* the sync pipe: "empty", "pid" or "zero"
    ready,    \* whether the ready byte is in the ready pipe
    pc,       \* next step of each actor
    op,       \* the request each actor is serving
    seen,     \* what each actor has read and not yet used
    reply     \* what each actor answered, "none" before

fileVars  == <<dir, status, files>>
procVars  == <<runner, holder, command, fate>>
pipeVars  == <<sync, ready>>
sysVars   == <<fileVars, procVars, pipeVars>>
heldVars  == <<op, seen, reply>>
actorVars == <<pc, heldVars>>
vars      == <<sysVars, actorVars>>

-----------------------------------------------------------------------------
(* Statuses and process-table states *)

\* How a command can end: exited(N), exited(127), by a signal, or never
\* started because execvp failed.
Fates == {"exited", "exited127", "signaled", "execfailed"}

Terminal == {"exited", "exited127", "signaled", "killed", "unknown"}
Statuses == {"none", "running"} \cup Terminal

FileNames == {"stdin_pipe", "pid", "runner_pid", "holder_pid", "exec_error",
              "ended"}

RunnerSteps  == {"setup", "fork_holder", "fork_command", "record_runner",
                 "record_holder", "sync", "waitpid", "write_status",
                 "write_ended", "kill_holder",
                 "fail_status", "fail_sync", "fail_holder"}
CommandSteps == {"open_stdin", "signal_ready", "chdir", "exec", "running",
                 "record_exec_error", "fail_status", "exit127"}
NotAlive     == {"unborn", "zombie", "gone"}

Alive(p) == p \notin NotAlive

\* kill(pid, 0) = 0: a zombie still has its pid.
Exists(p) == p \notin {"unborn", "gone"}

\* The effect of a fatal signal.
Die(p) == IF Alive(p) THEN "zombie" ELSE p

\* With a status for an exec failure, which no reader of the file knows.
StatusLine_raw(f) == f

\* What the kernel reports for a fate and the runner writes: an exec failure
\* is an _exit(127) like any other.
StatusLine(f) == IF f = "execfailed" THEN "exited127" ELSE f

\* write_status: a temp file renamed over status, in one step for readers.
\* It fails, and the error is ignored, once the directory is gone.
WriteStatus(s) == status' = IF dir = "present" THEN s ELSE status

\* fs::write of one of the other files; a reader of a file that exists and is
\* still empty parses no number, so it sees what it sees before the creation.
WriteFile(f) == files' = IF dir = "present" THEN files \cup {f} ELSE files

-----------------------------------------------------------------------------
(* Actor bookkeeping *)

Unseen == [status |-> "none", pid |-> FALSE, runner |-> FALSE]

Goto(a, l) == pc' = [pc EXCEPT ![a] = l]

\* From one step to the next, and on with nothing new seen or asked.
Step(a, l, m)  == pc[a] = l /\ Goto(a, m)
Continue(a, l) == Goto(a, l) /\ UNCHANGED heldVars

Finish(a, v) == /\ Goto(a, "done")
                /\ reply' = [reply EXCEPT ![a] = v]
                /\ seen' = [seen EXCEPT ![a] = Unseen]
                /\ UNCHANGED op

StartSteps == {"mkdir", "write_running", "fork", "read_sync", "write_pid",
               "read_ready"}
ResolveSteps == {"read_status", "read_exec_error", "read_pid", "read_runner",
                 "probe_command", "probe_runner", "heal", "heal_ended"}
KillSteps == {"kill_dir", "kill_status", "kill_runner_pid", "kill_pid",
              "kill_term", "kill_check", "kill_kill", "kill_read",
              "kill_write", "kill_ended"}
RemoveSteps == {"remove_runner", "remove_holder", "remove_files",
                "remove_dir"}
Steps == StartSteps \cup ResolveSteps \cup KillSteps \cup RemoveSteps
           \cup {"idle", "close_status", "close_holder", "sleep", "done"}

\* Start has answered (for run: the response, which carries the id, is out).
StartReturned == pc[Starter] = "done"

-----------------------------------------------------------------------------
(* The starter: start() up to its answer, then the rest of run() *)

StartMkdir ==
    /\ Step(Starter, "mkdir", "write_running")
    /\ dir' = "present"
    /\ UNCHANGED <<status, files, procVars, pipeVars, heldVars>>

\* The first status; the `?` turns a failed write into an error answer.
StartWriteRunning ==
    /\ pc[Starter] = "write_running"
    /\ WriteStatus("running")
    /\ IF dir = "present"
       THEN Continue(Starter, "fork")
       ELSE Finish(Starter, "error")
    /\ UNCHANGED <<dir, files, procVars, pipeVars>>

\* mkfifo, the two pipes and the fork of the runner.  Any of them may fail,
\* and then start answers an error and leaves the directory behind.
StartFork ==
    /\ pc[Starter] = "fork"
    /\ \/ /\ dir = "present"
          /\ WriteFile("stdin_pipe")
          /\ runner' = "setup"
          /\ Goto(Starter, "read_sync")
          /\ UNCHANGED heldVars
       \/ /\ dir # "present" \/ "setup" \in Faults
          /\ Finish(Starter, "error")
          /\ UNCHANGED <<files, runner>>
    /\ UNCHANGED <<dir, status, holder, command, fate, pipeVars>>

\* Blocks until the runner has written a pid, or until the write end is closed
\* everywhere (the runner is dead): then, as after a zero, there is no pid.
StartReadSync ==
    /\ pc[Starter] = "read_sync"
    /\ sync # "empty" \/ ~Alive(runner)
    /\ IF sync = "pid"
       THEN Continue(Starter, "write_pid")
       ELSE IF op[Starter] = "start"
       THEN Finish(Starter, "started")
       ELSE Continue(Starter, "close_status")
    /\ UNCHANGED sysVars

StartWritePid ==
    /\ Step(Starter, "write_pid", "read_ready")
    /\ WriteFile("pid")
    /\ UNCHANGED <<dir, status, procVars, pipeVars, heldVars>>

\* With the write end leaked into a process that outlives the command.
StartReadReady_no_eof ==
    /\ pc[Starter] = "read_ready"
    /\ ready
    /\ IF op[Starter] = "start"
       THEN Finish(Starter, "started")
       ELSE Continue(Starter, "close_status")
    /\ UNCHANGED sysVars

\* Blocks until the ready byte or the end of the command, the only process
\* that still holds the write end.
StartReadReady ==
    /\ pc[Starter] = "read_ready"
    /\ ready \/ ~Alive(command)
    /\ IF op[Starter] = "start"
       THEN Finish(Starter, "started")
       ELSE Continue(Starter, "close_status")
    /\ UNCHANGED sysVars

\* run: close_stdin unless keep_stdin_open, its answer ignored.
RunCloseStatus ==
    /\ pc[Starter] = "close_status"
    /\ \/ status \in {"none", "running"} /\ Goto(Starter, "close_holder")
       \/ Goto(Starter, "read_status")
    /\ UNCHANGED <<sysVars, heldVars>>

\* kill_stdin_holder; with no holder left close_stdin resolves the state, as
\* the first poll of run does.
RunCloseHolder ==
    /\ Step(Starter, "close_holder", "read_status")
    /\ holder' = IF "holder_pid" \in files THEN Die(holder) ELSE holder
    /\ UNCHANGED <<fileVars, runner, command, fate, pipeVars, heldVars>>

Start == \/ StartMkdir \/ StartWriteRunning \/ StartFork \/ StartReadSync
         \/ StartWritePid \/ StartReadReady \/ RunCloseStatus \/ RunCloseHolder

-----------------------------------------------------------------------------
(* The runner *)

RunnerStep(l, m) == runner = l /\ runner' = m

\* The child of the first fork: session, stdio, FIFO, output files.
RunnerSetup ==
    /\ runner = "setup"
    /\ \/ "stdin_pipe" \in files /\ runner' = "fork_holder"
       \/ /\ "stdin_pipe" \notin files \/ "runner_setup" \in Faults
          /\ runner' = "fail_status"
    /\ UNCHANGED <<fileVars, holder, command, fate, pipeVars, actorVars>>

RunnerForkHolder ==
    /\ runner = "fork_holder"
    /\ \/ holder' = "alive" /\ runner' = "fork_command"
       \/ /\ "holder_fork" \in Faults
          /\ runner' = "fail_status"
          /\ UNCHANGED holder
    /\ UNCHANGED <<fileVars, command, fate, pipeVars, actorVars>>

\* With the starter told the pid before runner_pid and holder_pid are recorded.
RunnerForkCommand_signal_first ==
    /\ runner = "fork_command"
    /\ command' = "open_stdin" /\ runner' = "record_runner" /\ sync' = "pid"
    /\ UNCHANGED <<fileVars, holder, fate, ready, actorVars>>

RunnerForkCommand ==
    /\ runner = "fork_command"
    /\ \/ command' = "open_stdin" /\ runner' = "record_runner"
       \/ /\ "command_fork" \in Faults
          /\ runner' = "fail_status"
          /\ UNCHANGED command
    /\ UNCHANGED <<fileVars, holder, fate, pipeVars, actorVars>>

\* A setup failure: the status, then a zero to release the starter, then the
\* holder (when it was forked), then _exit.
RunnerFailStatus ==
    /\ RunnerStep("fail_status", "fail_sync")
    /\ WriteStatus("exited127")
    /\ fate' = "exited127"
    /\ UNCHANGED <<dir, files, holder, command, pipeVars, actorVars>>

RunnerFailSync ==
    /\ RunnerStep("fail_sync", "fail_holder")
    /\ sync' = "zero"
    /\ UNCHANGED <<fileVars, holder, command, fate, ready, actorVars>>

RunnerFailHolder ==
    /\ RunnerStep("fail_holder", "zombie")
    /\ holder' = Die(holder)
    /\ UNCHANGED <<fileVars, command, fate, pipeVars, actorVars>>

\* Both pids are recorded before the starter is told the command's.
RunnerRecordSelf ==
    /\ RunnerStep("record_runner", "record_holder")
    /\ WriteFile("runner_pid")
    /\ UNCHANGED <<dir, status, holder, command, fate, pipeVars, actorVars>>

RunnerRecordHolder ==
    /\ RunnerStep("record_holder", "sync")
    /\ WriteFile("holder_pid")
    /\ UNCHANGED <<dir, status, holder, command, fate, pipeVars, actorVars>>

RunnerSignalStarter ==
    /\ RunnerStep("sync", "waitpid")
    /\ sync' = "pid"
    /\ UNCHANGED <<fileVars, holder, command, fate, ready, actorVars>>

\* waitpid blocks until the command is a zombie, and reaps it.
RunnerReap ==
    /\ RunnerStep("waitpid", "write_status") /\ command = "zombie"
    /\ command' = "gone"
    /\ UNCHANGED <<fileVars, holder, fate, pipeVars, actorVars>>

RunnerWriteStatus ==
    /\ RunnerStep("write_status", "write_ended")
    /\ WriteStatus(StatusLine(fate))
    /\ UNCHANGED <<dir, files, holder, command, fate, pipeVars, actorVars>>

RunnerWriteEnded ==
    /\ RunnerStep("write_ended", "kill_holder")
    /\ WriteFile("ended")
    /\ UNCHANGED <<dir, status, holder, command, fate, pipeVars, actorVars>>

RunnerKillHolder ==
    /\ RunnerStep("kill_holder", "zombie")
    /\ holder' = Die(holder)
    /\ UNCHANGED <<fileVars, command, fate, pipeVars, actorVars>>

Runner == \/ RunnerSetup \/ RunnerForkHolder \/ RunnerForkCommand
          \/ RunnerFailStatus \/ RunnerFailSync \/ RunnerFailHolder
          \/ RunnerRecordSelf \/ RunnerRecordHolder \/ RunnerSignalStarter
          \/ RunnerReap \/ RunnerWriteStatus \/ RunnerWriteEnded
          \/ RunnerKillHolder

-----------------------------------------------------------------------------
(* The command: the forked grandchild up to execvp, then any program *)

CommandStep(l, m) == command = l /\ command' = m

CommandOpenStdin ==
    /\ command = "open_stdin"
    /\ \/ "stdin_pipe" \in files /\ command' = "signal_ready" /\ UNCHANGED fate
       \/ /\ "stdin_pipe" \notin files \/ "stdin" \in Faults
          /\ command' = "fail_status" /\ fate' = "exited127"
    /\ UNCHANGED <<fileVars, runner, holder, pipeVars, actorVars>>

CommandSignalReady ==
    /\ CommandStep("signal_ready", "chdir")
    /\ ready' = TRUE
    /\ UNCHANGED <<fileVars, runner, holder, fate, sync, actorVars>>

CommandChdir ==
    /\ command = "chdir"
    /\ \/ command' = "exec" /\ UNCHANGED fate
       \/ /\ "chdir" \in Faults
          /\ command' = "fail_status" /\ fate' = "exited127"
    /\ UNCHANGED <<fileVars, runner, holder, pipeVars, actorVars>>

\* With the marker written after the status, or not at all.
CommandExec_no_marker ==
    /\ command = "exec"
    /\ \/ command' = "running" /\ UNCHANGED fate
       \/ /\ "exec" \in Faults
          /\ command' = "fail_status" /\ fate' = "execfailed"
    /\ UNCHANGED <<fileVars, runner, holder, pipeVars, actorVars>>

CommandExec ==
    /\ command = "exec"
    /\ \/ command' = "running" /\ UNCHANGED fate
       \/ /\ "exec" \in Faults
          /\ command' = "record_exec_error" /\ fate' = "execfailed"
    /\ UNCHANGED <<fileVars, runner, holder, pipeVars, actorVars>>

CommandRecordExecError ==
    /\ CommandStep("record_exec_error", "fail_status")
    /\ WriteFile("exec_error")
    /\ UNCHANGED <<dir, status, runner, holder, fate, pipeVars, actorVars>>

CommandFailStatus ==
    /\ command = "fail_status"
    /\ WriteStatus("exited127")
    /\ command' = "exit127"
    /\ UNCHANGED <<dir, files, runner, holder, fate, pipeVars, actorVars>>

CommandExit127 ==
    /\ command = "exit127"
    /\ command' = "zombie"
    /\ UNCHANGED <<fileVars, runner, holder, fate, pipeVars, actorVars>>

\* The program ends when and how it likes, with code 127 too.
CommandEnds ==
    /\ CommandStep("running", "zombie")
    /\ fate' \in {"exited", "exited127", "signaled"}
    /\ UNCHANGED <<fileVars, runner, holder, pipeVars, actorVars>>

Command == \/ CommandOpenStdin \/ CommandSignalReady \/ CommandChdir
           \/ CommandExec \/ CommandRecordExecError \/ CommandFailStatus
           \/ CommandExit127

-----------------------------------------------------------------------------
(* The kernel *)

\* init reaps the runner once its parent, the starter, has exited: until then
\* a dead runner stays a zombie, because nothing in rxd waits for it.
ReapRunner ==
    /\ RunnerStep("zombie", "gone") /\ StartReturned
    /\ UNCHANGED <<fileVars, holder, command, fate, pipeVars, actorVars>>

\* init reaps the children of a dead runner.
ReapCommand ==
    /\ runner \in {"zombie", "gone"} /\ command = "zombie"
    /\ command' = "gone"
    /\ UNCHANGED <<fileVars, runner, holder, fate, pipeVars, actorVars>>

ReapHolder ==
    /\ runner \in {"zombie", "gone"} /\ holder = "zombie"
    /\ holder' = "gone"
    /\ UNCHANGED <<fileVars, runner, command, fate, pipeVars, actorVars>>

Kernel == ReapRunner \/ ReapCommand \/ ReapHolder

RunnerCrash ==
    /\ RunnerMayCrash /\ Alive(runner)
    /\ runner' = "zombie"
    /\ UNCHANGED <<fileVars, holder, command, fate, pipeVars, actorVars>>

-----------------------------------------------------------------------------
(* resolve_state, shared by status, list, clean, wait and run *)

\* await_exit_or_timeout is polling, for wait or for run.
Polling(a) == op[a] \in {"poll", "run", "ephemeral"}

\* The state is used up: the actor goes on without it.
Forget(a, l) == Goto(a, l) /\ seen' = [seen EXCEPT ![a] = Unseen]

StatusResolved(a, v) ==
    /\ op[a] = "status"
    /\ Finish(a, IF v = "none" THEN "not_found" ELSE v)

\* wait resolves once to learn that there is a process, then polls.
WaitResolved(a, v) ==
    /\ op[a] = "wait"
    /\ IF v = "none"
       THEN Finish(a, "not_found")
       ELSE /\ Forget(a, "read_status")
            /\ op' = [op EXCEPT ![a] = "poll"]
            /\ UNCHANGED reply

\* A missing status is polled again like a running one.  The answer of an
\* ephemeral run is built before its directory is removed.
PollResolved(a, v) ==
    /\ Polling(a)
    /\ IF v \in {"none", "running"}
       THEN Forget(a, "sleep") /\ UNCHANGED <<op, reply>>
       ELSE IF op[a] = "ephemeral"
       THEN /\ Forget(a, "remove_runner")
            /\ reply' = [reply EXCEPT ![a] = v]
            /\ UNCHANGED op
       ELSE Finish(a, v)

CleanResolved(a, v) ==
    /\ op[a] = "clean"
    /\ IF v \in {"none", "running"}
       THEN Finish(a, "kept")
       ELSE /\ Forget(a, "remove_runner")
            /\ reply' = [reply EXCEPT ![a] = "cleaned"]
            /\ UNCHANGED op

\* What the caller of resolve_state does with the state v it returns.
Resolved(a, v) == \/ StatusResolved(a, v) \/ WaitResolved(a, v)
                  \/ PollResolved(a, v) \/ CleanResolved(a, v)

\* With exited(killed) not taken for a final state.
ResolveReadStatus_killed_not_final(a) ==
    /\ pc[a] = "read_status"
    /\ CASE status \in {"none", "killed"} -> Resolved(a, "none")
         [] status = "running" -> Continue(a, "read_pid")
         [] OTHER -> /\ seen' = [seen EXCEPT ![a].status = status]
                     /\ Goto(a, "read_exec_error")
                     /\ UNCHANGED <<op, reply>>
    /\ UNCHANGED sysVars

ResolveReadStatus(a) ==
    /\ pc[a] = "read_status"
    /\ CASE status = "none"    -> Resolved(a, "none")
         [] status = "running" -> Continue(a, "read_pid")
         [] OTHER -> /\ seen' = [seen EXCEPT ![a].status = status]
                     /\ Goto(a, "read_exec_error")
                     /\ UNCHANGED <<op, reply>>
    /\ UNCHANGED sysVars

\* A recorded exec failure overrides the runner's generic exited(127).
ResolveReadExecError(a) ==
    /\ pc[a] = "read_exec_error"
    /\ Resolved(a, IF "exec_error" \in files THEN "execfailed" ELSE seen[a].status)
    /\ UNCHANGED sysVars

ResolveReadPid(a) ==
    /\ Step(a, "read_pid", "read_runner")
    /\ seen' = [seen EXCEPT ![a].pid = "pid" \in files]
    /\ UNCHANGED <<sysVars, op, reply>>

\* Neither pid recorded: a newborn, running.
ResolveReadRunner(a) ==
    /\ pc[a] = "read_runner"
    /\ IF ~seen[a].pid /\ "runner_pid" \notin files
       THEN Resolved(a, "running")
       ELSE /\ seen' = [seen EXCEPT ![a].runner = "runner_pid" \in files]
            /\ Goto(a, IF seen[a].pid THEN "probe_command" ELSE "probe_runner")
            /\ UNCHANGED <<op, reply>>
    /\ UNCHANGED sysVars

ResolveProbeCommand(a) ==
    /\ pc[a] = "probe_command"
    /\ IF Exists(command)
       THEN Resolved(a, "running")
       ELSE Continue(a, "probe_runner")
    /\ UNCHANGED sysVars

\* With exited(unknown) as soon as the command is gone.
ResolveProbeRunner_skipped(a) ==
    /\ pc[a] = "probe_runner"
    /\ Continue(a, "heal")
    /\ UNCHANGED sysVars

\* The command is gone: a runner that still exists is about to write the
\* true status.
ResolveProbeRunner(a) ==
    /\ pc[a] = "probe_runner"
    /\ IF seen[a].runner /\ Exists(runner)
       THEN Resolved(a, "running")
       ELSE Continue(a, "heal")
    /\ UNCHANGED sysVars

ResolveHeal(a) ==
    /\ Step(a, "heal", "heal_ended")
    /\ WriteStatus("unknown")
    /\ UNCHANGED <<dir, files, procVars, pipeVars, heldVars>>

ResolveHealEnded(a) ==
    /\ pc[a] = "heal_ended"
    /\ WriteFile("ended")
    /\ Resolved(a, "unknown")
    /\ UNCHANGED <<dir, status, procVars, pipeVars>>

\* Between two polls, or past the deadline: the Running answer.
PollAgain(a) ==
    /\ pc[a] = "sleep"
    /\ \/ Continue(a, "read_status")
       \/ Finish(a, "timeout")
    /\ UNCHANGED sysVars

Resolve(a) ==
    \/ ResolveReadStatus(a) \/ ResolveReadExecError(a) \/ ResolveReadPid(a)
    \/ ResolveReadRunner(a) \/ ResolveProbeCommand(a) \/ ResolveProbeRunner(a)
    \/ ResolveHeal(a) \/ ResolveHealEnded(a) \/ PollAgain(a)

-----------------------------------------------------------------------------
(* remove_process_dir, for clean and an ephemeral run *)

RemoveRunner(a) ==
    /\ Step(a, "remove_runner", "remove_holder")
    /\ runner' = IF "runner_pid" \in files THEN Die(runner) ELSE runner
    /\ UNCHANGED <<fileVars, holder, command, fate, pipeVars, heldVars>>

\* With the holder left to the runner.
RemoveHolder_omitted(a) ==
    /\ Step(a, "remove_holder", "remove_files")
    /\ UNCHANGED <<sysVars, heldVars>>

RemoveHolder(a) ==
    /\ Step(a, "remove_holder", "remove_files")
    /\ holder' = IF "holder_pid" \in files THEN Die(holder) ELSE holder
    /\ UNCHANGED <<fileVars, runner, command, fate, pipeVars, heldVars>>

\* remove_dir_all unlinks what it finds, then the directory, which fails if
\* somebody has written a file since; the error is ignored.
RemoveFiles(a) ==
    /\ Step(a, "remove_files", "remove_dir")
    /\ status' = "none" /\ files' = {}
    /\ UNCHANGED <<dir, procVars, pipeVars, heldVars>>

RemoveDir(a) ==
    /\ Step(a, "remove_dir", "done")
    /\ dir' = IF status = "none" /\ files = {} THEN "removed" ELSE dir
    /\ UNCHANGED <<status, files, procVars, pipeVars, heldVars>>

Remove(a) == \/ RemoveRunner(a) \/ RemoveHolder(a)
             \/ RemoveFiles(a) \/ RemoveDir(a)

-----------------------------------------------------------------------------
(* kill *)

KillDir(a) ==
    /\ pc[a] = "kill_dir"
    /\ IF dir = "present"
       THEN Continue(a, "kill_status")
       ELSE Finish(a, "not_found")
    /\ UNCHANGED sysVars

\* A status that cannot be read does not stop the kill.
KillStatus(a) ==
    /\ pc[a] = "kill_status"
    /\ IF status \in Terminal
       THEN Finish(a, "already_exited")
       ELSE Continue(a, "kill_runner_pid")
    /\ UNCHANGED sysVars

KillReadRunner(a) ==
    /\ Step(a, "kill_runner_pid", "kill_pid")
    /\ seen' = [seen EXCEPT ![a].runner = "runner_pid" \in files]
    /\ UNCHANGED <<sysVars, op, reply>>

KillReadPid(a) ==
    /\ Step(a, "kill_pid", "kill_term")
    /\ seen' = [seen EXCEPT ![a].pid = "pid" \in files]
    /\ UNCHANGED <<sysVars, op, reply>>

\* A fatal signal to the command.
KillCommand ==
    /\ command' = Die(command)
    /\ fate' = IF Alive(command) THEN "signaled" ELSE fate

\* SIGTERM: the runner, the holder and a command before execvp die of it; a
\* running program may handle or ignore it.
TermCommand ==
    \/ KillCommand
    \/ command = "running" /\ UNCHANGED <<command, fate>>

KillTerm(a) ==
    /\ pc[a] = "kill_term"
    /\ \/ /\ seen[a].runner
          /\ \E p \in {runner, holder, command} : Exists(p)
          /\ runner' = Die(runner) /\ holder' = Die(holder) /\ TermCommand
          /\ Goto(a, "kill_check")
       \/ /\ ~seen[a].runner /\ seen[a].pid /\ Exists(command)
          /\ TermCommand /\ UNCHANGED <<runner, holder>>
          /\ Goto(a, "kill_check")
       \/ /\ IF seen[a].runner
             THEN \A p \in {runner, holder, command} : ~Exists(p)
             ELSE ~seen[a].pid \/ ~Exists(command)
          /\ Goto(a, "kill_read")
          /\ UNCHANGED procVars
    /\ UNCHANGED <<fileVars, pipeVars, heldVars>>

\* 200 ms later; without a recorded command pid nothing is escalated.
KillCheck(a) ==
    /\ pc[a] = "kill_check"
    /\ Goto(a, IF seen[a].pid /\ Exists(command) THEN "kill_kill" ELSE "kill_read")
    /\ UNCHANGED <<sysVars, heldVars>>

\* With no escalation to SIGKILL.
KillKill_skipped(a) ==
    /\ Step(a, "kill_kill", "kill_read")
    /\ UNCHANGED <<sysVars, heldVars>>

KillKill(a) ==
    /\ Step(a, "kill_kill", "kill_read")
    /\ KillCommand
    /\ IF seen[a].runner
       THEN runner' = Die(runner) /\ holder' = Die(holder)
       ELSE UNCHANGED <<runner, holder>>
    /\ UNCHANGED <<fileVars, pipeVars, heldVars>>

\* With exited(killed) written whatever the status is by now.
KillRead_always_stamps(a) ==
    /\ pc[a] = "kill_read"
    /\ Continue(a, "kill_write")
    /\ UNCHANGED sysVars

\* record_kill_outcome: exited(killed) only if the status, read again, is
\* still running (or cannot be read).
KillRead(a) ==
    /\ pc[a] = "kill_read"
    /\ IF status \in Terminal
       THEN Finish(a, "killed")
       ELSE Continue(a, "kill_write")
    /\ UNCHANGED sysVars

KillWrite(a) ==
    /\ Step(a, "kill_write", "kill_ended")
    /\ WriteStatus("killed")
    /\ UNCHANGED <<dir, files, procVars, pipeVars, heldVars>>

KillEnded(a) ==
    /\ pc[a] = "kill_ended"
    /\ WriteFile("ended")
    /\ Finish(a, "killed")
    /\ UNCHANGED <<dir, status, procVars, pipeVars>>

Kill(a) == \/ KillDir(a) \/ KillStatus(a) \/ KillReadRunner(a) \/ KillReadPid(a)
           \/ KillTerm(a) \/ KillCheck(a) \/ KillKill(a) \/ KillRead(a)
           \/ KillWrite(a) \/ KillEnded(a)

-----------------------------------------------------------------------------
(* The specification *)

\* A client learns the id and makes its request.
Request(c) ==
    /\ pc[c] = "idle" /\ dir # "absent"
    /\ EarlyIds \/ StartReturned
    /\ \E o \in Ops :
          /\ op' = [op EXCEPT ![c] = o]
          /\ Goto(c, IF o = "kill" THEN "kill_dir" ELSE "read_status")
    /\ UNCHANGED <<sysVars, seen, reply>>

Actor(a) == Resolve(a) \/ Remove(a) \/ Kill(a)

\* Everything has ended; only a holder that nobody killed may still pause.
Finished ==
    /\ StartReturned /\ \A c \in Clients : pc[c] \in {"idle", "done"}
    /\ runner \in {"unborn", "gone"} /\ command \in {"unborn", "gone"}
    /\ holder # "zombie"
    /\ UNCHANGED vars

Init ==
    /\ dir = "absent" /\ status = "none" /\ files = {}
    /\ runner = "unborn" /\ holder = "unborn" /\ command = "unborn"
    /\ fate = "none" /\ sync = "empty" /\ ready = FALSE
    /\ pc = [a \in Actors |-> IF a = Starter THEN "mkdir" ELSE "idle"]
    /\ \E m \in Modes : op = [a \in Actors |-> IF a = Starter THEN m ELSE "none"]
    /\ seen = [a \in Actors |-> Unseen]
    /\ reply = [a \in Actors |-> "none"]

Next ==
    \/ Start \/ Runner \/ Command \/ CommandEnds \/ Kernel \/ RunnerCrash
    \/ \E c \in Clients : Request(c)
    \/ \E a \in Actors : Actor(a)
    \/ Finished

Spec == Init /\ [][Next]_vars

\* Every process of rxd that can take a step takes one, the kernel reaps, and
\* the forked command reaches its program.  Nothing makes a program end, a
\* client come, or a process crash.
Fairness ==
    /\ WF_vars(Start) /\ WF_vars(Runner) /\ WF_vars(Command)
    /\ WF_vars(ReapRunner) /\ WF_vars(ReapCommand) /\ WF_vars(ReapHolder)
    /\ \A a \in Actors : WF_vars(Actor(a))

FairSpec == Spec /\ Fairness

-----------------------------------------------------------------------------
(* Properties *)

Requests == Ops \cup Modes \cup {"none", "poll"}
Sights   == [status : Statuses, pid : BOOLEAN, runner : BOOLEAN]
Replies  == Statuses \cup Fates \cup
              {"started", "error", "not_found", "timeout", "kept", "cleaned",
               "already_exited"}

SysTypeOK ==
    /\ dir \in {"absent", "present", "removed"}
    /\ status \in Statuses
    /\ files \subseteq FileNames
    /\ runner \in RunnerSteps \cup NotAlive
    /\ holder \in {"alive"} \cup NotAlive
    /\ command \in CommandSteps \cup NotAlive
    /\ fate \in Fates \cup {"none"}
    /\ sync \in {"empty", "pid", "zero"}
    /\ ready \in BOOLEAN

ActorTypeOK ==
    /\ pc \in [Actors -> Steps]
    /\ op \in [Actors -> Requests]
    /\ seen \in [Actors -> Sights]
    /\ reply \in [Actors -> Replies]

\* Every variable holds a value of its kind: the type invariant.
TypeOK == SysTypeOK /\ ActorTypeOK

\* The statuses that tell how the command really ended.
Recorded == {"exited", "exited127", "signaled"}

\* The FIFO is made before the runner and never again: once there is a runner,
\* a directory without it is one that somebody has begun to remove.
RemovalBegun == "stdin_pipe" \notin files

\* The command is over or can no longer come to be.
WillNotRun ==
    \/ command \in {"exit127", "zombie", "gone"}
    \/ /\ command = "unborn"
       /\ \/ runner \in {"fail_sync", "fail_holder", "zombie", "gone"}
          \/ reply[Starter] = "error"

\* As long as nobody has begun to remove the directory, whoever is told how
\* the command ended (status, wait, run, an exit code, a signal, or that exec
\* failed) is told how it did end, although the command, the runner and other
\* readers write the status and the exec_error marker with no lock
\* (resolve_state, and the order of the two writes in start).
AnswersAreTrue ==
    [][\A a \in Actors :
          reply'[a] # reply[a] /\ reply'[a] \in Fates /\ ~RemovalBegun
            => reply'[a] = fate]_vars

\* run answers how the command ended or that it still runs, and never
\* exited(unknown): runner_pid is recorded before the starter hears of the
\* command, and the runner outlives the exit it has to record.
RunReportsTheExit ==
    [][op[Starter] # "start" /\ reply'[Starter] # reply[Starter]
         /\ ~RemovalBegun
           => reply'[Starter] \in {fate, "timeout", "error"}]_vars

\* There was a runner; what it has not recorded it never will.
RunnerDead == runner \in {"zombie", "gone"}

\* What is promised to observers, behind the files: the record is kept until
\* a removal begins.
Promise == INSTANCE ManagedProcess WITH
    Observers <- Actors, Ends <- Fates, Answers <- Replies,
    over <- WillNotRun, recorder <- ~RunnerDead, told <- reply,
    kept <- runner = "unborn" \/ ~RemovalBegun

\* With no kill, the lock-free steps implement ManagedProcess: besides what
\* AnswersAreTrue says, an end is decided once, self-healing answers
\* exited(unknown) only when the runner is dead and never of a newborn, and
\* no process loses its files to clean or to an ephemeral run while its
\* command may run and its runner lives (resolve_state, remove_process_dir).
KeepsItsPromise == Promise!Spec

\* When kill has answered Killed to a client that learned the id from start,
\* the command is dead: SIGKILL follows the SIGTERM a program ignores, for
\* every pid that was on record.
KilledMeansDead ==
    \A a \in Actors : reply[a] = "killed" /\ op[a] = "kill" => WillNotRun

\* kill never overwrites a recorded exit with exited(killed), although nothing
\* locks the status between record_kill_outcome's read and its write: the
\* runner it signalled is dead by then.
KillKeepsTheTruth ==
    [][(status \in Recorded) => status' # "killed"]_vars

\* A recorded exit stays until the files are removed.
TruthIsFinal ==
    [][(status \in Recorded) => status' \in {status, "none"}]_vars

\* start never hangs: whatever fails in the runner or the command before exec
\* releases it from the two pipes it reads.
StartAnswers == <>(pc[Starter] \notin StartSteps)

\* When the command is over, or could not be forked, the status leaves
\* "running", by the runner, by the kill that killed it, by whoever heals, or
\* by removal, and the stdin holder goes: neither stays behind for good.
EndsAreSettled ==
    command = "zombie" \/ runner = "fail_sync" ~> status # "running" /\ ~Alive(holder)

\* Whoever waits is answered once the command is over, without needing the
\* timeout, unless the directory is removed under the waiter.
WaitersAreAnswered ==
    \A a \in Actors :
        pc[a] = "sleep" /\ command \in {"zombie", "gone"}
          ~> pc[a] = "done" \/ RemovalBegun

=============================================================================
