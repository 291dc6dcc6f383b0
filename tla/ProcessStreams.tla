--------------------------- MODULE ProcessStreams ---------------------------
(***************************************************************************)
(* A managed process as those see it who feed its stdin and read its       *)
(* output, from the answer of start on: the FIFO with the processes that   *)
(* have it open, the stdout file, the status, and the end of the process.  *)
(* How the status is written and healed, file by file, is the subject of   *)
(* ProcessLifecycle; here each of these is one step.                       *)
(***************************************************************************)
EXTENDS Integers, Sequences

CONSTANTS
    Feeders,   \* the rxd invocations that write to or close stdin
    PipeSize,  \* how many units the FIFO holds
    MaxOut,    \* how many units the command may write to stdout
    MayKill,   \* whether a client may kill the process
    MayClean   \* whether a client may clean it up once it has ended

ASSUME StreamsAssumption ==
    /\ PipeSize \in Nat \ {0}
    /\ MaxOut \in Nat
    /\ MayKill \in BOOLEAN
    /\ MayClean \in BOOLEAN

VARIABLES
    dir,       \* whether the process directory is there
    status,    \* the status file: "running", or "ended" for any other
    command,   \* "reads" its stdin, has "shut" it, is a "zombie", is "gone"
    runner,    \* what the runner does next: "waitpid", "write_status",
               \* "kill_holder", "exit", or "gone"
    holder,    \* the stdin holder: "paused", "zombie" or "gone"
    killer,    \* the kill request: "idle", "termed", "killed", "done"
    fifo,      \* the units in the FIFO; a unit names its feeder and place
    opened,    \* the feeders that have the FIFO open for writing
    consumed,  \* the units the command has read
    eof,       \* whether the command has read the end of its input
    out        \* the length of the stdout file; its units are 1, 2, ...

pipeVars    == <<fifo, opened, consumed, eof>>
processVars == <<command, runner, holder>>
streamVars  == <<dir, status, processVars, killer, pipeVars, out>>

Unit == Feeders \X (Nat \ {0})

-----------------------------------------------------------------------------
(* The FIFO *)

\* The holder has it open O_RDWR, so it is a reader as well as a writer.
HasReader == holder = "paused" \/ command = "reads"
HasWriter == holder = "paused" \/ opened # {}

\* The pipe's buffer goes with the last descriptor.
Kept(h, c, os) == IF h = "paused" \/ c = "reads" \/ os # {} THEN fifo ELSE <<>>

\* SIGTERM ends the holder; it stays a zombie as long as its parent, the
\* runner, which does not wait for it.
KilledHolder ==
    IF holder # "paused" THEN holder ELSE IF runner = "gone" THEN "gone" ELSE "zombie"

-----------------------------------------------------------------------------
(* The command: any program *)

CommandReads ==
    /\ command = "reads" /\ fifo # <<>>
    /\ consumed' = Append(consumed, Head(fifo))
    /\ fifo' = Tail(fifo)
    /\ UNCHANGED <<dir, status, processVars, killer, opened, eof, out>>

CommandReadsEnd ==
    /\ command = "reads" /\ fifo = <<>> /\ ~HasWriter
    /\ eof' = TRUE
    /\ UNCHANGED <<dir, status, processVars, killer, fifo, opened, consumed, out>>

CommandShutsStdin ==
    /\ command = "reads"
    /\ command' = "shut"
    /\ fifo' = Kept(holder, command', opened)
    /\ UNCHANGED <<dir, status, runner, holder, killer, opened, consumed, eof, out>>

CommandWrites ==
    /\ command \in {"reads", "shut"} /\ out < MaxOut
    /\ out' = out + 1
    /\ UNCHANGED <<dir, status, processVars, killer, pipeVars>>

CommandEnds ==
    /\ command \in {"reads", "shut"}
    /\ command' = IF runner = "gone" THEN "gone" ELSE "zombie"
    /\ fifo' = Kept(holder, command', opened)
    /\ UNCHANGED <<dir, status, runner, holder, killer, opened, consumed, eof, out>>

-----------------------------------------------------------------------------
(* The runner *)

RunnerReaps ==
    /\ runner = "waitpid" /\ command = "zombie"
    /\ runner' = "write_status" /\ command' = "gone"
    /\ UNCHANGED <<dir, status, holder, killer, pipeVars, out>>

\* Nobody kills the holder of a process that ended.
RunnerWritesStatus_leaves_holder ==
    /\ runner = "write_status"
    /\ runner' = "exit"
    /\ status' = IF dir THEN "ended" ELSE status
    /\ UNCHANGED <<dir, command, holder, killer, pipeVars, out>>

RunnerWritesStatus ==
    /\ runner = "write_status"
    /\ runner' = "kill_holder"
    /\ status' = IF dir THEN "ended" ELSE status
    /\ UNCHANGED <<dir, command, holder, killer, pipeVars, out>>

RunnerKillsHolder ==
    /\ runner = "kill_holder"
    /\ runner' = "exit"
    /\ holder' = KilledHolder
    /\ fifo' = Kept(holder', command, opened)
    /\ UNCHANGED <<dir, status, command, killer, opened, consumed, eof, out>>

\* Its zombies go to init, which reaps them.
RunnerExits ==
    /\ runner = "exit"
    /\ runner' = "gone"
    /\ holder' = IF holder = "zombie" THEN "gone" ELSE holder
    /\ UNCHANGED <<dir, status, command, killer, pipeVars, out>>

Runner == RunnerReaps \/ RunnerWritesStatus \/ RunnerKillsHolder \/ RunnerExits

-----------------------------------------------------------------------------
(* Other requests: kill, clean, and what they and others do to the status *)

\* The whole group gets SIGTERM; the command may survive it.
KillTerm ==
    /\ MayKill /\ killer = "idle" /\ dir /\ status = "running" /\ runner # "gone"
    /\ killer' = "termed"
    /\ runner' = "gone" /\ holder' = "gone"
    /\ \/ command' = "gone"
       \/ command \in {"reads", "shut"} /\ command' = command
    /\ fifo' = Kept(holder', command', opened)
    /\ UNCHANGED <<dir, status, opened, consumed, eof, out>>

KillKill ==
    /\ killer = "termed"
    /\ killer' = "killed"
    /\ command' = "gone"
    /\ fifo' = Kept(holder, command', opened)
    /\ UNCHANGED <<dir, status, runner, holder, opened, consumed, eof, out>>

KillRecords ==
    /\ killer = "killed"
    /\ killer' = "done"
    /\ status' = IF dir THEN "ended" ELSE status
    /\ UNCHANGED <<dir, processVars, pipeVars, out>>

Killing == KillKill \/ KillRecords

\* resolve_state heals a status that says running when all of the process
\* is gone; a status it cannot read is no state.
Over     == dir /\ (status = "ended" \/ (command = "gone" /\ runner = "gone"))
Resolved == status' = IF Over THEN "ended" ELSE status

\* remove_process_dir ends the runner and the holder, if they are still there.
RemoveProcessDir ==
    /\ dir' = FALSE
    /\ runner' = "gone"
    /\ holder' = "gone"
    /\ fifo' = Kept(holder', command, opened)
    /\ UNCHANGED <<status, command, killer, opened, consumed, eof, out>>

Clean == MayClean /\ Over /\ RemoveProcessDir

-----------------------------------------------------------------------------

StreamInit ==
    /\ dir = TRUE /\ status = "running"
    /\ command = "reads" /\ runner = "waitpid" /\ holder = "paused"
    /\ killer = "idle"
    /\ fifo = <<>> /\ opened = {} /\ consumed = <<>> /\ eof = FALSE
    /\ out = 0

ProcessNext ==
    \/ CommandReads \/ CommandReadsEnd \/ CommandShutsStdin \/ CommandWrites \/ CommandEnds
    \/ Runner
    \/ KillTerm \/ Killing \/ Clean

StreamTypeOK ==
    /\ dir \in BOOLEAN
    /\ status \in {"running", "ended"}
    /\ command \in {"reads", "shut", "zombie", "gone"}
    /\ runner \in {"waitpid", "write_status", "kill_holder", "exit", "gone"}
    /\ holder \in {"paused", "zombie", "gone"}
    /\ killer \in {"idle", "termed", "killed", "done"}
    /\ fifo \in Seq(Unit) /\ Len(fifo) <= PipeSize
    /\ opened \subseteq Feeders
    /\ consumed \in Seq(Unit)
    /\ eof \in BOOLEAN
    /\ out \in 0 .. MaxOut
=============================================================================
