# A TLA+ model of rem-exec

rem-exec runs commands on remote hosts for agents: the client `rx` sends one
JSON request over ssh to `rxd`, which starts, watches, feeds, waits for, kills
and cleans up *managed processes*, and installs and reads files.  No rxd stays
alive between requests; all that remains of a process between them is a
directory of small files and the kernel's process table.  This directory holds
TLA+ modules of that system, configurations that check them with TLC, and
proofs that TLAPS checks.

## 1. Inventory

Paths are relative to the repository.

| Component | Source | State | Operations | Hard behaviour |
|---|---|---|---|---|
| Managed process | `src/remote/start.rs`, `src/remote/actions.rs`, `src/process.rs` | the files `status`, `pid`, `runner_pid`, `stdin_holder_pid`, `exec_error`, `ended`, the FIFO; runner, holder, command; two pipes | start, run, status, list, wait, kill, clean | no lock anywhere; five kinds of process write the status; pids are read from files and signalled later; the runner can die |
| Process stdin | `actions.rs` `write_stdin`, `feed_fifo`, `pipe_stdin`, `close_stdin` | FIFO contents, the holder | write, pipe, close | EOF is the death of the holder; 30 s limit of a feed; blocking open |
| Process output | `actions.rs` `read_output`, `read_tail`, `follow` | growing `stdout`, `stderr` | stdout, stderr, follow, inlining | reads race the writer, the end and the removal |
| rpc dispatcher | `src/remote/serve.rs`, `src/bin/rxd.rs` | none | one request, one answer | order of its checks |
| File transfer | `actions.rs` `install_file`, `put`, `put_stream`; `serve.rs` `serve_get`; `src/framing.rs`; `src/bin/rx.rs` | temp file, target, stream | put, put from a stream, get | cut or changed streams, crash before the rename |
| Local daemon | `src/daemon/{server,state,mod}.rs` | socket, pid file, stop flag, known processes | start, stop, status, routing, dispatch | no lock: two daemons at once, a start against one that ends, a stop against requests in flight |
| Output cache | `src/daemon/stream.rs` | cache file, resume offset | follow, retry, read, clean | resumed stream; a cache behind the host answers beside a status from the host |
| ssh transport | `src/ssh.rs` | none | request, download, auto-deploy retry | transport fails after the command ran |
| Deploy | `src/deploy.rs` | rxd on the host, uploads, the local cache | probe, guard, fetch, upload, install, verify | the guard acts on an old probe; two calls; every ssh can break |
| rx client | `src/bin/rx.rs` | temp file of a get | routing, pipe mode, exit codes | exit codes of unknown ends |
| Protocol, errors | `src/protocol.rs`, `src/error.rs` | none | codes, retryable, exit codes | tables |
| Host identity, paths | `src/remote/hostinfo.rs`, `src/lib.rs` | none | ping | none |

How they interact: `rx` asks its local daemon over a Unix socket when `RX_DAEMON`
is set and one runs, and uses ssh otherwise; both end in `rxd serve` on the host, which calls one function
of `actions.rs`.  The functions share nothing but the process directory.
`start` forks the *runner* (a new session), which forks the *stdin holder*
(keeps the write end of the FIFO open) and the *command*; the runner records
its own and the holder's pid, tells the starter the command's through the sync
pipe, waits, writes the final status and kills the holder.  The starter writes
`pid`, waits on the ready pipe until the command has opened its stdin, and
answers.  Everybody else reads the files, probes pids with `kill(pid, 0)`, and
`resolve_state` *heals* a "running" status whose processes are gone.

What makes the components correct, and what is hard to test in each, is listed
line by line in `PROJECT.json` under `hazards`.

## 2. What is modelled: `ProcessLifecycle`

One managed process from `start` to the removal of its directory, with one
starter (serving `start`, `run`, or an ephemeral `run`) and any number of other
rxd invocations, the clients, each serving one request.

| Variable | In the code |
|---|---|
| `dir`, `status`, `files` | the directory, the content of `status`, and which other files are there with their content |
| `runner`, `holder`, `command` | the next step of each process, or `unborn`, `zombie`, `gone` |
| `fate` | how the command ends: `exited` (any code), `exited127`, `signaled`, `execfailed` |
| `sync`, `ready` | the two pipes of `start` |
| `pc`, `op` | the next line each actor executes, and its request |
| `seen` | what an actor has read and not used yet: the status, whether `pid` and `runner_pid` were there |
| `reply` | what an actor answered |

Every access to a file, every fork, probe, signal and pipe operation is one
action, named after the function and the step (`ResolveReadStatus`,
`RunnerWriteStatus`, `KillTerm`, ...).  `Start` is the parent branch of `start`
and the rest of `run` up to its polling; `Runner` and `Command` are the two
child branches; `Resolve(a)` is `resolve_state` with what `status`, `wait`, `run`
and `clean` make of its result; `Remove(a)` is `remove_process_dir`; `Kill(a)` is
`kill` with `record_kill_outcome`; `Kernel` is init reaping orphans: the runner
stays a zombie, visible to `kill(pid, 0)`, for as long as its parent, the rxd
that serves a `run`, lives.  `list` is `status` on each entry.

The parameter `Faults` names the system calls of `start` that may fail, `Ops`
and `Modes` what is asked, `RunnerMayCrash` whether a signal from outside may kill the runner,
and `EarlyIds` whether a client may know the id before `start` has answered.
The code allows the last: `list` and `clean` read the base directory, where the
id appears with the first status.

Abstractions:

- Exit codes other than 127 are one value, signals are one value.  127 is kept
  apart because exec failures are told from it.
- `write_status` is one step: the temp file is private to its writer, and rename is
  atomic.  `fs::write` of a pid is one step: a reader of the still empty file
  parses no number and acts as if it were not there.
- `remove_dir_all` is two steps, all files and then the directory; a reader
  between two of its unlinks sees what it can also see by reading one file before
  and the next after.  A write between the two steps makes the rmdir fail, and
  the directory stays.
- Time: a poll may time out at any moment; the 200 ms of `kill` are one step in
  which anything may happen.
- A program may end at any time in any way, and may ignore SIGTERM; before
  execvp the command dies of it.  Programs do not leave the process group.
- Pids are not reused, and writes do not fail while the directory is there.
- `run` does not feed stdin in this module; section 4 does that.

`ManagedProcess` is what all this is for, without the files: a command has one
fate, decided once (`Decide`); observers are told it, or that it runs, and
`exited(unknown)` only when no runner is left to record it (`Tell`, `Tellable`);
the record is removed only when the command is over or has no runner
(`Remove`).  `Promise` in `ProcessLifecycle` is the refinement mapping: `over` is
`WillNotRun`, `recorder` is `~RunnerDead`, `kept` holds until the FIFO's name has
gone, `told` is `reply`.  `KeepsItsPromise` says that the lock-free steps of
starter, runner, command, readers, healers and removers implement it when nobody
kills.  With a kill they do not: a kill records `exited(killed)` beside the fate.

## 3. What is modelled: file transfer

Puts to one remote path and gets from it. `RemoteFile` is the file system both
use, `Upload` the puts, `Download` the gets, `Transfer` composes them, adds the
loss of power and states the specification.

| Variables | In the code |
|---|---|
| `data`, `temps`, `history` | the content of each file, the `.rxd-put` files, and the files the path has named, the last one now |
| `perms`, `synced`, `flushed` | mode and owner granted, `sync_all` of the file, `sync_all` of the directory |
| `contents` | every content a reader could find: what the properties compare a get with |
| `rx`, `size`, `sent`, `ended`, `wire`, `link`, `result` | `put_file`, `put_stdin`, `serve_with_body`: the client, the size it declared, its source, the pipe through ssh, what it reports |
| `rxd`, `remaining`, `answer`, `unsynced` | `put`, `put_stream`, `FramedReader`, `install_file`: the next step, its answer, and whether an fsync failed |
| `getter`, `declared`, `staged`, `local`, `dest`, `outcome` | `do_get` with `receive_to_temp` and `commit_temp` |
| `server`, `exit`, `opened`, `length`, `pos`, `pipe`, `wireUp` | `serve_get` |
| `writer`, `edits` | another program on the host that changes the file in place |

Every system call of `install_file` is an action, with the error it answers
when it fails; every frame, unit and trailer read is one; `RxAnswer` is the table
at the end of `serve_with_body`.  `Cut` leaves a prefix of what is under way,
which is a cut at any byte; `RxdKilled` and `ServerKilled` end rxd at any step,
`PowerLoss` the whole host: of a file that was not synced any part is left, and
renames that the directory on the disk does not know of may be undone.

Abstractions:

- A byte is a *unit*; the unit at place k of a put's source is the number k + 1, so
  that order, loss, doubling and mixing are visible.  `io::copy` moves one unit
  at a time; a `read_exact` that ends early throws away what it had, and so does the
  model, since the file is removed.
- The request line is one message, and the buffers of ssh, sshd and the kernel are
  one pipe in each direction.
- A local source is read until it ends, which may be before or after the size
  that was declared: the file may change while it is sent.
- Failing fsyncs are ignored by the code; `unsynced` marks those puts, and
  `InstalledIsWhole` and `CopiedSurvives` speak of the others.
- A killed rx and a broken ssh are the same `Cut`: rxd sees its stdin end.  What rx
  prints after `Cut` is then never read; nothing depends on it.
- The destination of a get is one file; a crash of the local host is not modelled.
- `put_stdin`'s probe of the host and `put_file`'s retry after a deploy are in
  `Deploy` (section 5), where a put is one step.

## 4. What is modelled: stdin and output

The bytes of one process, from the answer of `start` on.  `ProcessStreams` is the
process as its users see it, `StdinFeed` the writers of its stdin, `OutputRead`
the readers of its output, `Streams` composes them: a run is an actor of both,
it feeds, closes, and then waits and reads (`RunWaits`).

| Variables | In the code |
|---|---|
| `dir`, `status` | the directory and its status, reduced to running and ended |
| `command`, `runner`, `holder` | the three processes; `command` tells whether it still reads its stdin |
| `killer` | one `kill` with its two signals and `record_kill_outcome` |
| `fifo`, `opened`, `consumed`, `eof` | the FIFO, who has it open for writing, what the command has read, and whether it has read the end |
| `out` | the length of the stdout file |
| `ask`, `size`, `feed`, `taken`, `sent` | a feeder: its request, the length of its body, its next line, how much rxd has read of it and has written |
| `cut`, `gaveUp`, `told` | connections that broke, feeds that ran into the 30 s, what the client is told |
| `want`, `read`, `seen`, `found`, `answer` | a reader: its request, its next line, the size or place it knows, whether it could open the file, what it is told |
| `flight`, `got`, `breaks` | what `follow` wrote and has not arrived, the client's copy (the daemon's cache file, the inlined tail, the pages drained so far), broken connections and dead daemons |

`Look` to `WriteBroken` are `write_stdin`, `feed_fifo`, `write_all_nonblocking`, and
`pipe_stdin` where it does the same with a blocking open; `Receive`, `ReceiveEnd` and
`PipeKills` are the rest of `pipe_stdin`; `Tell` is what
`pipe_local_stdin_to_remote` makes of its exit; `Close...` is `close_stdin`.
`PollEnded` to `EphemeralClean` are `await_exit_or_timeout`, `read_tail` and
`maybe_ephemeral_clean`; `Follow...` is `follow`, one system call an action; `Arrive`,
`StreamEnds` and `Break` are `run_follow` and `stream_with_retry`, or ssh under
`rx follow`.  `CacheSpawn`, `CacheCleared`, `CacheRunsOut` and `CacheLost` are the life of a
cache file in the daemon: made by the thread that `handle_start` spawns, unlinked by a
clean of the host (also under a thread that still writes), left behind as it is by a
daemon that ends.  `Drain` is the loop by which a client gets all of an output, status
and then pages until the size is the offset: `DrainAsk` is `status`, `DrainRead` is
`read_output` on the host or `handle_read` on the cache, whichever the call is routed to.
A page that ends at the size, behind a status of exited, is the answer `drained` in either
case: nothing in it tells a client that a cache is behind its host.

Abstractions:

- A unit of stdin names its feeder and place, so that order, loss and mixing are
  visible.  A write takes as many units as there is room for; that the kernel
  does not split a write of up to 4096 bytes is not used.
- A unit of output is its place in the file.  One stream stands for two: stdout
  and stderr are read by the same code and share nothing.
- How the status is written, healed and raced is `ProcessLifecycle`'s subject: here it
  is one step, and the pid files are there.  The zombie holder is kept, because
  `kill_stdin_holder` takes it for a live one.
- 30 s may be over whenever the FIFO is full, a poll may time out at any moment.
- When a connection breaks, what is under way to the client is lost.  The `follow`
  left on the host goes on for nobody and is dropped.
- A command's descendants that outlive it, and then still write, are not modelled.
- A drain goes on from what it has.  (`docs/llm.txt:270` tells a client to pass the size
  back as the next offset, which skips what lies behind the limit of a page.)
- The status request that precedes a pipe (`preflight_piped_write`) is not modelled; it
  changes nothing.

## 5. What is modelled: requests and deploy

`Deploy` is one host and the calls of rx to it.  A call is an rx of some version with its
`RX_AUTO_DEPLOY`: a request in one of the three forms it takes
(`serve_request_auto_deploy` for everything that can be sent twice, `put_file`,
`put_stdin`), or `rx deploy` with its options.

| Variables | In the code |
|---|---|
| `live`, `staged` | `~/.local/bin/rxd` of the host and the `.rxd-deploy.PID.tmp` file of each pid: a build, a part of one or a mixture (`torn`), or nothing |
| `open` | where the file is that a call's scp is writing to: under the temporary name, under that of rxd when another call has renamed it there, or under none |
| `cached` | whether the rxd of its own version is in the call's `~/.local/share/rem-exec/bin` |
| `setup`, `step` | what the call is, with the pid of its rx, and its next step |
| `saw`, `err` | the result of its last `remote_deploy_status`; which telling words the error it holds contains |
| `told` | the object it prints: the answer of the host, a code, `deployed` or `current` |
| `ran`, `fetched`, `installer`, `overtaken` | for the properties: how often the host carried the request out, who downloaded, who installed, and whether an rxd was replaced by an older one or spoilt |
| `clashed`, `mixed`, `misled` | for the exceptions of the properties: the calls that had one temporary name at the same time, those of them that write into one file, and those that took an error for a missing rxd by words that say nothing of it |
| `cuts` | connections that broke |

`ServeRuns` and `ServeRefuses` are one `serve_request`: the host acts, or not, and the answer
arrives, or not.  `Failed` is what the three forms make of an error, `AutoProbe` and
`StreamProbe` their probes, `Report` is `transport_error_json`.  `DeployProbe` to
`Verify` are `deploy_to_host_with`, one ssh or scp an action (two for scp, which
writes for a while); `DeployFails` and `DeployEnds` are what its callers do next.
An ssh that breaks does so before the host has acted or after, and leaves any words
(`CutErrors`): those that `classify_ssh_failure` knows or none, with or without a phrase of
`should_auto_deploy`.  For the error is all of ssh's stderr (`ssh.rs:343-348`), and what the
host's login scripts print is in it (`ssh.rs:290-293`).  `LooksOld` is what
`should_auto_deploy` makes of the words, `Take` what `deploy_status_from_probe_error` does.

Abstractions:

- A build is its version and protocol.  The other versions of rx deploy like this
  one.  Of an rxd of another protocol only this is used: an older one has no
  `serve`, a newer one may carry the request out, reject it, or answer what this
  rx cannot parse.  A version that cannot be ordered, and two builds of one
  version, are not modelled.
- `binary_for_arch` is one step: the download goes to a private file that is renamed.
  Its failure has one class, and architectures are left out.
- `chmod` and `mv` fail with their connection, or because the file has gone; `mv` is a
  rename on one file system.
- Pids may coincide: the calls may come from several machines or containers, and the
  temporary name has nothing but the pid in it (`deploy.rs:573`).  Two scp's to one file
  leave what either has written or a mixture of both; an `mv` takes the file with whoever
  writes to it.  An rxd that is open for writing cannot be executed (ETXTBSY), so it is
  met like a torn one.  `chmod` is assumed to reach the file that is under the name.
- Words of the host in the error of a request that was refused are those of the refusal; login
  scripts that print what ssh would say of a broken connection can only make such a call
  give up where it could have deployed, and are left out.
- A running rxd keeps its file when the path changes; a request is one step on the
  host.

## 6. What is modelled: the local daemon

`Daemon` is a machine's calls of rx, the daemons they fork, and the two files by which
they meet.  A daemon has the name of the call that forked it.

| Variables | In the code |
|---|---|
| `sock`, `pidfile` | whose socket `daemon.sock` is, whose pid `daemon.pid` holds |
| `daemon`, `stop` | the next step of each daemon, from its fork to its exit; its stop flag |
| `queue` | connections its listener holds and has not accepted: of a call, or of a probe |
| `call`, `op`, `told` | a call: its next step, its command, what it answers |
| `server`, `conn` | the daemon a request is connected to, and how far it has got: sent, accepted, read to its end, answered, or reset |
| `promised` | for `RunningMeansRunning`: a start has answered running, and nobody has asked for a stop or killed a daemon since |
| `manners` | how calls follow each other, fixed at the start |

`Begin` to `StartVerify` are `start_daemon`, `Send...` is `send_request` with what `stop_daemon`,
`daemon_status` and `route_via_daemon` make of it, `Route` the choice between daemon and ssh
under `RX_DAEMON`; `Daemon...` is the child of `start_daemon` with `run_server`, one system call an
action; `Handler...` is `handle_connection` and `dispatch`.  `Connects` is connect(2): it finds
whatever has the name, if it listens.

Abstractions:

- A connection is a queue entry and its stage.  A listener that closes, and a process that
  ends, reset what was not answered.  The backlog has no limit.
- The 200 ms between fork and verification are enough for an undisturbed child in the
  manners `sequential` and `settled`, and arbitrary in `any`.
- What a request does on the host is one step, `HandlerAnswer` (sections 2 to 5 model it);
  the daemon's table of processes is the cache of section 4.  `status` takes the way of a
  request that found its daemon.
- A daemon is killed from outside only in the manners that `Killing` names.

`manners` splits what is promised.  `any`: calls interleave at will; every call is still
answered (`CallsEnd`), and a daemon that took a stop ends unless its name was taken from it
(`StopEndsIt`).  `settled`: a call begins when the last has answered and no daemon is
starting or ending; then files and daemon belong together, and killed daemons are
replaced.  `sequential` (not run) lies between: calls follow each other
without a pause; what goes wrong there is below.

## 7. Runs

TLC instances are in `MCProcess`, `MCTransfer`, `MCStreams`, `MCDeploy` and `MCDaemon`, one `.cfg` per run.  Deadlock is
checked everywhere but in `get_wedged`, whose subject it is: `Finished` is enabled
only when every actor has answered and every process has ended.

| Run | Instance | Shows |
|---|---|---|
| `process_observe` | 2 clients × status, wait, clean; start, run, ephemeral; setup, forks and exec may fail; the runner may be killed at any step; early ids | `AnswersAreTrue`: an exit, signal or exec failure that is told is the real one. `RunReportsTheExit`: run never answers exited(unknown). `KeepsItsPromise`: the steps implement `ManagedProcess`, so no newborn or living process is healed or removed. No deadlock: start does not hang after a crash |
| `process_control` | 2 clients × wait, kill, clean; start, run; FIFO, the forks of holder and command, chdir and exec may fail; ids from start; fair | `KilledMeansDead`, `KillKeepsTheTruth`, and the liveness properties `StartAnswers`, `EndsAreSettled` (the end is recorded, and the holder goes, also when the command could not be forked), `WaitersAreAnswered` |
| `process_truth_final` | 1 client, wait | a violation: `TruthIsFinal` |
| `process_kill_newborn` | 1 client, kill, early id | a violation: `KilledMeansDead` |
| `upload` | 2 puts to one path, p1 of either kind with every request and fault, p2 plain; a loss of power; up to 2 units | `InstalledIsWhole`: the path names the old file or a whole new one with its mode and owner. `ReportsAreTrue`: copied means installed, an answered error means not installed and no temporary file. `CopiedSurvives`: what was reported copied is on the disk |
| `transfer` | 1 streamed put, 1 get, a program that appends to or cuts the file; up to 3 units over pipes of 1; fair | `NeverTorn`, `FailedGetLeavesNothing`, `FileChangedIsTrue`, and that neither side hangs: `PutsAnswer`, `UndisturbedGetsAnswer` |
| `get_torn` | 1 get, a program that rewrites in place | a violation: `NeverTorn` |
| `get_wedged` | 1 get whose local disk fails; fair | a violation: `GetsAnswer` |
| `streams_stdin` | a run that feeds and closes; a write, pipe, pipe without close, or close; bodies of up to 2 units, a FIFO of 1; fair | `FedInOrder`: each feeder's bytes arrive once and in order. `WrittenIsTrue`: who is told written has written all, who is told closed finds stdin closed. `EndIsAsked`: the command reads an end of input only behind the whole body of one who asked for it. `FeedsEnd`: no feed hangs, whatever the command does |
| `streams_output` | an ephemeral run; a follow, daemon cache or wait; a drain; a kill, a clean, a broken connection or a dead daemon; up to 2 units of output against caps of 1; fair | `CacheIsPrefix`, `EndedIsWhole`: what a follower, the cache or a drain has is the beginning of the output, and all of it when a stream is told to be at its end. `TailIsTrue`: output that is inlined is the last of it, as much as the cap allows, and an ephemeral run removes only what it showed. `StreamsEnd`: a stream and a drain end with the process |
| `deploy` | 2 calls, whose pids may be one, by builds of three protocols, against every rxd and none, caches full or not; one broken connection, in any words | `AtMostOnce`: the retry carries a request out twice only if the words of an error misled it. `LiveIsWhole`: rxd's path names part of an upload only if a temporary name was shared. `DeployedIsOwn`: deployed means one's own build, which one can talk to, for whoever had the name to itself. `PolicyIsKept`, `SparesTheNewer`: hosts change and builds are fetched only as policy, versions and options allow. `StreamIsNotWasted`: `put -` reads no stdin for an rxd that is behind |
| `daemon` | 3 calls × start, stop, request; `any` manners, or `settled` with daemons that are killed; a start may fail before its fork; fair | `FilesNameTheDaemon`: the files are the serving daemon's, and gone after a stop. `StaleIsReplaced`: a start succeeds whatever a killed daemon left. `RunningMeansRunning`: what start answered stays true until a stop. `StopEndsIt`, `CallsEnd`: in any interleaving a stopped daemon ends and every call is answered |

Bounds of the process runs.  Two clients and the starter are three concurrent users of one
directory.  The hazards are races of one reader with one writer, or of two
writers; the third actor supplies the event that makes the race visible.  Each
client serves one request, because an rxd invocation serves one; there is no
counter to bound.  Processes are independent, since they share no file, so one
is enough.

Bounds of the transfer runs.  Two puts compete for the path: a third would only
rename once more.  Two units, read in chunks of one or two, give an empty
body, one frame, two frames, a cut between frames and inside one, and a source
longer and shorter than declared; three units over a pipe that holds one are a body
that does not fit into the pipe, which the deadlock properties are about.
`MaxLen` bounds files and sources, `MaxEdits` the changes in place: one change
before, during or after a read.  The two runs split what multiplies badly: faults
and power in `upload`, a concurrent reader and fairness in `transfer`.

The two process runs split requests, faults and failures of `start`: observers, crashes and
early ids in one, kills and fairness in the other, and the steps of `start` that may fail
divided between them.

Fairness of `Transfer` (`FairSpec`): every rx and rxd that can take a step takes one; reading
a source goes on until it ends.  Nothing is assumed of faults, of power or of other
programs.

Bounds of the stream runs.  Two feeders on a FIFO of one unit with bodies of two
make every write partial and every mixture possible; a third adds no kind of
mixture.  Two units of output, read two at a time, with caps of one for the removal and for
the inlined tail give output below, at and above both caps,
growth during every read, and a resume at the beginning, inside and at the end;
one broken connection (`MaxBreaks`) is one resume, or one daemon
that dies; a page of one unit (`Limit`) makes every drain a loop.  The stdin run leaves out kill,
clean and output, the output run a second feeder: they multiply, and each is
in the other run.

Fairness of `Streams` (`FairSpec`): the runner, a kill that has begun, and every rxd,
ssh and daemon thread that can take a step takes one.  Nothing is assumed of
the command (it may never read and never end), of timeouts, connections, or of
kill and clean; `FeedsEnd` therefore rests on the 30 s limit, which a full FIFO
reaches.

Bounds of the deploy run.  Two calls are a probe or an upload of one beside an
upload or a rename of the other; a call meets the others only through `live` and, with one
pid, through the temporary file, so a third adds no kind of meeting.  Two pids let the
calls share one or not.  The four builds are the relations an
rx can have to an rxd: an older protocol, an older build of its protocol without
`put_stream`, itself, a newer protocol.  One broken connection (`MaxCuts`) at any
step, with any words.  Every policy is used by every kind of request, and
each option of deploy by v2 or v3; the calls are interchangeable, which the symmetry
uses.

Bounds of the daemon run.  Three calls are a start beside a stop beside a third that comes
between, or start, kill, start; with two daemons competing for the name, a third call is
the one that takes it from both.  A fourth adds no kind of meeting in `any`, and in
`settled` repeats the first.

Fairness of `Daemon` (`FairSpec`): as long as an rx, a daemon or a thread can take a step,
one of them does.  Steps of one never disable those of another for good, and every call has
finitely many, so this weak form suffices.  No call has to come, no daemon is killed by
fairness.

Fairness of `ProcessLifecycle` (`FairSpec`): each rxd process that can take a step takes one, a forked
command reaches its program, and init reaps; these are schedulers and the
kernel, and nothing in the code can hold a step back.  No fairness is assumed
of a program's end, of clients, of a timeout, or of crashes.  In particular
`WaitersAreAnswered` does not use the timeout.

Each property of a passing run has a mutant, in the module just before the
definition it replaces: a dropped guard, an omitted step or a swapped order that
TLC finds the property to be violated by.

What the violations say:

1. `resolve_state` heals on a status it read before its probes.  If the command
   exits, the runner records `exited(N)` and init reaps it in between, the heal
   writes `exited(unknown)` over the recorded exit for good.  A `run` is immune
   (its runner stays a zombie until it has answered, `RunReportsTheExit`); `wait`,
   `status`, `list` and `clean` on a started process are not.
2. `kill` on a newborn sends nothing, records `exited(killed)` and answers Killed.
   `resolve_state` takes the same two missing files for a process that starts.
3. `get` compares the length of the file before and after.  A file rewritten in
   place at the same length, or cut and grown back to it, is delivered as a mixture
   and reported Got.
4. After a failure of its local disk `do_get` waits for ssh with the pipe open.
   When more is to come than the pipe holds, rxd, ssh and rx wait for one another.
   (The path after a complete body drains and closes the pipe first, and
   `UndisturbedGetsAnswer` holds.)

Six more disagreements are exceptions of a property instead of runs; each is a behaviour
of the model, and the property holds of everything else:

- The cache is behind.  Status comes from the host and pages from the cache, so a client
  can be told exited and then a size that is its offset while the cache is behind; when
  the daemon has died meanwhile it stays so, since the next daemon serves the file as it
  is.  `docs/llm.txt:270-271` says that this means fully drained.  Nothing in the answers
  tells a client, so no property claims it of the answer `drained`; what the client has
  is a beginning of the output (`CacheIsPrefix`).
- An emptied answer.  `wait` and `run` read the output after the poll that saw the exit.
  A clean in between removes it, and the answer is completed and empty, like that of
  a command that wrote nothing; `docs/llm.txt:268-269` says that completed inlines the
  last of it.  (`TailIsTrue`: `found`.)
- A misread error.  `put_file` deploys and sends again on the text of the error
  (`rx.rs:1286-1293`).  A put that was carried out, whose answer is lost on a host that
  prints "No such file", is sent twice, and the deploy in between finds its own build;
  `docs/llm.txt:394-396` says that the text is not what decides.  A `run` is probed first;
  it takes a broken answer and a broken probe with such words.  (`AtMostOnce`: `misled`.)
- One pid on two machines.  A call whose rx has the same pid truncates the upload of
  the first, whose `mv` makes that rxd, or writes to it there; `deploy.rs:565-566`
  says that the pid keeps uploads apart.  (`LiveIsWhole`, `DeployedIsOwn`,
  `StreamIsNotWasted`: `clashed`.)
- A downgrade.  The guard's probe is older than the upload, and `mv` does not look again:
  two calls that probe the same old rxd can install in the wrong order.  And a probe
  that tells nothing refuses nothing.  `docs/llm.txt:349-351` says that rx never
  downgrades.  (`SparesTheNewer`: `saw`; `AtMostOnce`, `StreamIsNotWasted`: `overtaken`.)
- A dying daemon.  A start right after a stop finds the listener of the daemon that ends
  and answers that one runs (`server.rs:126`; the comment at `server.rs:114-115` takes
  that for the state asked for).  (`RunningMeansRunning`: `settled`.)

Also seen, and not against any promise: a file that shrinks while it is read is
reported as incomplete_transfer and not as file_changed; a connection cut after
the last byte is reported as file_changed; a local file that grows while it is put
and is cut exactly at the size declared is installed; a killed rxd leaves its
`.rxd-put` file.

Of the streams: a command that reads slowly gets a shortened input from `run`,
ended as if it were whole, since `run` ignores that its feed gave up after 30 s
(`EndIsAsked` excepts such feeders); a pipe whose connection breaks ends the
command's input in the same way, though rx is told; `pipe_stdin` opens the
FIFO blocking, and waits for ever if the process ended after its look at the
status (the state `Stuck`); a `follow` that polls when the directory is removed
cannot read the status again and never ends (`StreamsEnd` assumes the directory);
a daemon that resumes after the removal is told the end of a stream of which it
has a part (`EndedIsWhole` speaks of streams that could be opened, and `TailIsTrue` of
answers whose output could be read); a second close of a stdin is answered like the first while the
runner lives, for the holder is a zombie then.

Of the processes: a `start` that fails after its first status write answers an error
and leaves a directory with a status of running and no pid files.  It looks like
a newborn and is reported as running for ever.

Of deploy: after an rxd was replaced by an older one a request that ran may be sent again.
A call that shares its temporary name can also be told deployed for the other's build of
its protocol.  `not_deployed` does not say that
the request did not run: an rxd of a newer protocol may have carried it out
before its answer was not understood.

Of the daemon: without a pause between calls its files are nobody's.  A daemon that ends,
or fails to bind, unlinks the name although it is another's by then (`server.rs:159-160`), and that
one serves on unseen, its stop flag never looked at; the answer to a stop can be lost to
the `exit(0)` of the main thread, and rx reports an error for a stop that succeeded.

Of the cache: a clean through the
daemon unlinks the cache files also of processes that run on.

Of exit codes: `exited(killed)` and `exited(unknown)` carry neither code nor signal, and
`run_exit` makes 0 of them.

Boundaries worth knowing: the liveness properties of `process_control` are for
clients that got the id from `start`.  With an id from `list`, a `clean` that
runs between the records of `runner_pid` and `stdin_holder_pid` of a command
whose exec fails at once leaves a holder behind.  A runner that dies before it
has told the starter the pid leaves a command that no file names.

## 8. Proofs

Every safety property that a passing run checks is also a theorem, for every value of
the constants.  Eight modules hold the proofs.  Where a theorem assumes more of the
constants than their types, it is what the run of the property assumes too, and the
reason is given below.

### `ProcessLifecycleProofs`

Checked by TLAPS for every set of clients, every `Modes`, `Ops`, `Faults`; the
assumption on the constants is `ConstantsAssumption`, which types them.

- `TypeCorrect`: `Spec => []TypeOK`, with or without crashes, early ids or not.
- `AnswersTrue`: if nobody kills, `Spec => AnswersAreTrue`, with crashes and early ids.
- `KilledIsDead`, `KillsKeepTruth`: `Spec => []KilledMeansDead` and `Spec => KillKeepsTheTruth`, if
  clients have the id from `start` (`~EarlyIds`) and nothing but rxd kills the runner
  (`~RunnerMayCrash`).

The argument of `AnswersTrue`: `AnswersAreTrue` speaks of one step, in which an
actor turns what it read, perhaps long ago, into an answer.  That needs the
inductive invariant `Truth`: a status that names an exit names the command's
(`Truthful(status)`); the same of every status an actor has read and still
holds, even when the file has changed since; such a status is never written
before the exec marker; the marker is there as long as nobody has begun to
remove files (`MarkerIsTrue`, which needs `FilesNeedDir`); and the fate is
decided exactly once along the steps of the command (`FateOfCommand`,
`RunnerOrder`).  `NextTruth` proves it action by action; all steps of readers and
healers go through the one lemma `ObserverTruth`.  `TruthAnswers` then reads the
answer off the invariant.  With kills the statement is false for a harmless
reason: a command about to `_exit(127)` may be reported so, and then die of the
signal instead.

The two theorems about kill have an inductive invariant of their own, `KillsOK`, since
`Truth` is of runs without kills; they share only `RunnerOrder` and `FilesNeedDir`.  The
question is what a killer may conclude that finds no pid: by `PipeIsTrue` and
`PidsOnRecord` both pids are on record before the starter goes on, so whoever comes
after it and misses one comes after a removal, or after a start that failed
(`NoPidMeansOver`), and then nobody is left who could write an exit (`Silent`).
`OverFirst` says that final statuses, healing and removals only come when the command is
over, and that a removal has killed the runner before it takes the runner's pid.
`KillsInOrder` carries that through the steps of one kill: after its signal the runner
is dead, after its escalation the command, so nothing can be written between the last
look at the status and `exited(killed)`.  Both assumptions are needed.  An early id is
the violation `process_kill_newborn`.  A runner that dies before the sync pipe leaves a
command whose pid nobody ever learns (section 7).

### `PromiseProofs`

- `PromiseKept`: if nobody kills, `Spec => KeepsItsPromise`, for every set of clients, every
  `Modes` and `Faults`, with crashes and early ids.
- `RunsReport`: if nobody kills, `Spec => RunReportsTheExit`, for the same.

`Promise!Init` is immediate; the work is `NextRefines`, that every step maps to a step of
`ManagedProcess` or a stutter.  It uses `Truth` and one more inductive invariant, `Keeping`.
Before the runner is forked nothing is written but the first status, and nobody has read
anything to act on (`Newborn`).  As long as nobody has begun to remove: whoever knows of
the command's pid finds the runner's (`RunnerOnRecord`); nobody heals, or has read unknown,
unless the runner is dead (`HealedLate`); and a final status that was written or read, and a
removal, mean that the command is over or has no runner (`RemovedLate` with `Settled`).
The subtle part is an actor that acts on a status it read long ago: what its probe found
stays true, since runners are not reborn.  After a removal has begun the invariant says
little, and the abstract specification promises little.  Most steps change
nothing it sees (`QuietStep`); answers go through `TellStep`.

`RunsReport` adds one small invariant, `HealedAfterwards`: the runner's pid is given back
only when the starter has answered, and before that nobody heals, nor reads a status
that was healed, because whoever probes has the runner's pid from the record
(`RunnerOnRecord`) and finds at least its zombie.  What run then answers is an exit, of
which `TruthAnswers` says that it is the command's.

### `TransferProofs` and `UploadProofs`

Checked for every set of puts and gets, any `Requests`, `PutFaults`, `GetFaults`,
`Writers`, with or without losses of power, and any sizes of chunks, frames and
pipes; the assumptions are `RemoteFileAssumption`, `UploadAssumption` and
`DownloadAssumption`, which only type the constants (`Original` is no put, sizes
are positive numbers).

- `TypeCorrect`: `Spec => []TypeOK`, of the four modules together.
- `InstallsWhole`: `Spec => []InstalledIsWhole`.
- `ReportsTrue`: `Spec => []ReportsAreTrue`.
- `CopiedStays`: `Spec => []CopiedSurvives`.

The three properties of `Upload` follow from one inductive invariant, `PutsOK`,
which is `TypeOK` and six named parts for each put.  None of the properties is
inductive, for two reasons.  First, that a file is whole when rxd leaves the
stream is decided by tokens that were sent long before and may still be on the
wire: `InOrder` says that the file is a prefix of the source, that the tokens on
the wire go on from its end (`Chain`), and, unless the connection was cut, that
they end where rx is (`EndOf`).  Then a total that arrives, or an end after the
size declared, can only arrive behind every byte it stands for.  Second, each
step of `install_file` relies on what the earlier ones did: `Staged` is the list
of what holds before each of its steps, `Placed` and `Answered` carry it on to
the path, to rxd's answer and to the report of rx.  `Quiet` and `Before` say when
rx sends no more, and not yet.

The proof goes put by put.  A step of one put, of a get or of another program
leaves the files, names and streams of the others undisturbed (`Undisturbed`,
`OthersUndisturbed`, `GetsDisturbNoPut`), the one place where puts to the same
path meet being the history of names, to which a rename appends (`AppendNames`,
`RenameNames`).  A loss of power shortens a file that was not synced and the
history that was not flushed; `PowerNames` says that what was durable survives.

### `DownloadProofs`

For the same constants as `UploadProofs`, which it extends.

- `FailsClean`, `ChangedIsTrue`: `Spec => []FailedGetLeavesNothing`, `Spec => []FileChangedIsTrue`.
- `GetsWhole`: if `"overwrite" \notin Writers`, `Spec => []NeverTorn`.

The first two follow from the inductive invariant `GetsOK`, which adds to the puts'
`PutsOK` five parts for each get.  `Framed` says that the header comes first and rx stages
no more than it declared, `Counted` that what rxd has sent is staged, under way, or was
cut off, `Served` why rxd may have failed: its exit tells of a file that has moved
(`Moved`), and rx turns that exit into file_changed only when it has reaped it.  `Tidy` is
the client's disk.

`GetsWhole` is the deep one: rxd reads a file that puts rename away and that a program
appends to or cuts meanwhile, and compares only lengths.  `GetsUntorn` relates the
units that are staged and in the pipe, by their places, to the file: as long as rxd
reads they agree with it as far as it goes (`Reads`), and when rxd has exited with
success, all of them, and the length, are one content the file has had (`Vouched`).  An
appending program keeps what was read; one that cuts the file leaves it
shorter than declared.  (One other program runs in a behaviour of the model, and it does one
of these things; one that cuts and then appends is the program that rewrites.)  A put never writes to a file that a reader can
find (`PutFiles`): it renames.  A program that rewrites in place
makes the statement false, which is the violation `get_torn`.

### `DeployProofs`

Checked for every number of calls, any `Builds`, any `Setups` and any number of broken
connections, in any words, with any pids, equal or not.  `DeployAssumption` says that builds
are ordered by `Rank` and that a later one speaks no earlier protocol; the
rest of it types the constants.

- `TypeCorrect`, `RunsAtMostOnce`, `StaysWhole`, `DeploysOwn`, `KeepsPolicy`:
  `Spec => []P` for `TypeOK`, `AtMostOnce`, `LiveIsWhole`, `DeployedIsOwn`,
  `PolicyIsKept`.
- `NeverDowngrades`, `StreamsWait`: `Spec => SparesTheNewer`, `Spec => StreamIsNotWasted`.

The exceptions are part of the statements: `RunsAtMostOnce` says nothing of a call that was
misled by the words of an error, nor of a host whose rxd was overtaken; `StaysWhole` and
`DeploysOwn` nothing of an installer that had shared its temporary name, `NeverDowngrades`
nothing of an rxd that the call's probe has not seen.  What they leave out happens (section 7).

All follow from one inductive invariant, `CallsOK`.  Two parts are of all calls together:
`Apart`, that whoever has a temporary name beside another has clashed, and `Opens`, where
the file of an scp can be, so that the path of rxd is written to only after a clash.  Of
each call, `Lawful`, `Prepared`, `Guarded` and `Installed` say what it has established by
its step: what it has staged under a name of its own is still there when it renames it
(`NamesKept`), a deploy that is not explicit has a policy that allows it, and whoever is
behind the guard has seen nothing that it spares.  `Onward` is the argument for the retry.
While no rxd is replaced by an older one or spoilt (`Forward`: whoever renames has compared
what it saw, and what it saw is what is there), versions on the host only grow, and what
a call knows of the rxd stays true of its successors (`KnownStays`).  So an rxd that
took a request, whose protocol is at least the caller's, stays that or is followed by a
later one; the caller's probes then see one of its own protocol, and it reports, or one of
a newer protocol, and the guard refuses, or nothing, and then its own install would be
the replacement by an older one that is excluded.  Hence `ran[c] # 0` keeps a call that
was not misled from ever reaching `retry`.  A step of one call leaves the others alone but
for the build that is there and the names they share (`StepsAreAlone`, `OthersKept`).

### `StreamsProofs`

Checked for every set of feeders and readers, any requests (`FeedOps`, `ReadOps`), any
sizes of bodies, output, FIFO, chunks, pages and caps, any number of broken
connections, with and without kill and clean; the assumptions `StreamsAssumption`,
`FeedAssumption` and `ReadAssumption` type the constants, and `RunAssumption` says that an
actor that feeds as a run also reads as one.

- `TypeCorrect`, `FeedsInOrder`, `WritesAreTrue`: `Spec => []P` for `TypeOK`, `FedInOrder`,
  `WrittenIsTrue`; `EndsWhenAsked`: `Spec => EndIsAsked`.
- `CachesArePrefixes`, `EndsAreWhole`, `TailsAreTrue`: `Spec => []P` for
  `CacheIsPrefix`, `EndedIsWhole`, `TailIsTrue`.

All follow from one inductive invariant, `StreamsOK`.  Of the process it says only
`Deaths`: whoever acts as if the command were over does so after its end.  Of each
feeder it says which step belongs to which request (`Asked`), what has been written when
something is told (`Said`), and, for `EndIsAsked`, that whoever goes on to end stdin of a
command that still reads has brought its whole body, or was timed out or cut off
(`Brought`); `Closed` says who may have ended the holder.  `Flowing` is the order: the
units that were consumed or are in the FIFO are, for each feeder, its first ones, in
order (`Ordered`), and all that it wrote as long as anybody has the FIFO open for reading
(`Holds`).  `EndIsAsked` is an action property; its proof is the one place where feeder,
holder and FIFO meet: an end is read when the FIFO is empty and no writer is left, then
the holder was ended by somebody who had brought everything, and all of that has been
consumed.

Of each reader, `Flow` says that the client's copy and what is in flight are the output's
beginning, numbered from 1, and `follow` reads on behind them; `Late` that a reader who
has seen the end, and then a size, has the final one; a reader who acts on a status it
read long ago may do so because the status, the end and the length of the output never
go back (`Onward`, what no step undoes).  That is why a cache that is cleared, or resumed
after a break, is again a beginning.  A step of one feeder or reader leaves the others
alone (`Spared`, `Passed`), so the proof goes actor by actor (`Owes`, `ReaderOwes`).

### `DaemonProofs`

Checked for every set of calls, any `Ops`, `Faults`, `Manners` and `Killing`.

- `TypeCorrect`: `Spec => []TypeOK`, in any manners.
- `FilesAreTheDaemons`, `StartSucceeds`: `Spec => []FilesNameTheDaemon`, `Spec => []StaleIsReplaced`.
- `PromiseHolds`: if `"chmod" \notin Faults`, `Spec => []RunningMeansRunning`.

The last three speak of calls that settle, which is in the properties (`manners = "settled"`);
of calls that follow each other without a pause the last is false (section 7).

There are two invariants.  `QueuesOK` holds in any manners: a listener holds only
connections of calls that are connected to it and were not accepted, each once.
`SettledOK` speaks of calls that settle: one call and one daemon at a time (`Alone`); how
far each has got against the other (`InStep`, `Beside`); and for each step of a daemon what
the files name, and which step a file's daemon may be in (`Named`, both ways round, since
start reads the files and the daemon unlinks them).  `Kept` is the promise of start.  The
subtle part is the queue: a stop ends a daemon through the connections in it, and after
an answer none of its own is left.  A chmod(2) that fails ends a daemon whose start
has already been answered, which is the code's order (`start_daemon` verifies the
process, not its listener); so `PromiseHolds` excludes it, as the run does.

### Only model-checked

Liveness (`StartAnswers`, `EndsAreSettled`, `WaitersAreAnswered`, `PutsAnswer`,
`UndisturbedGetsAnswer`, `FeedsEnd`, `StreamsEnd`, `StopEndsIt`, `CallsEnd`), which is out of the
prover's reach: it needs `ENABLED` and fairness.  The four violations are
counterexamples, which TLC finds.

## 9. Plan

| | Module | Models | Properties and theorems |
|---|---|---|---|
| 1 | `ProcessLifecycle`, `ManagedProcess`, `MCProcess`, `ProcessLifecycleProofs`, `PromiseProofs` (done) | as above | all safety properties are theorems |
| 2 | `ProcessStreams`, `StdinFeed`, `Streams`, `MCStreams`, `StreamsProofs` (done) | as above | all safety properties are theorems |
| 3 | `OutputRead` with the cache and the drain (done) | as above | all safety properties are theorems |
| 4 | `Daemon`, `MCDaemon`, `DaemonProofs` (done) | as above | all safety properties are theorems |
| 5 | `RemoteFile`, `Upload`, `Download`, `Transfer`, `MCTransfer`, `TransferProofs`, `UploadProofs`, `DownloadProofs` (done) | as above | all safety properties are theorems; next: an abstract atomic put implemented by `Upload` |
| 6 | `Deploy`, `MCDeploy`, `DeployProofs` (done) | as above | all safety properties are theorems |

Not modelled: the rpc dispatcher, which maps one request to one function; host identity,
paths and serde types, which keep no state; the tables of error codes, exit codes and
retryable, whose model would be their copy; the text of messages; ssh itself; the reuse of
pids; a deploy by daemon, which is `deploy_to_host` as in section 5.
