------------------------------- MODULE Daemon -------------------------------
(***************************************************************************)
(* The local daemon of rx: calls of rx that start it, stop it, ask for its *)
(* status or route a request through it, the daemons that starts fork, and *)
(* the two files by which they find each other, the socket and the pid     *)
(* file.  No lock is taken: a start looks, unlinks, forks and looks again, *)
(* a daemon that ends unlinks whatever has the name by then.               *)
(***************************************************************************)
EXTENDS Naturals, Sequences

CONSTANTS
    Users,      \* calls of rx, one command each
    Nobody,     \* no daemon
    Ops,        \* the commands: "start", "stop", "status", "request"
    Faults,     \* what may fail: "setup" (before the fork), "chmod"
    Manners,    \* how calls follow each other: "any" how, "sequential"
                \* (one after the other), "settled" (and none begins while
                \* a daemon starts or ends)
    Killing     \* the manners in which a daemon may be killed from outside

ASSUME DaemonAssumption ==
    /\ Nobody \notin Users
    /\ Ops \subseteq {"start", "stop", "status", "request"}
    /\ Faults \subseteq {"setup", "chmod"}
    /\ Manners \subseteq {"any", "sequential", "settled"}
    /\ Killing \subseteq Manners

VARIABLES
    manners,   \* how calls follow each other
    sock,      \* the daemon whose socket daemon.sock is
    pidfile,   \* the daemon whose pid daemon.pid holds
    daemon,    \* the daemon each call forked: its next step
    stop,      \* its stop flag
    queue,     \* the connections its listener holds: of a call, or Nobody's,
               \* which carries no request
    call,      \* the next step of each call
    op,        \* its command
    server,    \* the daemon its request is connected to
    conn,      \* how far its request has got
    told,      \* what it answered
    promised   \* whether a start has answered running, and nobody asked for
               \* a stop, or killed a daemon, since

files   == <<sock, pidfile>>
daemons == <<daemon, stop, queue>>
calls   == <<call, op, server, conn, told>>
vars    == <<manners, files, daemons, calls, promised>>

Starting  == {"write_pid", "bind", "listen", "chmod"}
Ending    == {"chmod_failed", "close", "unlink_sock", "unlink_pid", "exit"}
Dead      == {"unborn", "gone", "killed"}

\* Between listen(2) and the end of run_server a listener takes connections.
Listening == {d \in Users : daemon[d] \in {"chmod", "accept", "chmod_failed", "close"}}

Goto(u, l) == call' = [call EXCEPT ![u] = l]
Tell(u, v) == Goto(u, "done") /\ told' = [told EXCEPT ![u] = v]
At(d, l)   == daemon' = [daemon EXCEPT ![d] = l]

\* connect(2): what has the name must be the socket of one that listens.
Connects   == sock \in Listening
Connect(c) == queue' = [queue EXCEPT ![sock] = Append(@, c)]

\* is_running: a connection that is closed at once.
Probe == IF Connects THEN Connect(Nobody) ELSE UNCHANGED queue

-----------------------------------------------------------------------------
(* rx daemon start *)

Polite ==
    /\ manners # "any" => \A v \in Users : call[v] \in {"idle", "done"}
    /\ manners = "settled" =>
          \A d \in Users : daemon[d] \in Dead \/ (daemon[d] = "accept" /\ ~stop[d])

Begin(u) ==
    /\ call[u] = "idle" /\ Polite
    /\ \E o \in Ops :
          /\ op' = [op EXCEPT ![u] = o]
          /\ Goto(u, CASE o = "start" -> "exists" [] o = "request" -> "route" [] OTHER -> "connect")
          /\ promised' = (promised /\ o # "stop")
    /\ UNCHANGED <<manners, files, daemons, server, conn, told>>

StartExists(u) ==
    /\ call[u] = "exists"
    /\ Goto(u, IF sock = Nobody THEN "fork" ELSE "probe")
    /\ UNCHANGED <<manners, files, daemons, op, server, conn, told, promised>>

\* A socket that exists is replaced without a look at who listens.
StartProbe_skipped(u) ==
    /\ call[u] = "probe"
    /\ Goto(u, "unlink")
    /\ UNCHANGED <<manners, files, daemons, op, server, conn, told, promised>>

StartProbe(u) ==
    /\ call[u] = "probe"
    /\ Probe
    /\ IF Connects
       THEN Tell(u, "already") /\ promised' = TRUE
       ELSE Goto(u, "unlink") /\ UNCHANGED <<told, promised>>
    /\ UNCHANGED <<manners, files, daemon, stop, op, server, conn>>

\* A stale socket is left where it is.
StartUnlink_omitted(u) ==
    /\ call[u] = "unlink"
    /\ Goto(u, "fork")
    /\ UNCHANGED <<manners, files, daemons, op, server, conn, told, promised>>

\* Whatever has the name by now goes.
StartUnlink(u) ==
    /\ call[u] = "unlink"
    /\ sock' = Nobody
    /\ Goto(u, "fork")
    /\ UNCHANGED <<manners, pidfile, daemons, op, server, conn, told, promised>>

StartFork(u) ==
    /\ call[u] = "fork"
    /\ \/ At(u, "write_pid") /\ Goto(u, "verify") /\ UNCHANGED told
       \/ "setup" \in Faults /\ Tell(u, "failed") /\ UNCHANGED daemon
    /\ UNCHANGED <<manners, files, stop, queue, op, server, conn, promised>>

\* 200 ms later, which an undisturbed child does not need; whoever listens,
\* the answer is the child's pid.
StartVerify(u) ==
    /\ call[u] = "verify"
    /\ manners = "any" \/ daemon[u] \notin Starting
    /\ Probe
    /\ Tell(u, IF Connects THEN "started" ELSE "failed")
    /\ promised' = (promised \/ Connects)
    /\ UNCHANGED <<manners, files, daemon, stop, op, server, conn>>

Start(u) == StartExists(u) \/ StartProbe(u) \/ StartUnlink(u) \/ StartFork(u) \/ StartVerify(u)

-----------------------------------------------------------------------------
(* send_request, for stop, status and every request that is routed *)

\* RX_DAEMON is set: through the daemon if one runs, else directly by ssh.
Route(u) ==
    /\ call[u] = "route"
    /\ Probe
    /\ IF Connects
       THEN Goto(u, "connect") /\ UNCHANGED told
       ELSE Tell(u, "direct")
    /\ UNCHANGED <<manners, files, daemon, stop, op, server, conn, promised>>

\* No connection is "not running" to stop and status, an error to a request.
SendConnect(u) ==
    /\ call[u] = "connect"
    /\ IF Connects
       THEN /\ Connect(u)
            /\ server' = [server EXCEPT ![u] = sock]
            /\ conn' = [conn EXCEPT ![u] = "open"]
            /\ Goto(u, "write")
            /\ UNCHANGED told
       ELSE /\ Tell(u, IF op[u] = "request" THEN "error" ELSE "not_running")
            /\ UNCHANGED <<queue, server, conn>>
    /\ UNCHANGED <<manners, files, daemon, stop, op, promised>>

\* The write side stays open.
SendWrite_no_shutdown(u) ==
    /\ call[u] = "write"
    /\ Goto(u, "wait")
    /\ UNCHANGED <<manners, files, daemons, op, server, conn, told, promised>>

\* The request, and the end of it; a reset connection fails here or below.
SendWrite(u) ==
    /\ call[u] = "write"
    /\ Goto(u, "wait")
    /\ conn' = [conn EXCEPT ![u] = CASE @ = "open" -> "sent" [] @ = "accepted" -> "read" [] OTHER -> @]
    /\ UNCHANGED <<manners, files, daemons, op, server, told, promised>>

\* The answer; or none, which does not parse.
SendRead(u) ==
    /\ call[u] = "wait" /\ conn[u] \in {"answered", "reset"}
    /\ Tell(u, IF conn[u] = "answered" THEN "ok" ELSE "error")
    /\ conn' = [conn EXCEPT ![u] = "none"] /\ server' = [server EXCEPT ![u] = Nobody]
    /\ UNCHANGED <<manners, files, daemons, op, promised>>

Send(u) == Route(u) \/ SendConnect(u) \/ SendWrite(u) \/ SendRead(u)

-----------------------------------------------------------------------------
(* The daemon: run_server, and what the child does around it *)

DaemonWritePid(d) ==
    /\ daemon[d] = "write_pid"
    /\ pidfile' = d
    /\ At(d, "bind")
    /\ UNCHANGED <<manners, sock, stop, queue, calls, promised>>

\* A name that is taken ends run_server, and the child unlinks the name.
DaemonBind(d) ==
    /\ daemon[d] = "bind"
    /\ IF sock = Nobody
       THEN sock' = d /\ At(d, "listen")
       ELSE UNCHANGED sock /\ At(d, "unlink_sock")
    /\ UNCHANGED <<manners, pidfile, stop, queue, calls, promised>>

DaemonListen(d) ==
    /\ daemon[d] = "listen"
    /\ At(d, "chmod")
    /\ UNCHANGED <<manners, files, stop, queue, calls, promised>>

\* The mode is set by name.
DaemonChmod(d) ==
    /\ daemon[d] = "chmod"
    /\ \/ sock # Nobody /\ At(d, "accept")
       \/ (sock = Nobody \/ "chmod" \in Faults) /\ At(d, "chmod_failed")
    /\ UNCHANGED <<manners, files, stop, queue, calls, promised>>

DaemonChmodFailed(d) ==
    /\ daemon[d] = "chmod_failed"
    /\ sock' = Nobody
    /\ At(d, "close")
    /\ UNCHANGED <<manners, pidfile, stop, queue, calls, promised>>

\* Connections of these calls are reset, unless they have their answer.
Reset(us) ==
    conn' = [u \in Users |-> IF u \in us /\ conn[u] \notin {"none", "answered"}
                             THEN "reset" ELSE conn[u]]

\* accept(2), then the look at the stop flag, then a thread.
DaemonAccept(d) ==
    /\ daemon[d] = "accept" /\ queue[d] # <<>>
    /\ queue' = [queue EXCEPT ![d] = Tail(@)]
    /\ LET c == Head(queue[d])
       IN  IF stop[d]
           THEN At(d, "close") /\ Reset({c})
           ELSE /\ conn' = [u \in Users |-> IF u # c THEN conn[u]
                                            ELSE IF conn[u] = "sent" THEN "read" ELSE "accepted"]
                /\ UNCHANGED daemon
    /\ UNCHANGED <<manners, files, stop, call, op, server, told, promised>>

\* run_server returns and drops the listener.
DaemonClose(d) ==
    /\ daemon[d] = "close"
    /\ At(d, "unlink_sock")
    /\ queue' = [queue EXCEPT ![d] = <<>>]
    /\ Reset({queue[d][i] : i \in 1 .. Len(queue[d])})
    /\ UNCHANGED <<manners, files, stop, call, op, server, told, promised>>

\* The socket stays where it is.
DaemonUnlinkSock_omitted(d) ==
    /\ daemon[d] = "unlink_sock"
    /\ At(d, "unlink_pid")
    /\ UNCHANGED <<manners, files, stop, queue, calls, promised>>

DaemonUnlinkSock(d) ==
    /\ daemon[d] = "unlink_sock"
    /\ sock' = Nobody
    /\ At(d, "unlink_pid")
    /\ UNCHANGED <<manners, pidfile, stop, queue, calls, promised>>

DaemonUnlinkPid(d) ==
    /\ daemon[d] = "unlink_pid"
    /\ pidfile' = Nobody
    /\ At(d, "exit")
    /\ UNCHANGED <<manners, sock, stop, queue, calls, promised>>

\* The process ends, and its threads with it.
Ends(d, l) ==
    /\ At(d, l)
    /\ queue' = [queue EXCEPT ![d] = <<>>]
    /\ Reset({u \in Users : server[u] = d})
    /\ UNCHANGED <<manners, files, stop, call, op, server, told>>

DaemonExit(d) == daemon[d] = "exit" /\ Ends(d, "gone") /\ UNCHANGED promised

DaemonKilled(d) ==
    /\ manners \in Killing /\ daemon[d] \notin Dead
    /\ Ends(d, "killed")
    /\ promised' = FALSE

Serve(d) ==
    \/ DaemonWritePid(d) \/ DaemonBind(d) \/ DaemonListen(d) \/ DaemonChmod(d)
    \/ DaemonChmodFailed(d) \/ DaemonAccept(d) \/ DaemonClose(d)
    \/ DaemonUnlinkSock(d) \/ DaemonUnlinkPid(d) \/ DaemonExit(d)

-----------------------------------------------------------------------------
(* handle_connection and dispatch: the thread of one request *)

Handled(u, l) == conn' = [conn EXCEPT ![u] = l]

\* Every request but a stop.
HandlerAnswer(u) ==
    /\ conn[u] = "read" /\ op[u] # "stop"
    /\ Handled(u, "answered")
    /\ UNCHANGED <<manners, files, daemons, call, op, server, told, promised>>

HandlerStop(u) ==
    /\ conn[u] = "read" /\ op[u] = "stop"
    /\ stop' = [stop EXCEPT ![server[u]] = TRUE]
    /\ Handled(u, "wake")
    /\ UNCHANGED <<manners, files, daemon, queue, call, op, server, told, promised>>

\* The flag alone.
HandlerWake_omitted(u) ==
    /\ conn[u] = "wake"
    /\ Handled(u, "reply")
    /\ UNCHANGED <<manners, files, daemons, call, op, server, told, promised>>

\* Its own accept is unblocked by a connection to the name.
HandlerWake(u) ==
    /\ conn[u] = "wake"
    /\ Probe
    /\ Handled(u, "reply")
    /\ UNCHANGED <<manners, files, daemon, stop, call, op, server, told, promised>>

HandlerReply(u) ==
    /\ conn[u] = "reply"
    /\ Handled(u, "answered")
    /\ UNCHANGED <<manners, files, daemons, call, op, server, told, promised>>

Handle(u) == HandlerAnswer(u) \/ HandlerStop(u) \/ HandlerWake(u) \/ HandlerReply(u)

-----------------------------------------------------------------------------

Init ==
    /\ manners \in Manners
    /\ sock = Nobody /\ pidfile = Nobody
    /\ daemon = [d \in Users |-> "unborn"]
    /\ stop = [d \in Users |-> FALSE]
    /\ queue = [d \in Users |-> <<>>]
    /\ call = [u \in Users |-> "idle"] /\ op = [u \in Users |-> "none"]
    /\ server = [u \in Users |-> Nobody] /\ conn = [u \in Users |-> "none"]
    /\ told = [u \in Users |-> "none"]
    /\ promised = FALSE

\* Every call has been answered; daemons wait for more.
Finished ==
    /\ \A u \in Users : call[u] = "done"
    /\ \A d \in Users : daemon[d] \in Dead \/ (daemon[d] = "accept" /\ queue[d] = <<>>)
    /\ UNCHANGED vars

Next ==
    \/ \E u \in Users : Begin(u) \/ Start(u) \/ Send(u) \/ Handle(u)
    \/ \E d \in Users : Serve(d) \/ DaemonKilled(d)
    \/ Finished

Spec == Init /\ [][Next]_vars

\* As long as an rx, a daemon or a thread can take a step, one does.  Nothing
\* makes a call come or a daemon be killed.
Fairness == WF_vars(\E u \in Users : Start(u) \/ Send(u) \/ Handle(u) \/ Serve(u))

FairSpec == Spec /\ Fairness

-----------------------------------------------------------------------------
(* Properties *)

TypeOK ==
    /\ manners \in Manners
    /\ sock \in Users \cup {Nobody} /\ pidfile \in Users \cup {Nobody}
    /\ daemon \in [Users -> Starting \cup {"accept"} \cup Ending \cup Dead]
    /\ stop \in [Users -> BOOLEAN]
    /\ queue \in [Users -> Seq(Users \cup {Nobody})]
    /\ call \in [Users -> {"idle", "exists", "probe", "unlink", "fork", "verify",
                           "route", "connect", "write", "wait", "done"}]
    /\ op \in [Users -> Ops \cup {"none"}]
    /\ server \in [Users -> Users \cup {Nobody}]
    /\ conn \in [Users -> {"none", "open", "sent", "accepted", "read", "wake", "reply",
                           "answered", "reset"}]
    /\ told \in [Users -> {"none", "already", "started", "failed", "direct", "not_running",
                           "ok", "error"}]
    /\ promised \in BOOLEAN

Running(d) == daemon[d] = "accept" /\ ~stop[d]

\* The pid file and the socket are those of the daemon that serves, so there
\* is only one, and after a stop neither is left, unless a daemon was killed:
\* as long as no command begins before the one before it is through.
FilesNameTheDaemon ==
    manners = "settled" =>
        /\ \A d \in Users : daemon[d] = "accept" => sock = d /\ pidfile = d
        /\ Polite /\ (\A d \in Users : daemon[d] # "killed") =>
              \A f \in {sock, pidfile} : f # Nobody => Running(f)

\* A start succeeds, whatever a killed daemon left behind, unless it fails
\* before the fork or its own child is killed: as long as no command begins
\* before the one before it is through.
StaleIsReplaced ==
    manners = "settled" =>
        \A u \in Users : told[u] = "failed" =>
            daemon[u] \in {"unborn", "killed"} \/ "chmod" \in Faults

\* When start has answered that a daemon runs, one does, and is found, until
\* somebody asks for a stop or kills one: as long as no command begins before
\* the one before it is through, a stopped daemon's end included.
RunningMeansRunning ==
    manners = "settled" /\ promised => sock # Nobody /\ Running(sock)

\* A daemon that has taken a stop ends, whoever else starts and stops at that
\* time, unless another call has taken its socket's name away: the connection
\* that wakes it is made by name.
StopEndsIt ==
    LET Heeded == \A d \in Users : stop[d] => daemon[d] \in Dead \/ sock # d
    IN  ~Heeded ~> Heeded

\* Every command is answered, whatever daemons come and go: none waits for a
\* daemon that has stopped listening.
CallsEnd ==
    LET Answered == \A u \in Users : call[u] \in {"idle", "done"}
    IN  ~Answered ~> Answered
=============================================================================
