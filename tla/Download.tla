------------------------------ MODULE Download ------------------------------
(***************************************************************************)
(* `rx get`: rxd (serve_get) opens the file the path names, announces its  *)
(* size, streams that many units and takes the size again; rx stages them  *)
(* in a temporary file, waits for rxd's exit status and installs them by a *)
(* rename.  Programs on the host may change the file in place meanwhile.   *)
(***************************************************************************)
EXTENDS RemoteFile

CONSTANTS
    Getters,    \* the gets of the path
    GetPipe,    \* how much the pipe from rxd to rx holds
    GetFaults,  \* "open" (rxd cannot open the file), "local" (rx's disk),
                \* "cut" (ssh), "kill" (rxd)
    Writers,    \* how a program on the host changes the file: it may
                \* "append" to it, "truncate" it or "overwrite" in it
    MaxEdits    \* how often it does

ASSUME DownloadAssumption ==
    /\ GetPipe \in Nat \ {0}
    /\ GetFaults \subseteq {"open", "local", "cut", "kill"}
    /\ Writers \subseteq {"append", "truncate", "overwrite"}
    /\ MaxEdits \in Nat

VARIABLES
    getter,    \* what rx does
    declared,  \* the size rx read in the header
    staged,    \* the content of rx's temporary file
    local,     \* which gets have a temporary file
    dest,      \* the contents rx has installed at its destination
    outcome,   \* what rx reported
    server,    \* what rxd does, "gone" when it has exited
    exit,      \* rxd's exit status
    opened,    \* the file rxd has open
    length,    \* its length when it was opened
    pos,       \* how many units rxd has sent
    pipe,      \* what is under way from rxd to rx
    wireUp,    \* whether the ssh connection is up
    writer,    \* how this behaviour's program changes the file
    edits      \* how often it did

getterVars == <<getter, declared, staged, local, dest, outcome>>
serverVars == <<server, exit, opened, length, pos>>
writerVars == <<writer, edits>>
getVars    == <<getterVars, serverVars, pipe, wireUp, writerVars>>

Message(what, n) == [what |-> what, n |-> n]

Messages == [what : {"size", "error", "unit"}, n : Nat]

GetInit ==
    /\ getter = [g \in Getters |-> "idle"]
    /\ declared = [g \in Getters |-> 0]
    /\ staged = [g \in Getters |-> <<>>]
    /\ local = {}
    /\ dest = [g \in Getters |-> {}]
    /\ outcome = [g \in Getters |-> "none"]
    /\ server = [g \in Getters |-> "idle"]
    /\ exit = [g \in Getters |-> "none"]
    /\ opened = [g \in Getters |-> Original]
    /\ length = [g \in Getters |-> 0]
    /\ pos = [g \in Getters |-> 0]
    /\ pipe = [g \in Getters |-> <<>>]
    /\ wireUp = [g \in Getters |-> TRUE]
    /\ writer \in Writers
    /\ edits = 0

-----------------------------------------------------------------------------
(* rxd: serve_get *)

Exit(g, status) ==
    /\ server' = [server EXCEPT ![g] = "gone"]
    /\ exit' = [exit EXCEPT ![g] = status]

Put(g, message) == pipe' = [pipe EXCEPT ![g] = Append(@, message)]

\* rxd opens the file and sends the header: its size, or why it cannot.
ServerOpen(g) ==
    /\ server[g] = "open" /\ wireUp[g]
    /\ \/ /\ opened' = [opened EXCEPT ![g] = Target]
          /\ length' = [length EXCEPT ![g] = Len(data[Target])]
          /\ Put(g, Message("size", Len(data[Target])))
          /\ server' = [server EXCEPT ![g] = "send"]
          /\ UNCHANGED <<exit, pos>>
       \/ /\ "open" \in GetFaults
          /\ Put(g, Message("error", 0))
          /\ Exit(g, "success")
          /\ UNCHANGED <<opened, length, pos>>
    /\ UNCHANGED <<fileVars, getterVars, wireUp, writerVars>>

\* What take(declared) still lets through, and the file still has.
More(g) == pos[g] < length[g] /\ pos[g] < Len(data[opened[g]])

ServerSend(g) ==
    /\ server[g] = "send" /\ wireUp[g]
    /\ More(g)
    /\ Len(pipe[g]) < GetPipe
    /\ Put(g, Message("unit", data[opened[g]][pos[g] + 1]))
    /\ pos' = [pos EXCEPT ![g] = @ + 1]
    /\ UNCHANGED <<fileVars, getterVars, server, exit, opened, length, wireUp, writerVars>>

\* A mutant of ServerSent: the copy waits for all that was declared.
ServerSent_waits_for_declared(g) ==
    /\ server[g] = "send" /\ wireUp[g]
    /\ pos[g] = length[g]
    /\ server' = [server EXCEPT ![g] = "restat"]
    /\ UNCHANGED <<fileVars, getterVars, exit, opened, length, pos, pipe, wireUp, writerVars>>

\* The copy has ended; a short one fails at once.
ServerSent(g) ==
    /\ server[g] = "send" /\ wireUp[g]
    /\ ~More(g)
    /\ IF pos[g] # length[g]
       THEN Exit(g, "failure")
       ELSE server' = [server EXCEPT ![g] = "restat"] /\ UNCHANGED exit
    /\ UNCHANGED <<fileVars, getterVars, opened, length, pos, pipe, wireUp, writerVars>>

\* A mutant of ServerRestat: the path is looked up again.
ServerRestat_by_path(g) ==
    /\ server[g] = "restat"
    /\ Exit(g, IF Len(data[Target]) = length[g] THEN "success" ELSE "failure")
    /\ UNCHANGED <<fileVars, getterVars, opened, length, pos, pipe, wireUp, writerVars>>

\* The length of the open file must be what the header said.
ServerRestat(g) ==
    /\ server[g] = "restat"
    /\ Exit(g, IF Len(data[opened[g]]) = length[g] THEN "success" ELSE "failure")
    /\ UNCHANGED <<fileVars, getterVars, opened, length, pos, pipe, wireUp, writerVars>>

\* EPIPE: nobody reads any more.
ServerBroken(g) ==
    /\ server[g] \in {"open", "send"}
    /\ ~(wireUp[g] /\ getter[g] # "done")
    /\ Exit(g, "failure")
    /\ UNCHANGED <<fileVars, getterVars, opened, length, pos, pipe, wireUp, writerVars>>

-----------------------------------------------------------------------------
(* rx: do_get, receive_to_temp, commit_temp *)

Goto(g, where) == getter' = [getter EXCEPT ![g] = where]

Tell(g, what) ==
    /\ Goto(g, "done")
    /\ outcome' = [outcome EXCEPT ![g] = what]

Take(g) == pipe' = [pipe EXCEPT ![g] = Tail(@)]

Has(g, what) == pipe[g] # <<>> /\ Head(pipe[g]).what = what

\* ssh, the child of rx, ends when rxd has exited or the connection is cut.
ChildEnded(g) == server[g] = "gone" \/ ~wireUp[g]

EndOfStream(g) == pipe[g] = <<>> /\ ChildEnded(g)

\* child.wait() says success only if ssh brought rxd's status home.
ChildSucceeded(g) == wireUp[g] /\ exit[g] = "success"

GetRequest(g) ==
    /\ getter[g] = "idle"
    /\ Goto(g, "header")
    /\ server' = [server EXCEPT ![g] = "open"]
    /\ UNCHANGED <<fileVars, declared, staged, local, dest, outcome,
                   exit, opened, length, pos, pipe, wireUp, writerVars>>

GetHeader(g) ==
    /\ getter[g] = "header"
    /\ \/ /\ Has(g, "size")
          /\ Take(g)
          /\ declared' = [declared EXCEPT ![g] = Head(pipe[g]).n]
          /\ Goto(g, "stage")
          /\ UNCHANGED outcome
       \/ /\ Has(g, "error")
          /\ Take(g)
          /\ Tell(g, "typed_error")
          /\ UNCHANGED declared
       \/ /\ EndOfStream(g)
          /\ Tell(g, "transport")
          /\ UNCHANGED <<pipe, declared>>
    /\ UNCHANGED <<fileVars, staged, local, dest, serverVars, wireUp, writerVars>>

\* A local failure: the temporary file goes, and rx waits for ssh to end
\* before it says so.
LocalFailure(g) ==
    /\ "local" \in GetFaults
    /\ local' = local \ {g}
    /\ Goto(g, "reap")
    /\ UNCHANGED <<declared, staged, dest, outcome, pipe>>

GetStage(g) ==
    /\ getter[g] = "stage"
    /\ \/ /\ local' = local \cup {g}
          /\ Goto(g, "receive")
          /\ UNCHANGED <<declared, staged, dest, outcome, pipe>>
       \/ LocalFailure(g)
    /\ UNCHANGED <<fileVars, serverVars, wireUp, writerVars>>

GetReceive(g) ==
    /\ getter[g] = "receive" /\ Len(staged[g]) < declared[g]
    /\ Has(g, "unit")
    /\ \/ /\ Take(g)
          /\ staged' = [staged EXCEPT ![g] = Append(@, Head(pipe[g]).n)]
          /\ UNCHANGED <<getter, declared, local, dest, outcome>>
       \/ LocalFailure(g)
    /\ UNCHANGED <<fileVars, serverVars, wireUp, writerVars>>

\* A mutant of GetShort: whatever arrived is taken for the file.
GetShort_accepted(g) ==
    /\ getter[g] = "receive" /\ Len(staged[g]) < declared[g]
    /\ EndOfStream(g)
    /\ Goto(g, "commit")
    /\ UNCHANGED <<fileVars, declared, staged, local, dest, outcome,
                   serverVars, pipe, wireUp, writerVars>>

\* The stream ended early.
GetShort(g) ==
    /\ getter[g] = "receive" /\ Len(staged[g]) < declared[g]
    /\ EndOfStream(g)
    /\ local' = local \ {g}
    /\ Tell(g, "incomplete_transfer")
    /\ UNCHANGED <<fileVars, declared, staged, dest, serverVars, pipe, wireUp, writerVars>>

\* All that was declared has arrived and is synced.
GetComplete(g) ==
    /\ getter[g] = "receive" /\ Len(staged[g]) = declared[g]
    /\ \/ /\ Goto(g, "drain")
          /\ UNCHANGED <<declared, staged, local, dest, outcome, pipe>>
       \/ LocalFailure(g)
    /\ UNCHANGED <<fileVars, serverVars, wireUp, writerVars>>

\* A mutant of GetVerify: what was staged is not discarded.
GetVerify_not_discarded(g) ==
    /\ getter[g] = "drain"
    /\ pipe[g] = <<>> => ChildEnded(g)
    /\ pipe' = [pipe EXCEPT ![g] = <<>>]
    /\ IF pipe[g] = <<>> /\ ChildSucceeded(g)
       THEN Goto(g, "commit") /\ UNCHANGED outcome
       ELSE Tell(g, "file_changed")
    /\ UNCHANGED <<fileVars, declared, staged, local, dest, serverVars, wireUp, writerVars>>

\* rx drains what comes after the declared size, closes the pipe, waits for
\* ssh and looks at its status.  A surplus, or a failure, is a changed file.
GetVerify(g) ==
    /\ getter[g] = "drain"
    /\ pipe[g] = <<>> => ChildEnded(g)
    /\ pipe' = [pipe EXCEPT ![g] = <<>>]
    /\ IF pipe[g] = <<>> /\ ChildSucceeded(g)
       THEN Goto(g, "commit") /\ UNCHANGED <<local, outcome>>
       ELSE /\ local' = local \ {g}
            /\ Tell(g, "file_changed")
    /\ UNCHANGED <<fileVars, declared, staged, dest, serverVars, wireUp, writerVars>>

\* commit_temp: mode and rename.
GetCommit(g) ==
    /\ getter[g] = "commit"
    /\ local' = local \ {g}
    /\ \/ /\ dest' = [dest EXCEPT ![g] = @ \cup {staged[g]}]
          /\ Tell(g, "got")
       \/ /\ "local" \in GetFaults
          /\ Tell(g, "local_error")
          /\ UNCHANGED dest
    /\ UNCHANGED <<fileVars, declared, staged, serverVars, pipe, wireUp, writerVars>>

\* child.wait() after a local failure: the pipe is still open and unread.
GetReap(g) ==
    /\ getter[g] = "reap"
    /\ ChildEnded(g)
    /\ Tell(g, "local_error")
    /\ UNCHANGED <<fileVars, declared, staged, local, dest, serverVars, pipe, wireUp, writerVars>>

-----------------------------------------------------------------------------
(* The world *)

\* ssh breaks: a prefix of what is under way arrives.
GetCut(g) ==
    /\ "cut" \in GetFaults
    /\ getter[g] \notin {"idle", "done"} /\ wireUp[g]
    /\ wireUp' = [wireUp EXCEPT ![g] = FALSE]
    /\ \E n \in 0 .. Len(pipe[g]) : pipe' = [pipe EXCEPT ![g] = Keep(@, n)]
    /\ UNCHANGED <<fileVars, getterVars, serverVars, writerVars>>

ServerKilled(g) ==
    /\ "kill" \in GetFaults
    /\ server[g] \notin {"idle", "gone"}
    /\ Exit(g, "killed")
    /\ UNCHANGED <<fileVars, getterVars, opened, length, pos, pipe, wireUp, writerVars>>

\* What the loss of power does to the gets under way.
GetLosePower ==
    /\ wireUp' = [g \in Getters |-> wireUp[g] /\ getter[g] \in {"idle", "done"}]
    /\ server' = [g \in Getters |-> IF getter[g] = "idle" THEN "idle" ELSE "gone"]
    /\ exit' = [g \in Getters |-> IF server[g] \in {"idle", "gone"} THEN exit[g] ELSE "killed"]
    /\ UNCHANGED <<getterVars, opened, length, pos, pipe, writerVars>>

Edit ==
    /\ edits < MaxEdits
    /\ writer = "append" => Len(data[Original]) < MaxLen
    /\ writer # "append" => data[Original] # <<>>
    /\ EditFile(writer, edits + 1)
    /\ edits' = edits + 1
    /\ UNCHANGED <<getterVars, serverVars, pipe, wireUp, writer>>

ServerGet(g) ==
    \/ ServerOpen(g) \/ ServerSend(g) \/ ServerSent(g) \/ ServerRestat(g) \/ ServerBroken(g)

RxGet(g) ==
    \/ GetRequest(g) \/ GetHeader(g) \/ GetStage(g) \/ GetReceive(g) \/ GetShort(g)
    \/ GetComplete(g) \/ GetVerify(g) \/ GetCommit(g) \/ GetReap(g)

GetNext ==
    \/ \E g \in Getters : ServerGet(g) \/ RxGet(g) \/ GetCut(g) \/ ServerKilled(g)
    \/ Edit

-----------------------------------------------------------------------------
(* Properties *)

GetTypeOK ==
    /\ getter \in [Getters -> {"idle", "header", "stage", "receive", "drain", "commit",
                               "reap", "done"}]
    /\ declared \in [Getters -> Nat]
    /\ staged \in [Getters -> Seq(Nat)]
    /\ local \subseteq Getters
    /\ dest \in [Getters -> SUBSET Seq(Nat)]
    /\ outcome \in [Getters -> {"none", "got", "typed_error", "transport", "local_error",
                                "incomplete_transfer", "file_changed"}]
    /\ server \in [Getters -> {"idle", "open", "send", "restat", "gone"}]
    /\ exit \in [Getters -> {"none", "success", "failure", "killed"}]
    /\ opened \in [Getters -> Files]
    /\ length \in [Getters -> Nat]
    /\ pos \in [Getters -> Nat]
    /\ pipe \in [Getters -> Seq(Messages)]
    /\ wireUp \in [Getters -> BOOLEAN]
    /\ writer \in Writers
    /\ edits \in 0 .. MaxEdits
    /\ \A g \in Getters : getter[g] = "done" <=> outcome[g] # "none"

\* What get installs is what the path, or the file it opened there, held at
\* some moment: never a mixture of two contents, never a part of one.
NeverTorn ==
    \A g \in Getters : \A got \in dest[g] : <<opened[g], got>> \in contents

\* A get that does not answer "got" leaves the destination as it was, and
\* none leaves its temporary file behind.
FailedGetLeavesNothing ==
    \A g \in Getters : outcome[g] # "none" =>
        /\ (outcome[g] = "got") <=> (dest[g] # {})
        /\ g \notin local

\* file_changed is told only when the length of the file moved while rxd
\* read it, or when rxd or the connection died.
FileChangedIsTrue ==
    \A g \in Getters : outcome[g] = "file_changed" =>
        \/ \E c \in contents : c[1] = opened[g] /\ Len(c[2]) # length[g]
        \/ ~wireUp[g]
        \/ exit[g] = "killed"

=============================================================================
