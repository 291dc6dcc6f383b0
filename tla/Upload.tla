------------------------------- MODULE Upload -------------------------------
(***************************************************************************)
(* `rx put`: the client rx streams a local file (put, its size declared    *)
(* first) or its stdin (put_stream, framed) to one rxd per put, which      *)
(* writes it to a temporary file and installs that by a rename.  The       *)
(* stream between them is a bounded pipe that may be cut at any byte; each *)
(* system call may fail, and rxd or its host may die between any two.      *)
(***************************************************************************)
EXTENDS RemoteFile, FiniteSets

CONSTANTS
    Requests,   \* what each put may ask: its kind, "put" (a local file) or
                \* "put_stream" (stdin), what of "mode" and "owner" it sets,
                \* and whether an empty stream may be installed
    Chunk,      \* the most units one read of the source returns
    MaxFrame,   \* the longest frame rxd accepts
    PipeSize,   \* how much the pipe holds before its writer waits
    PutFaults   \* what may fail in each: a system call of install_file by its
                \* name, "source" (rx's own read), "cut" (ssh), "kill" (rxd)

Request == [kind : {"put", "put_stream"}, rights : SUBSET {"mode", "owner"},
            empty : BOOLEAN]

ASSUME UploadAssumption ==
    /\ Requests \in [Putters -> SUBSET Request]
    /\ Chunk \in Nat \ {0}
    /\ MaxFrame \in Nat
    /\ PipeSize \in Nat \ {0}
    /\ PutFaults \in [Putters -> SUBSET {"source", "cut", "kill", "create", "write",
                                         "sync", "chmod", "chown", "rename", "syncdir"}]

VARIABLES
    ask,       \* each put's request
    rx,        \* what rx does: "idle", "send", "wait", "done"
    size,      \* the size rx found and declared
    sent,      \* how many units of its source rx has read and sent
    ended,     \* the puts whose source rx has read to its end
    wire,      \* what is under way from rx to rxd
    link,      \* the ssh connection: "up" or "cut"
    rxd,       \* what rxd does, "gone" when it has exited
    remaining, \* FramedReader: units left in the frame it reads
    answer,    \* what rxd answered
    result,    \* what rx reported
    unsynced   \* the puts one of whose fsyncs failed

rxVars  == <<ask, rx, size, sent, ended, result>>
rxdVars == <<rxd, remaining, answer, unsynced>>
putVars == <<rxVars, rxdVars, wire, link>>

\* What goes over the wire.  `at` is its place in the source, which is no
\* part of the message: the unit at place k is the number k + 1.
Token(what, n, at) == [what |-> what, n |-> n, at |-> at]

Tokens == [what : {"request", "len", "unit", "total"}, n : Nat, at : Nat]

Units(from, n) == [k \in 1 .. n |-> Token("unit", from + k, from + k - 1)]

PutInit ==
    /\ ask \in [Putters -> Request]
    /\ \A p \in Putters : ask[p] \in Requests[p]
    /\ rx = [p \in Putters |-> "idle"]
    /\ size = [p \in Putters |-> 0]
    /\ sent = [p \in Putters |-> 0]
    /\ ended = {}
    /\ wire = [p \in Putters |-> <<>>]
    /\ link = [p \in Putters |-> "up"]
    /\ rxd = [p \in Putters |-> "idle"]
    /\ remaining = [p \in Putters |-> 0]
    /\ answer = [p \in Putters |-> "none"]
    /\ result = [p \in Putters |-> "none"]
    /\ unsynced = {}

-----------------------------------------------------------------------------
(* rx *)

Report(p, what) ==
    /\ rx' = [rx EXCEPT ![p] = "done"]
    /\ result' = [result EXCEPT ![p] = what]

\* The source cannot be opened, or it is a terminal: no ssh is started.
RxRefuse(p) ==
    /\ rx[p] = "idle"
    /\ Report(p, "refused")
    /\ UNCHANGED <<fileVars, rxdVars, wire, link, ask, size, sent, ended>>

\* rx opens its source, takes the size of a file, starts ssh and writes the
\* request line.
RxRequest(p) ==
    /\ rx[p] = "idle"
    /\ \E n \in 0 .. MaxLen :
        /\ ask[p].kind = "put_stream" => n = 0
        /\ size' = [size EXCEPT ![p] = n]
    /\ rx' = [rx EXCEPT ![p] = "send"]
    /\ rxd' = [rxd EXCEPT ![p] = "request"]
    /\ wire' = [wire EXCEPT ![p] = <<Token("request", 0, 0)>>]
    /\ UNCHANGED <<fileVars, ask, sent, ended, result, link, remaining, answer, unsynced>>

\* The pipe to rxd takes another write.
Writable(p) == link[p] = "up" /\ rxd[p] # "gone" /\ Len(wire[p]) < PipeSize

\* One read of the source and the writes that follow it: io::copy for a
\* file, a frame of write_framed for stdin.
RxSend(p) ==
    /\ rx[p] = "send" /\ Writable(p)
    /\ \E n \in 1 .. Chunk :
        LET header == IF ask[p].kind = "put_stream"
                      THEN <<Token("len", n, sent[p])>> ELSE <<>>
        IN  /\ sent[p] + n <= MaxLen
            /\ wire' = [wire EXCEPT ![p] = @ \o header \o Units(sent[p], n)]
            /\ sent' = [sent EXCEPT ![p] = @ + n]
    /\ UNCHANGED <<fileVars, rxdVars, link, ask, rx, size, ended, result>>

\* The source ends: the terminator goes out and stdin is closed.
RxEnd(p) ==
    /\ rx[p] = "send"
    /\ ask[p].kind = "put_stream" => Writable(p)
    /\ ended' = ended \cup {p}
    /\ wire' = IF ask[p].kind = "put_stream"
               THEN [wire EXCEPT ![p] = @ \o <<Token("len", 0, sent[p]),
                                               Token("total", sent[p], sent[p])>>]
               ELSE wire
    /\ rx' = [rx EXCEPT ![p] = "wait"]
    /\ UNCHANGED <<fileVars, rxdVars, link, ask, size, sent, result>>

\* Reading the source fails: stdin is closed without a terminator.
RxSourceFails(p) ==
    /\ "source" \in PutFaults[p]
    /\ rx[p] = "send"
    /\ rx' = [rx EXCEPT ![p] = "wait"]
    /\ UNCHANGED <<fileVars, rxdVars, wire, link, ask, size, sent, ended, result>>

\* A mutant of RxPipeBroken: rx keeps a read end of the pipe open, and a
\* write to an rxd that has exited blocks.
RxPipeBroken_only_when_cut(p) ==
    /\ rx[p] = "send"
    /\ link[p] = "cut"
    /\ rx' = [rx EXCEPT ![p] = "wait"]
    /\ UNCHANGED <<fileVars, rxdVars, wire, link, ask, size, sent, ended, result>>

\* EPIPE: a write failure is not reported by itself; rx waits for an answer.
RxPipeBroken(p) ==
    /\ rx[p] = "send"
    /\ link[p] = "cut" \/ rxd[p] = "gone"
    /\ rx' = [rx EXCEPT ![p] = "wait"]
    /\ UNCHANGED <<fileVars, rxdVars, wire, link, ask, size, sent, ended, result>>

\* A mutant of RxAnswer: an empty output is taken for an answer.
RxAnswer_empty_accepted(p) ==
    /\ rx[p] = "wait"
    /\ rxd[p] = "gone" \/ link[p] = "cut"
    /\ Report(p, IF link[p] = "cut" THEN "transport" ELSE answer[p])
    /\ UNCHANGED <<fileVars, rxdVars, wire, link, ask, size, sent, ended>>

\* serve_with_body's table: an error rxd explained wins; a success counts
\* only if the body was written to its end; without an answer, or with ssh
\* failing, all rx knows is that the transport failed.
RxAnswer(p) ==
    /\ rx[p] = "wait"
    /\ rxd[p] = "gone" \/ link[p] = "cut"
    /\ Report(p, IF link[p] = "cut" \/ answer[p] = "none" THEN "transport"
                 ELSE IF answer[p] = "copied" /\ p \notin ended THEN "io"
                 ELSE answer[p])
    /\ UNCHANGED <<fileVars, rxdVars, wire, link, ask, size, sent, ended>>

-----------------------------------------------------------------------------
(* rxd: serve, put and put_stream, install_file *)

\* The read end sees the end of the stream.
Eof(p) == wire[p] = <<>> /\ (link[p] = "cut" \/ rx[p] \in {"wait", "done"})

HasToken(p, what) == wire[p] # <<>> /\ Head(wire[p]).what = what

Receive(p) == wire' = [wire EXCEPT ![p] = Tail(@)]

RxdGoto(p, where) == rxd' = [rxd EXCEPT ![p] = where]

\* rxd answers and exits.
Answer(p, what) ==
    /\ RxdGoto(p, "gone")
    /\ answer' = [answer EXCEPT ![p] = what]

\* install_file gives up: the temporary file goes first.
Reject(p, what) ==
    /\ RemoveTemp(p)
    /\ Answer(p, what)

\* A system call that fails, with its error code.
Fails(p, call, what) ==
    /\ call \in PutFaults[p]
    /\ Reject(p, what)
    /\ UNCHANGED <<remaining, unsynced>>

RxdRequest(p) ==
    /\ rxd[p] = "request" /\ HasToken(p, "request")
    /\ Receive(p)
    /\ RxdGoto(p, "create")
    /\ UNCHANGED <<fileVars, rxVars, link, remaining, answer, unsynced>>

\* The connection was cut before the request arrived.
RxdNoRequest(p) ==
    /\ rxd[p] = "request" /\ Eof(p)
    /\ Answer(p, "bad_request")
    /\ UNCHANGED <<fileVars, rxVars, wire, link, remaining, unsynced>>

RxdCreate(p) ==
    /\ rxd[p] = "create"
    /\ \/ /\ CreateTemp(p)
          /\ RxdGoto(p, "fill")
          /\ UNCHANGED <<remaining, answer, unsynced>>
       \/ Fails(p, "create", "io_error")
    /\ UNCHANGED <<rxVars, wire, link>>

\* The body is complete as far as this rxd can tell; what put and put_stream
\* still refuse.
BodyComplete(p) ==
    IF ask[p].kind = "put" /\ Len(data[p]) # size[p]
    THEN /\ Reject(p, "incomplete_transfer")
         /\ UNCHANGED <<remaining, unsynced>>
    ELSE IF ask[p].kind = "put_stream" /\ data[p] = <<>> /\ ~ask[p].empty
    THEN /\ Reject(p, "empty_stream")
         /\ UNCHANGED <<remaining, unsynced>>
    ELSE /\ RxdGoto(p, "sync")
         /\ UNCHANGED <<fileVars, remaining, answer, unsynced>>

\* put: one unit of the body, written to the temporary file.
RxdCopy(p) ==
    /\ rxd[p] = "fill" /\ ask[p].kind = "put" /\ HasToken(p, "unit")
    /\ Receive(p)
    /\ \/ /\ WriteTemp(p, Head(wire[p]).n)
          /\ UNCHANGED rxdVars
       \/ Fails(p, "write", "internal")
    /\ UNCHANGED <<rxVars, link>>

\* put: the body ends where the stream ends.
RxdCopyEnd(p) ==
    /\ rxd[p] = "fill" /\ ask[p].kind = "put" /\ Eof(p)
    /\ BodyComplete(p)
    /\ UNCHANGED <<rxVars, wire, link>>

\* FramedReader at a frame boundary: the length of the next frame, where a
\* length of zero announces the total.
FramedHeader(p) ==
    /\ rxd[p] = "fill" /\ ask[p].kind = "put_stream" /\ remaining[p] = 0
    /\ HasToken(p, "len")
    /\ Receive(p)
    /\ LET n == Head(wire[p]).n IN
       IF n > MaxFrame
       THEN /\ Reject(p, "incomplete_transfer")
            /\ UNCHANGED <<remaining, unsynced>>
       ELSE /\ remaining' = [remaining EXCEPT ![p] = n]
            /\ RxdGoto(p, IF n = 0 THEN "trailer" ELSE "fill")
            /\ UNCHANGED <<fileVars, answer, unsynced>>
    /\ UNCHANGED <<rxVars, link>>

FramedPayload(p) ==
    /\ rxd[p] = "fill" /\ ask[p].kind = "put_stream" /\ remaining[p] > 0
    /\ HasToken(p, "unit")
    /\ Receive(p)
    /\ \/ /\ WriteTemp(p, Head(wire[p]).n)
          /\ remaining' = [remaining EXCEPT ![p] = @ - 1]
          /\ UNCHANGED <<rxd, answer, unsynced>>
       \/ Fails(p, "write", "internal")
    /\ UNCHANGED <<rxVars, link>>

\* The terminator's total must be what was read.
FramedTrailer(p) ==
    /\ rxd[p] = "trailer" /\ HasToken(p, "total")
    /\ Receive(p)
    /\ IF Head(wire[p]).n # Len(data[p])
       THEN /\ Reject(p, "incomplete_transfer")
            /\ UNCHANGED <<remaining, unsynced>>
       ELSE BodyComplete(p)
    /\ UNCHANGED <<rxVars, link>>

\* A mutant of FramedEof: the end of the stream is taken for the end of the
\* body when no frame is open.
FramedEof_boundary_ends(p) ==
    /\ rxd[p] \in {"fill", "trailer"} /\ ask[p].kind = "put_stream" /\ Eof(p)
    /\ IF remaining[p] = 0
       THEN BodyComplete(p)
       ELSE /\ Reject(p, "incomplete_transfer")
            /\ UNCHANGED <<remaining, unsynced>>
    /\ UNCHANGED <<rxVars, wire, link>>

\* The stream ends without its terminator.
FramedEof(p) ==
    /\ rxd[p] \in {"fill", "trailer"} /\ ask[p].kind = "put_stream" /\ Eof(p)
    /\ Reject(p, "incomplete_transfer")
    /\ UNCHANGED <<rxVars, wire, link, remaining, unsynced>>

\* fsync of the temporary file; a failure is ignored.
RxdSync(p) ==
    /\ rxd[p] = "sync"
    /\ \/ SyncTemp(p) /\ UNCHANGED unsynced
       \/ /\ "sync" \in PutFaults[p]
          /\ unsynced' = unsynced \cup {p}
          /\ UNCHANGED fileVars
    /\ RxdGoto(p, "chmod")
    /\ UNCHANGED <<rxVars, wire, link, remaining, answer>>

RxdChmod(p) ==
    /\ rxd[p] = "chmod"
    /\ IF "mode" \in ask[p].rights
       THEN \/ /\ Grant(p, "mode")
               /\ RxdGoto(p, "chown")
               /\ UNCHANGED <<remaining, answer, unsynced>>
            \/ Fails(p, "chmod", "io_error")
       ELSE /\ RxdGoto(p, "chown")
            /\ UNCHANGED <<fileVars, remaining, answer, unsynced>>
    /\ UNCHANGED <<rxVars, wire, link>>

RxdChown(p) ==
    /\ rxd[p] = "chown"
    /\ IF "owner" \in ask[p].rights
       THEN \/ /\ Grant(p, "owner")
               /\ RxdGoto(p, "rename")
               /\ UNCHANGED <<remaining, answer, unsynced>>
            \/ Fails(p, "chown", "unsupported")
       ELSE /\ RxdGoto(p, "rename")
            /\ UNCHANGED <<fileVars, remaining, answer, unsynced>>
    /\ UNCHANGED <<rxVars, wire, link>>

\* A mutant of RxdRename: its result is not looked at.
RxdRename_unchecked(p) ==
    /\ rxd[p] = "rename"
    /\ \/ RenameTemp(p)
       \/ "rename" \in PutFaults[p] /\ RemoveTemp(p)
    /\ RxdGoto(p, "syncdir")
    /\ UNCHANGED <<rxVars, wire, link, remaining, answer, unsynced>>

RxdRename(p) ==
    /\ rxd[p] = "rename"
    /\ \/ /\ RenameTemp(p)
          /\ RxdGoto(p, "syncdir")
          /\ UNCHANGED <<remaining, answer, unsynced>>
       \/ Fails(p, "rename", "io_error")
    /\ UNCHANGED <<rxVars, wire, link>>

\* A mutant of RxdSyncDirectory: copied is answered without it.
RxdSyncDirectory_omitted(p) ==
    /\ rxd[p] = "syncdir"
    /\ Answer(p, "copied")
    /\ UNCHANGED <<fileVars, rxVars, wire, link, remaining, unsynced>>

\* fsync of the directory, ignored when it fails, and the answer.
RxdSyncDirectory(p) ==
    /\ rxd[p] = "syncdir"
    /\ \/ SyncDirectory /\ UNCHANGED unsynced
       \/ /\ "syncdir" \in PutFaults[p]
          /\ unsynced' = unsynced \cup {p}
          /\ UNCHANGED fileVars
    /\ Answer(p, "copied")
    /\ UNCHANGED <<rxVars, wire, link, remaining>>

-----------------------------------------------------------------------------
(* The world *)

\* ssh breaks, or rx is killed: a prefix of what is under way arrives.
Cut(p) ==
    /\ "cut" \in PutFaults[p]
    /\ rx[p] \in {"send", "wait"} /\ link[p] = "up"
    /\ link' = [link EXCEPT ![p] = "cut"]
    /\ \E n \in 0 .. Len(wire[p]) : wire' = [wire EXCEPT ![p] = Keep(@, n)]
    /\ UNCHANGED <<fileVars, rxVars, rxdVars>>

\* rxd is killed; its temporary file stays.
RxdKilled(p) ==
    /\ "kill" \in PutFaults[p]
    /\ rxd[p] \notin {"idle", "gone"}
    /\ RxdGoto(p, "gone")
    /\ UNCHANGED <<fileVars, rxVars, wire, link, remaining, answer, unsynced>>

\* What the loss of power does to the puts under way.
PutLosePower ==
    /\ link' = [p \in Putters |-> IF rx[p] = "idle" THEN "up" ELSE "cut"]
    /\ rxd' = [p \in Putters |-> IF rx[p] = "idle" THEN "idle" ELSE "gone"]
    /\ wire' = [p \in Putters |-> <<>>]
    /\ UNCHANGED <<rxVars, remaining, answer, unsynced>>

RxPut(p) ==
    \/ RxRefuse(p) \/ RxRequest(p) \/ RxSend(p) \/ RxEnd(p)
    \/ RxSourceFails(p) \/ RxPipeBroken(p) \/ RxAnswer(p)

RxdPut(p) ==
    \/ RxdRequest(p) \/ RxdNoRequest(p) \/ RxdCreate(p)
    \/ RxdCopy(p) \/ RxdCopyEnd(p)
    \/ FramedHeader(p) \/ FramedPayload(p) \/ FramedTrailer(p) \/ FramedEof(p)
    \/ RxdSync(p) \/ RxdChmod(p) \/ RxdChown(p) \/ RxdRename(p) \/ RxdSyncDirectory(p)

PutNext == \E p \in Putters : RxPut(p) \/ RxdPut(p) \/ Cut(p) \/ RxdKilled(p)

-----------------------------------------------------------------------------
(* Properties *)

PutTypeOK ==
    /\ ask \in [Putters -> Request]
    /\ rx \in [Putters -> {"idle", "send", "wait", "done"}]
    /\ size \in [Putters -> 0 .. MaxLen]
    /\ sent \in [Putters -> 0 .. MaxLen]
    /\ ended \subseteq Putters
    /\ wire \in [Putters -> Seq(Tokens)]
    /\ link \in [Putters -> {"up", "cut"}]
    /\ rxd \in [Putters -> {"idle", "request", "create", "fill", "trailer", "sync", "chmod",
                            "chown", "rename", "syncdir", "gone"}]
    /\ remaining \in [Putters -> Nat]
    /\ answer \in [Putters -> {"none", "copied", "bad_request", "incomplete_transfer",
                               "empty_stream", "io_error", "unsupported", "internal"}]
    /\ result \in [Putters -> {"none", "copied", "refused", "transport", "io", "bad_request",
                               "incomplete_transfer", "empty_stream", "io_error",
                               "unsupported", "internal"}]
    /\ unsynced \subseteq Putters
    /\ \A p \in Putters : rx[p] = "done" <=> result[p] # "none"

\* The files this path has ever been renamed to, also when a loss of power
\* undid the rename.
Installed(p) == \E c \in contents : c[1] = p

\* Nothing half done is ever at the path: a file that is installed holds
\* exactly what rx read of its source (for a local file the size declared,
\* for stdin everything up to its end), it is not empty unless that was
\* allowed, and it has its mode and owner.  Also after a loss of power,
\* provided no fsync failed.
InstalledIsWhole ==
    \A p \in Putters \ unsynced : p \in ToSet(history) =>
        /\ data[p] = [k \in 1 .. Len(data[p]) |-> k]
        /\ ask[p].kind = "put" => Len(data[p]) = size[p]
        /\ ask[p].kind = "put_stream" =>
            /\ p \in ended /\ Len(data[p]) = sent[p]
            /\ sent[p] = 0 => ask[p].empty
        /\ ask[p].rights \subseteq perms[p]

\* What rx reports is true of the host: copied means the file was installed,
\* an error that rxd answered means it was not and that no temporary file
\* is left behind.  (When the transport failed, or rx could not read
\* its source to the end, rx knows neither.)
ReportsAreTrue ==
    \A p \in Putters :
        /\ result[p] = "copied" => Installed(p)
        /\ result[p] \notin {"none", "copied", "transport", "io"} => ~Installed(p)
        /\ result[p] \notin {"none", "transport"} => p \notin temps

\* A put that was reported copied survives a loss of power: its rename is
\* on the disk, provided no fsync failed.
CopiedSurvives ==
    \A p \in Putters \ unsynced :
        result[p] = "copied" => p \in ToSet(Keep(history, flushed))

=============================================================================
