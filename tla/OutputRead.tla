----------------------------- MODULE OutputRead -----------------------------
(***************************************************************************)
(* The readers of a process's output: wait and the second half of run,     *)
(* which inline the tail of what an ended process wrote; follow, as rx     *)
(* shows it; the daemon's cache, which follows, and resumes when the       *)
(* connection breaks; and a drain, the loop of status and reads by which   *)
(* a client gets all of the output, from the host or from the cache.       *)
(***************************************************************************)
EXTENDS ProcessStreams

CONSTANTS
    Readers,       \* the readers
    ReadOps,       \* [Readers -> what each may ask]
    InlineCap,     \* the longest tail that is inlined
    EphemeralCap,  \* the longest output an ephemeral run removes
    Buffer,        \* how much follow reads at a time
    Limit,         \* how much one read of a drain returns
    MaxBreaks      \* how often a connection may break, or a daemon die

ReadOp == {"wait", "run", "ephemeral",  \* run, and run that removes
           "follow", "cache",
           "drain"}

ASSUME ReadAssumption ==
    /\ ReadOps \in [Readers -> SUBSET ReadOp]
    /\ InlineCap \in Nat /\ EphemeralCap \in Nat
    /\ Buffer \in Nat \ {0} /\ Limit \in Nat \ {0}
    /\ MaxBreaks \in Nat

VARIABLES
    want,    \* what each reader asks
    read,    \* its next step
    seen,    \* the size it has read, or the place follow is at
    found,   \* whether it could open the file the last time it tried
    flight,  \* what follow wrote and the client has not got yet
    got,     \* what the client has: the answer's tail, or the cache file
    answer,  \* what it is told
    breaks   \* how many connections broke

readVars == <<want, read, seen, found, flight, got, answer, breaks>>

Streaming == {"follow", "cache"}

ReadAt(r, l) == read' = [read EXCEPT ![r] = l]

Answer(r, v) == ReadAt(r, "done") /\ answer' = [answer EXCEPT ![r] = v]

\* The units of the file behind a place.
From(place) == [i \in 1 .. out - place |-> place + i]

-----------------------------------------------------------------------------
(* await_exit_or_timeout, completed_response and maybe_ephemeral_clean *)

ReadInit ==
    /\ want \in {a \in [Readers -> ReadOp] : \A r \in Readers : a[r] \in ReadOps[r]}
    /\ read = [r \in Readers |-> CASE want[r] = "follow" -> "open"
                                   [] want[r] = "cache" -> "spawn"
                                   [] want[r] = "wait" -> "poll"
                                   [] want[r] = "drain" -> "ask"
                                   [] OTHER -> "idle"]
    /\ seen = [r \in Readers |-> 0]
    /\ found = [r \in Readers |-> FALSE]
    /\ flight = [r \in Readers |-> <<>>]
    /\ got = [r \in Readers |-> <<>>]
    /\ answer = [r \in Readers |-> "none"]
    /\ breaks = 0

\* The process is over.
PollEnded(r) ==
    /\ read[r] = "poll" /\ Over
    /\ Resolved
    /\ ReadAt(r, "size")
    /\ UNCHANGED <<dir, processVars, killer, pipeVars, out,
                   want, seen, found, flight, got, answer, breaks>>

\* The time-out.
PollTimesOut(r) ==
    /\ read[r] = "poll" /\ ~Over
    /\ Answer(r, "running")
    /\ UNCHANGED <<streamVars, want, seen, found, flight, got, breaks>>

TailSize(r) ==
    /\ read[r] = "size"
    /\ seen' = [seen EXCEPT ![r] = IF dir THEN out ELSE 0]
    /\ ReadAt(r, "tail")
    /\ UNCHANGED <<streamVars, want, found, flight, got, answer, breaks>>

TailStart(r) == IF seen[r] > InlineCap THEN seen[r] - InlineCap ELSE 0

\* An ephemeral run always removes.
Removable_even_truncated(r) == want[r] = "ephemeral"

\* The tail is all of the output, and not too long.
Removable(r) ==
    /\ want[r] = "ephemeral"
    /\ TailStart(r) = 0
    /\ seen[r] <= EphemeralCap

\* read_to_end of a file that was opened stays possible when its directory
\* goes; one that is gone is inlined as nothing.
TailRead(r) ==
    /\ read[r] = "tail"
    /\ found' = [found EXCEPT ![r] = dir]
    /\ got' = [got EXCEPT ![r] = IF dir THEN From(TailStart(r)) ELSE <<>>]
    /\ answer' = [answer EXCEPT ![r] = "completed"]
    /\ ReadAt(r, IF Removable(r) THEN "clean" ELSE "done")
    /\ UNCHANGED <<streamVars, want, seen, flight, breaks>>

EphemeralClean(r) ==
    /\ read[r] = "clean"
    /\ RemoveProcessDir
    /\ ReadAt(r, "done")
    /\ UNCHANGED <<want, seen, found, flight, got, answer, breaks>>

-----------------------------------------------------------------------------
(* follow: rxd's side *)

\* The resumed stream begins at the start again.
FollowOpen_from_the_start(r) ==
    /\ read[r] = "open"
    /\ found' = [found EXCEPT ![r] = dir]
    /\ seen' = [seen EXCEPT ![r] = 0]
    /\ ReadAt(r, IF dir THEN "read" ELSE "ended")
    /\ UNCHANGED <<streamVars, want, flight, got, answer, breaks>>

\* rx follow starts at the beginning, a cache goes on behind what it has;
\* without the file follow ends at once, and well.
FollowOpen(r) ==
    /\ read[r] = "open"
    /\ found' = [found EXCEPT ![r] = dir]
    /\ seen' = [seen EXCEPT ![r] = Len(got[r])]
    /\ ReadAt(r, IF dir THEN "read" ELSE "ended")
    /\ UNCHANGED <<streamVars, want, flight, got, answer, breaks>>

\* One read, and what it found is written to the client.
Forward(r) ==
    LET n == IF out - seen[r] < Buffer THEN out - seen[r] ELSE Buffer
    IN  /\ out > seen[r]
        /\ seen' = [seen EXCEPT ![r] = @ + n]
        /\ flight' = [flight EXCEPT ![r] = @ \o SubSeq(From(seen[r]), 1, n)]

\* An end of file is slept over, without a look at the status.
FollowRead_only_sleeps(r) ==
    /\ read[r] = "read"
    /\ Forward(r)
    /\ UNCHANGED <<read, streamVars, want, found, got, answer, breaks>>

FollowRead(r) ==
    /\ read[r] = "read"
    /\ \/ Forward(r) /\ UNCHANGED read
       \/ out = seen[r] /\ ReadAt(r, "status") /\ UNCHANGED <<seen, flight>>
    /\ UNCHANGED <<streamVars, want, found, got, answer, breaks>>

\* No final drain.
FollowStatus_ends(r) ==
    /\ read[r] = "status"
    /\ ReadAt(r, IF dir /\ status = "ended" THEN "ended" ELSE "read")
    /\ UNCHANGED <<streamVars, want, seen, found, flight, got, answer, breaks>>

\* After an empty read; the file can grow until the status is read.  A
\* status that cannot be read is taken for running.
FollowStatus(r) ==
    /\ read[r] = "status"
    /\ ReadAt(r, IF dir /\ status = "ended" THEN "drain" ELSE "read")
    /\ UNCHANGED <<streamVars, want, seen, found, flight, got, answer, breaks>>

FollowDrain(r) ==
    /\ read[r] = "drain"
    /\ \/ Forward(r) /\ UNCHANGED read
       \/ out = seen[r] /\ ReadAt(r, "ended") /\ UNCHANGED <<seen, flight>>
    /\ UNCHANGED <<streamVars, want, found, got, answer, breaks>>

-----------------------------------------------------------------------------
(* The client: rx follow, or the daemon's thread *)

Arrive(r) ==
    /\ flight[r] # <<>>
    /\ got' = [got EXCEPT ![r] = Append(@, Head(flight[r]))]
    /\ flight' = [flight EXCEPT ![r] = Tail(@)]
    /\ UNCHANGED <<streamVars, want, read, seen, found, answer, breaks>>

\* ssh exits with 0 after rxd has: the stream is complete.
StreamEnds(r) ==
    /\ read[r] = "ended" /\ flight[r] = <<>>
    /\ Answer(r, "ended")
    /\ UNCHANGED <<streamVars, want, seen, found, flight, got, breaks>>

\* ssh fails, and what was under way is lost.  rx ends; the daemon backs off
\* and follows again, from the size of its file.
Break(r) ==
    /\ want[r] \in Streaming /\ read[r] \notin {"spawn", "open", "done"}
    /\ breaks < MaxBreaks
    /\ breaks' = breaks + 1
    /\ flight' = [flight EXCEPT ![r] = <<>>]
    /\ \/ /\ want[r] = "cache"
          /\ ReadAt(r, IF read[r] = "unlinked" THEN "spawn" ELSE "open")
          /\ UNCHANGED answer
       \/ want[r] = "follow" /\ Answer(r, "broken")
    /\ UNCHANGED <<streamVars, want, seen, found, got>>

-----------------------------------------------------------------------------
(* The cache file of the daemon that started the process *)

\* handle_start leaves the file to the thread that will fill it.
CacheSpawn(c) ==
    /\ read[c] = "spawn"
    /\ ReadAt(c, "open")
    /\ UNCHANGED <<streamVars, want, seen, found, flight, got, answer, breaks>>

\* A clean through the daemon unlinks its files for the host, also those of
\* processes that run on, whose threads go on writing for nobody.
CacheCleared(c) ==
    /\ MayClean /\ want[c] = "cache" /\ read[c] \notin {"spawn", "unlinked"}
    /\ answer[c] # "cleared"
    /\ got' = [got EXCEPT ![c] = <<>>] /\ flight' = [flight EXCEPT ![c] = <<>>]
    /\ IF read[c] = "done"
       THEN Answer(c, "cleared")
       ELSE ReadAt(c, "unlinked") /\ UNCHANGED answer
    /\ UNCHANGED <<streamVars, want, seen, found, breaks>>

CacheRunsOut(c) ==
    /\ read[c] = "unlinked" /\ command = "gone"
    /\ Answer(c, "cleared")
    /\ UNCHANGED <<streamVars, want, seen, found, flight, got, breaks>>

\* The daemon ends.  The next one knows nothing of the stream, and serves the
\* file as it is.
CacheLost(c) ==
    /\ want[c] = "cache" /\ read[c] # "done"
    /\ breaks < MaxBreaks
    /\ breaks' = breaks + 1
    /\ flight' = [flight EXCEPT ![c] = <<>>]
    /\ Answer(c, IF read[c] \in {"spawn", "unlinked"} THEN "cleared" ELSE "lost")
    /\ UNCHANGED <<streamVars, want, seen, found, got>>

Cached == {c \in Readers : /\ want[c] = "cache" /\ answer[c] # "cleared"
                           /\ read[c] \notin {"spawn", "unlinked"}}

-----------------------------------------------------------------------------
(* A drain: status, then read_output or handle_read until there is no more *)

DrainAsk(r) ==
    /\ read[r] = "ask"
    /\ IF dir THEN ReadAt(r, IF Over THEN "last" ELSE "page") /\ UNCHANGED answer
              ELSE Answer(r, "not_found")
    /\ Resolved
    /\ UNCHANGED <<dir, processVars, killer, pipeVars, out,
                   want, seen, found, flight, got, breaks>>

\* What the file holds behind the place, up to the limit.
DrainPage(r, file) ==
    LET place == Len(got[r])
        end   == IF Len(file) < place + Limit THEN Len(file) ELSE place + Limit
    IN  /\ got' = [got EXCEPT ![r] = @ \o SubSeq(file, place + 1, end)]
        /\ UNCHANGED <<read, answer>>

\* A size that is the offset: there is no more now, or, behind a status that
\* says the process is over, at all.  The client cannot tell the output from a
\* cache that is behind it.
DrainRead(r, file) ==
    /\ read[r] \in {"page", "last"}
    /\ \/ /\ Len(got[r]) # Len(file)
          /\ DrainPage(r, file)
       \/ /\ Len(got[r]) = Len(file)
          /\ IF read[r] = "last" THEN Answer(r, "drained") ELSE ReadAt(r, "ask") /\ UNCHANGED answer
          /\ UNCHANGED got
    /\ UNCHANGED <<streamVars, want, seen, found, flight, breaks>>

DrainGone(r) ==
    /\ read[r] \in {"page", "last"} /\ ~dir
    /\ Answer(r, "not_found")
    /\ UNCHANGED <<streamVars, want, seen, found, flight, got, breaks>>

\* Each read goes to the host, or, with RX_DAEMON set, to the cache.
Drain(r) ==
    \/ DrainAsk(r) \/ DrainGone(r)
    \/ dir /\ DrainRead(r, From(0))
    \/ \E c \in Cached : DrainRead(r, got[c])

-----------------------------------------------------------------------------

Tailing(r) == TailSize(r) \/ TailRead(r) \/ EphemeralClean(r)

Following(r) ==
    \/ FollowOpen(r) \/ FollowRead(r) \/ FollowStatus(r) \/ FollowDrain(r) \/ StreamEnds(r)
    \/ CacheSpawn(r) \/ CacheRunsOut(r)

ReadNext ==
    \E r \in Readers :
        \/ PollEnded(r) \/ PollTimesOut(r) \/ Tailing(r)
        \/ Following(r) \/ Arrive(r) \/ Break(r)
        \/ CacheCleared(r) \/ CacheLost(r) \/ Drain(r)

ReadTypeOK ==
    /\ want \in [Readers -> ReadOp]
    /\ read \in [Readers -> {"idle", "poll", "size", "tail", "clean", "open", "read", "status",
                             "drain", "ended", "done", "spawn", "unlinked",
                             "ask", "page", "last"}]
    /\ seen \in [Readers -> 0 .. MaxOut]
    /\ found \in [Readers -> BOOLEAN]
    /\ flight \in [Readers -> Seq(1 .. MaxOut)]
    /\ got \in [Readers -> Seq(1 .. MaxOut)]
    /\ answer \in [Readers -> {"none", "running", "completed", "ended", "broken", "cleared",
                               "lost", "drained", "not_found"}]
    /\ breaks \in 0 .. MaxBreaks
    /\ \A r \in Readers : flight[r] # <<>> => read[r] \in {"read", "status", "drain", "ended"}

-----------------------------------------------------------------------------
(* Properties *)

\* The cache, what rx has shown, and what a client has read page by page from
\* either, is the beginning of the output, however often the connection
\* broke: nothing is missing in it and nothing is twice.
CacheIsPrefix ==
    \A r \in Readers : want[r] \in Streaming \cup {"drain"} =>
        got[r] \o flight[r] = [i \in 1 .. Len(got[r] \o flight[r]) |-> i]

\* A stream that is told to be at its end is complete: the process is over,
\* and nothing it wrote is missing.
EndedIsWhole ==
    \A r \in Readers : answer[r] = "ended" /\ found[r] =>
        /\ command = "gone"
        /\ Len(got[r]) = out

\* An answer of wait or run that holds output holds the last of it, up to
\* the cap, and an ephemeral run removes only what its answer holds in full.
TailIsTrue ==
    \A r \in Readers : answer[r] = "completed" /\ found[r] =>
        /\ command = "gone"
        /\ got[r] = From(IF out > InlineCap THEN out - InlineCap ELSE 0)
        /\ read[r] = "clean" => Len(got[r]) = out /\ out <= EphemeralCap
=============================================================================
