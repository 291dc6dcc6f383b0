------------------------------- MODULE Deploy -------------------------------
(***************************************************************************)
(* Calls of rx to one host whose rxd may be missing, older, newer or of    *)
(* another protocol: the request with its automatic deploy and single      *)
(* retry, the three forms this takes (serve_request_auto_deploy, put_file, *)
(* put_stdin), and deploy itself.  The calls belong to rx programs of      *)
(* several versions, on several machines, so that pids may coincide; every *)
(* ssh may break, and its words are not its own: the host's are among them.*)
(***************************************************************************)
EXTENDS Integers

CONSTANTS
    Clients,      \* the calls of rx
    Pids,         \* the pids of rx programs
    Builds,       \* the builds of rx and rxd
    Rank,         \* [Builds -> Nat], the order of their versions
    Protocol,     \* [Builds -> Nat], the protocol each speaks
    StreamBuild,  \* the first build that knows put_stream
    Setups,       \* what a call may be, see Setup
    MaxCuts       \* how many ssh connections may break

\* A call: its rx and the pid of that, what it does, RX_AUTO_DEPLOY, and the
\* options of deploy.
Setup == [own: Builds,
          pid: Pids,
          op: {"run", "put", "put_stream", "deploy"},
          policy: {"off", "local", "on"},
          binary: Builds \cup {"none"},
          allow_downgrade: BOOLEAN,
          offline: BOOLEAN]

\* The steps of a call, and what it may print.
Steps   == {"serve", "retry", "auto_probe", "stream_probe", "report", "deploy_probe", "detect",
            "locate", "upload", "uploading", "chmod", "mv", "rm", "verify", "done"}
Answers == {"none", "answered", "transport", "not_deployed", "internal",
            "deployed", "current", "deploy_failed"}

\* What an error holds: words that classify_ssh_failure knows, a phrase of
\* should_auto_deploy, an answer that does not parse, or "auto-deploy to".
Words == {"transport", "phrase", "protocol", "auto_deploy"}

\* Where the file is that a call's scp writes: under the temporary name, under
\* that of rxd, or under none any more.
Places == {"none", "staged", "live", "gone"}

\* Pids need not differ: the calls may be of several machines.
ASSUME DeployAssumption ==
    /\ {"missing", "torn", "unknown", "none"} \cap Builds = {} /\ "none" \notin Clients
    /\ Rank \in [Builds -> Nat] /\ Protocol \in [Builds -> Nat]
    /\ \A a, b \in Builds : Rank[a] = Rank[b] => a = b
    /\ \A a, b \in Builds : Rank[a] < Rank[b] => Protocol[a] <= Protocol[b]
    /\ StreamBuild \in Builds
    /\ Setups \subseteq Setup
    /\ \A s \in Setups : s.op = "put_stream" => Rank[s.own] >= Rank[StreamBuild]
    /\ MaxCuts \in Nat

VARIABLES
    live,       \* ~/.local/bin/rxd of the host: a build, "missing" or "torn"
    staged,     \* [pid -> .rxd-deploy.PID.tmp, the same or "missing"]
    cached,     \* the calls whose machine has rxd of the own version cached
    setup,      \* what each call is
    step,       \* its next step
    open,       \* where the file is that its scp has open
    saw,        \* what its last probe took the rxd for, perhaps "unknown"
    err,        \* the words of its last error
    told,       \* what it prints
    ran,        \* how often the host carried its request out
    fetched,    \* the calls that downloaded a build
    installer,  \* the call that put the rxd there, or "none"
    overtaken,  \* whether an rxd was replaced by an older one or spoilt, by a
                \* call that was told to, had not seen it, or had clashed
    clashed,    \* the calls that had one temporary name at the same time
    mixed,      \* those of them that write where another writes something else,
                \* or has begun anew
    misled,     \* the calls that took a broken connection, or an rxd that was
                \* being written to, for a missing one
    cuts        \* how many connections broke

hostVars == <<live, staged, open, installer, overtaken, clashed, mixed>>
vars     == <<hostVars, cached, setup, step, saw, err, told, ran, fetched, misled, cuts>>

Own(c)    == setup[c].own
Pid(c)    == setup[c].pid
Op(c)     == setup[c].op
Policy(c) == setup[c].policy

\* implicit_deploy
MayDeploy(c) == Policy(c) # "off"

Newer(a, b) == Rank[a] > Rank[b]

Goto(c, l)  == step' = [step EXCEPT ![c] = l]
Told(c, v)  == step' = [step EXCEPT ![c] = "done"] /\ told' = [told EXCEPT ![c] = v]

Cut == cuts < MaxCuts /\ cuts' = cuts + 1

-----------------------------------------------------------------------------
(* The request, on the host *)

\* The rxd that can be executed: not while an scp has its file open, ETXTBSY.
Rxd == IF \E d \in Clients : open[d] = "live" THEN "torn" ELSE live

\* What the installed rxd can do with a request of this rx.  Of an rxd of
\* another protocol only this is known: an older one has no serve, a newer
\* one may do anything.
Accepts(c) ==
    /\ Rxd \in Builds
    /\ \/ Protocol[Rxd] = Protocol[Own(c)] /\ (Op(c) = "put_stream" => ~Newer(StreamBuild, Rxd))
       \/ Protocol[Rxd] > Protocol[Own(c)]

\* A connection that breaks leaves ssh's words, or none that say anything, and
\* among them whatever the host's login scripts have printed.
CutErrors == SUBSET {"transport", "phrase"}

\* How ssh or the answer fails when the rxd there does not take the request.
Refusals(c) ==
    CASE Rxd = "missing" -> {{"phrase"}}
      [] Rxd = "torn" -> {{}, {"phrase"}}
      [] Protocol[Rxd] < Protocol[Own(c)] -> {{"phrase"}}
      [] Protocol[Rxd] > Protocol[Own(c)] -> {{"phrase"}, {"protocol"}}
      [] OTHER -> {}

\* should_auto_deploy
LooksOld(e) == e \cap {"phrase", "protocol"} # {}

\* A run whose connection broke is retried after the deploy.
Failed_retries(c, e) ==
    /\ err' = [err EXCEPT ![c] = e]
    /\ Goto(c, IF step[c] = "serve" /\ MayDeploy(c) THEN "deploy_probe" ELSE "report")

\* What a call does about a request that failed: nothing the second time or
\* for a stream; put_file goes by the text of the error, the others probe.
Failed(c, e) ==
    /\ err' = [err EXCEPT ![c] = e]
    /\ Goto(c, IF step[c] = "serve" /\ Op(c) = "run" /\ "transport" \notin e THEN "auto_probe"
               ELSE IF step[c] = "serve" /\ Op(c) = "put" /\ MayDeploy(c) /\ LooksOld(e)
                    THEN "deploy_probe"
               ELSE "report")

Requesting(c) == step[c] \in {"serve", "retry"}

Run(c) == ran' = [ran EXCEPT ![c] = @ + 1]

\* A call that goes on to deploy on words that say nothing of the rxd.
Misled(c, wrong) == misled' = IF wrong /\ step'[c] = "deploy_probe" THEN misled \cup {c} ELSE misled

\* The request is carried out, and the answer arrives or does not.
ServeRuns(c) ==
    /\ Requesting(c) /\ Accepts(c)
    /\ Run(c)
    /\ \/ Told(c, "answered") /\ UNCHANGED <<err, cuts>>
       \/ Protocol[Rxd] > Protocol[Own(c)] /\ Failed(c, {"protocol"}) /\ UNCHANGED <<told, cuts>>
       \/ Cut /\ (\E e \in CutErrors : Failed(c, e)) /\ UNCHANGED told
    /\ Misled(c, cuts' # cuts /\ LooksOld(err'[c]))
    /\ UNCHANGED <<hostVars, cached, setup, saw, fetched>>

\* It is not; a same-protocol rxd without put_stream says so itself, and a
\* newer one may answer that it will not.
ServeRefuses(c) ==
    /\ Requesting(c)
    /\ \/ (\E e \in Refusals(c) : Failed(c, e)) /\ UNCHANGED <<told, cuts>>
       \/ Cut /\ (\E e \in CutErrors : Failed(c, e)) /\ UNCHANGED told
       \/ /\ Op(c) = "put_stream" /\ Rxd \in Builds
          /\ Protocol[Rxd] = Protocol[Own(c)] /\ Newer(StreamBuild, Rxd)
          /\ Told(c, "not_deployed") /\ UNCHANGED <<err, cuts>>
       \/ /\ Rxd \in Builds /\ Protocol[Rxd] > Protocol[Own(c)]
          /\ Told(c, "answered") /\ UNCHANGED <<err, cuts>>
    /\ UNCHANGED <<hostVars, cached, setup, saw, ran, fetched, misled>>

-----------------------------------------------------------------------------
(* remote_deploy_status, and what is made of it *)

\* deploy_status_from_probe_error
Take(e) == IF "transport" \notin e /\ LooksOld(e) THEN "missing" ELSE "unknown"

\* The rxd there answers version, or the error is taken for what it looks like.
Probe(c) ==
    \/ Rxd \in Builds /\ saw' = [saw EXCEPT ![c] = Rxd] /\ UNCHANGED cuts
    \/ Rxd \notin Builds /\ (\E e \in Refusals(c) : saw' = [saw EXCEPT ![c] = Take(e)]) /\ UNCHANGED cuts
    \/ Cut /\ \E e \in CutErrors : saw' = [saw EXCEPT ![c] = Take(e)]

Current(c, s)  == s \in Builds /\ Protocol[s] = Protocol[Own(c)]
NeedsRxd(c, s) == s = "missing" \/ (s \in Builds /\ Protocol[s] # Protocol[Own(c)])

AutoProbe(c) ==
    /\ step[c] = "auto_probe"
    /\ Probe(c)
    /\ \/ ~NeedsRxd(c, saw'[c]) /\ Goto(c, "report") /\ UNCHANGED told
       \/ NeedsRxd(c, saw'[c]) /\ MayDeploy(c) /\ Goto(c, "deploy_probe") /\ UNCHANGED told
       \/ NeedsRxd(c, saw'[c]) /\ ~MayDeploy(c) /\ Told(c, "not_deployed")
    /\ Misled(c, live \in Builds /\ saw'[c] # live)
    /\ UNCHANGED <<hostVars, cached, setup, err, ran, fetched>>

\* The same protocol is taken for enough.
StreamProbe_protocol(c) ==
    /\ step[c] = "stream_probe"
    /\ Probe(c)
    /\ Goto(c, IF NeedsRxd(c, saw'[c]) THEN "deploy_probe" ELSE "serve")
    /\ UNCHANGED <<hostVars, cached, setup, err, told, ran, fetched, misled>>

\* put_stdin: an rxd behind this rx has to go before stdin is read.
StreamProbe(c) ==
    /\ step[c] = "stream_probe"
    /\ Probe(c)
    /\ Goto(c, IF NeedsRxd(c, saw'[c]) \/ (Current(c, saw'[c]) /\ Newer(Own(c), saw'[c]))
               THEN "deploy_probe" ELSE "serve")
    /\ UNCHANGED <<hostVars, cached, setup, err, told, ran, fetched, misled>>

\* An error without a class is not looked into.
Report_unclassified(c) ==
    /\ step[c] = "report"
    /\ Probe(c)
    /\ Told(c, IF err[c] = {} THEN "none" ELSE "internal")
    /\ UNCHANGED <<hostVars, cached, setup, err, ran, fetched, misled>>

\* transport_error_json; it probes only if the error says nothing by itself.
Report(c) ==
    /\ step[c] = "report"
    /\ \/ "transport" \in err[c] /\ Told(c, "transport") /\ UNCHANGED <<saw, cuts>>
       \/ /\ "transport" \notin err[c] /\ "auto_deploy" \in err[c]
          /\ Told(c, "not_deployed") /\ UNCHANGED <<saw, cuts>>
       \/ /\ {"transport", "auto_deploy"} \cap err[c] = {}
          /\ Probe(c)
          /\ Told(c, IF NeedsRxd(c, saw'[c]) THEN "not_deployed" ELSE "internal")
    /\ UNCHANGED <<hostVars, cached, setup, err, ran, fetched, misled>>

-----------------------------------------------------------------------------
(* deploy_to_host_with *)

\* Options of an explicit deploy; an implicit one has those of its policy.
AllowsDowngrade(c) == Op(c) = "deploy" /\ setup[c].allow_downgrade
HasBinary(c)       == Op(c) = "deploy" /\ setup[c].binary # "none"

\* Every deploy may fetch, as deploy_to_host does.
MayFetch_always(c) == Op(c) = "deploy" => ~setup[c].offline

MayFetch(c) == IF Op(c) = "deploy" THEN ~setup[c].offline ELSE Policy(c) = "on"

\* The build a call uploads.
Upload(c) == IF HasBinary(c) THEN setup[c].binary ELSE Own(c)

\* The error of an automatic deploy repeats the one that it was to mend.
DeployFails(c, e) ==
    IF Op(c) = "deploy"
    THEN Told(c, IF "transport" \in e THEN "transport" ELSE "deploy_failed") /\ UNCHANGED err
    ELSE /\ err' = [err EXCEPT ![c] = @ \cup e \cup {"auto_deploy"}]
         /\ Goto(c, "report") /\ UNCHANGED told

DeployEnds(c, v) ==
    /\ \/ Op(c) = "deploy" /\ Told(c, v)
       \/ Op(c) = "put_stream" /\ Goto(c, "serve") /\ UNCHANGED told
       \/ Op(c) \in {"run", "put"} /\ Goto(c, "retry") /\ UNCHANGED told
    /\ UNCHANGED err

\* ssh or scp breaks, in words that are classified or not.
DeployCut(c) == Cut /\ \E e \in CutErrors : DeployFails(c, e)

\* Only a later build of the same protocol is spared.
Refused_same_protocol(c, s) == ~AllowsDowngrade(c) /\ Current(c, s) /\ Newer(s, Own(c))

\* downgrade_refusal: the rxd there is ahead, by protocol or by version.
Refused(c, s) ==
    /\ ~AllowsDowngrade(c)
    /\ s \in Builds
    /\ Protocol[s] > Protocol[Own(c)] \/ Newer(s, Own(c))

DeployProbe(c) ==
    /\ step[c] = "deploy_probe"
    /\ Probe(c)
    /\ \/ Refused(c, saw'[c]) /\ DeployFails(c, {})
       \/ ~Refused(c, saw'[c]) /\ Goto(c, "detect") /\ UNCHANGED <<told, err>>
    /\ UNCHANGED <<hostVars, cached, setup, ran, fetched, misled>>

\* detect_arch, and the end for a host that already runs this rxd.
Detect(c) ==
    /\ step[c] = "detect"
    /\ \/ DeployCut(c)
       \/ /\ ~HasBinary(c) /\ saw[c] = Own(c)
          /\ DeployEnds(c, "current") /\ UNCHANGED cuts
       \/ /\ HasBinary(c) \/ saw[c] # Own(c)
          /\ Goto(c, "locate") /\ UNCHANGED <<told, err, cuts>>
    /\ UNCHANGED <<hostVars, cached, setup, saw, ran, fetched, misled>>

\* binary_for_arch: the cache, or a download if that is allowed and works.
Locate(c) ==
    /\ step[c] = "locate"
    /\ \/ /\ HasBinary(c) \/ c \in cached
          /\ Goto(c, "upload") /\ UNCHANGED <<told, err, cached, fetched>>
       \/ /\ ~HasBinary(c) /\ c \notin cached /\ MayFetch(c)
          /\ cached' = cached \cup {c} /\ fetched' = fetched \cup {c}
          /\ Goto(c, "upload") /\ UNCHANGED <<told, err>>
       \/ /\ ~HasBinary(c) /\ c \notin cached
          /\ DeployFails(c, {}) /\ UNCHANGED <<cached, fetched>>
    /\ UNCHANGED <<hostVars, setup, saw, ran, misled, cuts>>

\* The steps at which a call has a file under the temporary name, and the other
\* calls that then have one under the same.
Holding    == {"uploading", "chmod", "mv", "rm"}
SameName(c) == {d \in Clients \ {c} : Pid(d) = Pid(c) /\ step[d] \in Holding}

Stage(c, b) == staged' = [staged EXCEPT ![Pid(c)] = b]

\* mkdir, and scp opens and truncates the temporary file, whoever has it open.
UploadBegin(c) ==
    /\ step[c] = "upload"
    /\ \/ /\ Stage(c, "torn") /\ open' = [open EXCEPT ![c] = "staged"]
          /\ clashed' = IF SameName(c) = {} THEN clashed ELSE clashed \cup SameName(c) \cup {c}
          /\ LET writing == {d \in SameName(c) : open[d] = "staged"} IN
             mixed' = mixed \cup writing
                            \cup (IF \E d \in writing : Upload(d) # Upload(c) THEN {c} ELSE {})
          /\ Goto(c, "uploading") /\ UNCHANGED <<told, err, cuts>>
       \/ DeployCut(c) /\ UNCHANGED <<staged, open, clashed, mixed>>
    /\ UNCHANGED <<live, installer, overtaken, cached, setup, saw, ran, fetched, misled>>

\* The rxd there gives way to an older one or to none, and not to a call that
\* has seen it, installs its own build, and has its temporary name to itself.
Overtakes(c) ==
    /\ live \in Builds /\ (live' \in Builds => Newer(live, live'))
    /\ saw[c] # live \/ AllowsDowngrade(c) \/ HasBinary(c) \/ c \in clashed

\* What the file of c holds, wherever it is.
Opened(c) == CASE open[c] = "staged" -> staged[Pid(c)]
               [] open[c] = "live" -> live
               [] OTHER -> "missing"

\* scp has ended and left one of bs; with others at the same file, also what
\* they have written, or parts of both.
Leaves(c, bs) ==
    \E b \in bs \cup (IF c \in mixed THEN {Opened(c), "torn"} ELSE {}) :
        /\ staged' = IF open[c] = "staged" THEN [staged EXCEPT ![Pid(c)] = b] ELSE staged
        /\ live' = IF open[c] = "live" THEN b ELSE live
        /\ open' = [open EXCEPT ![c] = "none"]
        /\ mixed' = mixed \ {c}
        /\ overtaken' = (overtaken \/ (open[c] = "live" /\ Overtakes(c)))

\* An scp that breaks is taken for a complete one.
UploadEnd_unchecked(c) ==
    /\ step[c] = "uploading"
    /\ \/ Leaves(c, {Upload(c)}) /\ UNCHANGED cuts
       \/ Leaves(c, {Opened(c)}) /\ Cut
    /\ Goto(c, "chmod")
    /\ UNCHANGED <<installer, clashed, cached, setup, saw, told, err, ran, fetched, misled>>

\* A broken scp leaves what it has written, perhaps all.
UploadEnd(c) ==
    /\ step[c] = "uploading"
    /\ \/ Leaves(c, {Upload(c)}) /\ Goto(c, "chmod") /\ UNCHANGED <<told, err, cuts>>
       \/ Leaves(c, {Opened(c), Upload(c)}) /\ DeployCut(c)
    /\ UNCHANGED <<installer, clashed, cached, setup, saw, ran, fetched, misled>>

\* chmod or mv fails: its connection breaks, or the file has gone.
InstallFails(c) ==
    /\ \/ Cut /\ \E e \in CutErrors : err' = [err EXCEPT ![c] = @ \cup e]
       \/ staged[Pid(c)] = "missing" /\ err' = [err EXCEPT ![c] = @ \cup {"phrase"}] /\ UNCHANGED cuts
    /\ Goto(c, "rm")

Chmod(c) ==
    /\ step[c] = "chmod"
    /\ \/ staged[Pid(c)] # "missing" /\ Goto(c, "mv") /\ UNCHANGED <<err, cuts>>
       \/ InstallFails(c)
    /\ UNCHANGED <<hostVars, cached, setup, saw, told, ran, fetched, misled>>

\* The file takes the place of the rxd there, with whoever has it open.
Install(c) ==
    /\ staged[Pid(c)] # "missing"
    /\ live' = staged[Pid(c)]
    /\ Stage(c, "missing")
    /\ open' = [d \in Clients |-> CASE open[d] = "live" -> "gone"
                                    [] open[d] = "staged" /\ Pid(d) = Pid(c) -> "live"
                                    [] OTHER -> open[d]]
    /\ installer' = c
    /\ overtaken' = (overtaken \/ Overtakes(c))
    /\ UNCHANGED <<clashed, mixed>>

\* ssh can break before mv has run and after.
Move(c) ==
    /\ step[c] = "mv"
    /\ \/ Install(c) /\ Goto(c, "verify") /\ UNCHANGED <<err, cuts>>
       \/ Install(c) /\ Cut /\ Goto(c, "rm") /\ \E e \in CutErrors : err' = [err EXCEPT ![c] = @ \cup e]
       \/ InstallFails(c) /\ UNCHANGED hostVars
    /\ UNCHANGED <<cached, setup, saw, told, ran, fetched, misled>>

\* Best effort, after chmod or mv failed.
Remove(c) ==
    /\ step[c] = "rm"
    /\ \/ /\ Stage(c, "missing") /\ UNCHANGED cuts
          /\ open' = [d \in Clients |-> IF open[d] = "staged" /\ Pid(d) = Pid(c) THEN "gone" ELSE open[d]]
       \/ Cut /\ UNCHANGED <<staged, open>>
    /\ DeployFails(c, err[c])
    /\ UNCHANGED <<live, installer, overtaken, clashed, mixed, cached, setup, saw, ran, fetched, misled>>

\* The deploy is trusted.
Verify_skipped(c) ==
    /\ step[c] = "verify"
    /\ DeployEnds(c, "deployed")
    /\ UNCHANGED <<hostVars, cached, setup, saw, ran, fetched, misled, cuts>>

\* verify_remote_version
Verify(c) ==
    /\ step[c] = "verify"
    /\ \/ DeployCut(c)
       \/ Current(c, Rxd) /\ DeployEnds(c, "deployed") /\ UNCHANGED cuts
       \/ ~Current(c, Rxd) /\ DeployFails(c, {}) /\ UNCHANGED cuts
    /\ UNCHANGED <<hostVars, cached, setup, saw, ran, fetched, misled>>

-----------------------------------------------------------------------------

FirstStep(s) == CASE s.op = "deploy" -> "deploy_probe"
                  [] s.op = "put_stream" /\ s.policy # "off" -> "stream_probe"
                  [] OTHER -> "serve"

Init ==
    /\ live \in Builds \cup {"missing"}
    /\ staged = [p \in Pids |-> "missing"]
    /\ open = [c \in Clients |-> "none"]
    /\ cached \in SUBSET Clients
    /\ setup \in [Clients -> Setups]
    /\ step = [c \in Clients |-> FirstStep(setup[c])]
    /\ saw = [c \in Clients |-> "unknown"]
    /\ err = [c \in Clients |-> {}]
    /\ told = [c \in Clients |-> "none"]
    /\ ran = [c \in Clients |-> 0]
    /\ fetched = {} /\ installer = "none" /\ overtaken = FALSE
    /\ clashed = {} /\ mixed = {} /\ misled = {}
    /\ cuts = 0

Request(c) == ServeRuns(c) \/ ServeRefuses(c) \/ AutoProbe(c) \/ StreamProbe(c) \/ Report(c)

DeployTo(c) ==
    \/ DeployProbe(c) \/ Detect(c) \/ Locate(c)
    \/ UploadBegin(c) \/ UploadEnd(c) \/ Chmod(c) \/ Move(c) \/ Remove(c) \/ Verify(c)

Finished == (\A c \in Clients : step[c] = "done") /\ UNCHANGED vars

Next == (\E c \in Clients : Request(c) \/ DeployTo(c)) \/ Finished

Spec == Init /\ [][Next]_vars

-----------------------------------------------------------------------------
(* Properties *)

TypeOK ==
    /\ live \in Builds \cup {"missing", "torn"}
    /\ staged \in [Pids -> Builds \cup {"missing", "torn"}]
    /\ cached \subseteq Clients /\ fetched \subseteq cached
    /\ setup \in [Clients -> Setups]
    /\ step \in [Clients -> Steps]
    /\ open \in [Clients -> Places]
    /\ saw \in [Clients -> Builds \cup {"missing", "unknown"}]
    /\ err \in [Clients -> SUBSET Words]
    /\ told \in [Clients -> Answers]
    /\ ran \in [Clients -> 0 .. 2]
    /\ installer \in Clients \cup {"none"}
    /\ overtaken \in BOOLEAN
    /\ mixed \subseteq clashed /\ clashed \subseteq Clients /\ misled \subseteq Clients
    /\ cuts \in 0 .. MaxCuts
    /\ \A c \in Clients : step[c] = "done" <=> told[c] # "none"

\* The retry behind an automatic deploy never carries a request out twice,
\* whatever other calls install meanwhile and wherever connections break:
\* only an rxd that did not take the request is replaced.  Excepted are a call
\* that took an error for a missing rxd by the words that the host has put into
\* it, and a host whose rxd somebody replaces by an older one, or spoils.
AtMostOnce == ~overtaken => \A c \in Clients : ran[c] <= 1 \/ c \in misled

\* The path of rxd never names a part of an upload, however the uploads of
\* several calls interleave and break, unless the call that renamed it there
\* had shared its temporary name with another.
LiveIsWhole == installer \notin clashed => live # "torn"

\* A deploy that had its temporary name to itself and is told to have worked
\* has put its own build there, and one this rx can talk to; it is still there
\* if nobody has installed since.
DeployedIsOwn ==
    \A c \in Clients \ clashed : told[c] = "deployed" /\ installer = c =>
        live = Upload(c) /\ Current(c, live)

\* rx replaces an rxd that is ahead of it only when told to, or when it is not
\* the one its probe has seen.
SparesTheNewer ==
    [][\A c \in Clients :
        /\ step[c] = "mv" /\ step'[c] # "mv" /\ installer' = c /\ live' # live
        /\ live \in Builds /\ Newer(live, Own(c))
        => AllowsDowngrade(c) \/ saw[c] # live]_vars

\* Hosts do not change under a call whose policy is off, and nothing is
\* downloaded by one whose policy is local or that is offline.
PolicyIsKept ==
    \A c \in Clients :
        /\ Op(c) # "deploy" /\ Policy(c) = "off" => installer # c /\ step[c] \notin Holding
        /\ c \in fetched => IF Op(c) = "deploy" THEN ~setup[c].offline ELSE Policy(c) = "on"

\* With a policy that allows a deploy, put - does not spend its stdin on an
\* rxd that is behind it, unless its probe could not tell, another call has put
\* that one there, or has shared its temporary name.
StreamIsNotWasted ==
    [][\A c \in Clients :
        /\ Op(c) = "put_stream" /\ MayDeploy(c)
        /\ step[c] = "serve" /\ step'[c] # "serve"
        => \/ live \in Builds /\ ~Newer(Own(c), live)
           \/ saw[c] = "unknown"
           \/ overtaken
           \/ c \in clashed]_vars
=============================================================================
