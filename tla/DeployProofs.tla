---------------------------- MODULE DeployProofs ----------------------------
(***************************************************************************)
(* What deploy and the retry behind it promise, proved for any number of   *)
(* calls, any builds, versions and protocols that only grow, and any       *)
(* number of broken connections.                                           *)
(***************************************************************************)
EXTENDS Deploy, TLAPS

USE DEF hostVars, vars

-----------------------------------------------------------------------------
(* The inductive invariant *)

\* The steps of a deploy; those behind the downgrade guard.
Behind      == {"detect", "locate", "upload", "uploading", "chmod", "mv", "rm", "verify"}
DeploySteps == Behind \cup {"deploy_probe"}

\* b is a build, and no earlier one than a.
AtLeast(b, a) == b \in Builds /\ ~Newer(a, b)

\* Whoever has a temporary name beside another has clashed.
Apart ==
    \A c, d \in Clients :
        c # d /\ Pid(c) = Pid(d) /\ step[c] \in Holding /\ step[d] \in Holding => c \in clashed

\* Who has a file open, and where it can be.
Opens ==
    \A d \in Clients :
        /\ step[d] = "uploading" <=> open[d] # "none"
        /\ d \notin clashed /\ open[d] # "none" => open[d] = "staged"
        /\ open[d] = "live" => installer \in clashed

\* Who may be where, and how often its request can have run by then.
Lawful(c) ==
    /\ step[c] = "serve" => Op(c) # "deploy" /\ ran[c] = 0
    /\ step[c] = "stream_probe" => Op(c) = "put_stream" /\ MayDeploy(c) /\ ran[c] = 0
    /\ step[c] = "auto_probe" => Op(c) = "run"
    /\ step[c] = "retry" => Op(c) \in {"run", "put"}
    /\ step[c] \in DeploySteps =>
        /\ Op(c) = "deploy" \/ MayDeploy(c)
        /\ Op(c) = "put_stream" => ran[c] = 0
    /\ step[c] \notin {"report", "done"} => ran[c] <= 1
    /\ ran[c] # 0 => Op(c) # "deploy"
    /\ Op(c) # "deploy" /\ ~MayDeploy(c) => installer # c
    /\ c \in fetched => MayFetch(c)

\* What has been staged.
Prepared(c) == step[c] \in {"chmod", "mv"} /\ c \notin clashed => staged[Pid(c)] = Upload(c)

\* Whoever is behind the guard has seen nothing that it would spare.
Guarded(c) ==
    step[c] \in Behind /\ ~AllowsDowngrade(c) /\ saw[c] \in Builds =>
        ~Newer(saw[c], Own(c)) /\ Protocol[saw[c]] <= Protocol[Own(c)]

\* The last to install has its build there, if it had the name to itself.
Installed(c) ==
    installer = c /\ c \notin clashed =>
        /\ live = Upload(c)
        /\ told[c] = "deployed" => Current(c, live)

\* While no rxd has been replaced by an older one: what a call saw, or what
\* took its request, is still there or was followed by a later build; a call
\* whose request ran goes through a deploy only with an rxd of a newer
\* protocol there that it does not see; and a stream waits for its rxd.
Onward(c) ==
    /\ saw[c] \in Builds => AtLeast(live, saw[c])
    /\ ran[c] # 0 => live \in Builds /\ Protocol[live] >= Protocol[Own(c)]
    /\ c \notin misled =>
        /\ ran[c] # 0 /\ step[c] \in DeploySteps => Protocol[live] > Protocol[Own(c)]
        /\ ran[c] # 0 /\ step[c] \in Behind => saw[c] \notin Builds
        /\ ran[c] # 0 => step[c] # "retry"
        /\ ran[c] <= 1
    /\ Op(c) # "deploy" /\ step[c] = "verify" /\ c \notin clashed => AtLeast(live, Own(c))
    /\ Op(c) = "put_stream" /\ MayDeploy(c) /\ step[c] = "serve" =>
        saw[c] = "unknown" \/ AtLeast(live, Own(c)) \/ c \in clashed

CallOK(c) ==
    Lawful(c) /\ Prepared(c) /\ Guarded(c) /\ Installed(c) /\ (~overtaken => Onward(c))

\* The inductive invariant.
CallsOK == TypeOK /\ Apart /\ Opens /\ LiveIsWhole /\ \A c \in Clients : CallOK(c)

-----------------------------------------------------------------------------
(* Builds *)

\* A later build speaks no earlier protocol.
LEMMA LaterProtocol ==
    ASSUME NEW a \in Builds, NEW b \in Builds, ~Newer(a, b)
    PROVE  Protocol[a] <= Protocol[b]
<1>1. Rank[a] \in Nat /\ Rank[b] \in Nat /\ Protocol[a] \in Nat /\ Protocol[b] \in Nat
  BY DeployAssumption
<1>2. Rank[a] < Rank[b] \/ Rank[a] = Rank[b]
  BY <1>1 DEF Newer
<1>3. Rank[a] = Rank[b] => a = b
  BY DeployAssumption
<1>4. Rank[a] < Rank[b] => Protocol[a] <= Protocol[b]
  BY DeployAssumption
<1>5. QED
  BY <1>1, <1>2, <1>3, <1>4

\* Being no earlier is transitive.
LEMMA AtLeastTransitive ==
    ASSUME NEW a \in Builds, NEW b \in Builds, NEW e, AtLeast(b, a), AtLeast(e, b)
    PROVE  AtLeast(e, a)
<1>1. e \in Builds
  BY DEF AtLeast
<1>2. Rank[a] \in Nat /\ Rank[b] \in Nat /\ Rank[e] \in Nat
  BY <1>1, DeployAssumption
<1>3. QED
  BY <1>1, <1>2 DEF AtLeast, Newer

\* What the path of rxd may hold besides is no build.
LEMMA NoBuild == "missing" \notin Builds /\ "torn" \notin Builds /\ "unknown" \notin Builds
  BY DeployAssumption

LEMMA AtLeastReflexive ==
    ASSUME NEW a \in Builds
    PROVE  AtLeast(a, a)
  BY DeployAssumption DEF AtLeast, Newer

\* The builds that a call is about.
LEMMA SetupType ==
    ASSUME TypeOK, NEW c \in Clients
    PROVE  /\ Own(c) \in Builds /\ Upload(c) \in Builds /\ Pid(c) \in Pids
           /\ Op(c) \in {"run", "put", "put_stream", "deploy"}
           /\ Policy(c) \in {"off", "local", "on"}
           /\ Protocol[Own(c)] \in Nat
<1>1. setup[c] \in Setup
  BY DeployAssumption DEF TypeOK
<1>2. QED
  BY <1>1, DeployAssumption DEF Setup, Own, Op, Pid, Policy, Upload, HasBinary

-----------------------------------------------------------------------------
(* The rxd that is there *)

\* An rxd that answers is the one that is installed.
LEMMA RxdIsLive ==
    ASSUME Rxd \in Builds
    PROVE  Rxd = live
  BY NoBuild DEF Rxd

\* What an error can hold, and be taken for.
LEMMA ErrorTypes ==
    ASSUME NEW c \in Clients
    PROVE  /\ \A e \in CutErrors : e \subseteq Words
           /\ \A e \in Refusals(c) : e \subseteq Words
           /\ \A e : Take(e) \in {"missing", "unknown"}
<1>1. \A e \in CutErrors : e \subseteq Words
  BY DEF CutErrors, Words
<1>2. \A e \in Refusals(c) : e \subseteq Words
  <2>1. Refusals(c) \subseteq {{}, {"phrase"}, {"protocol"}}
    BY DEF Refusals
  <2>2. QED
    BY <2>1 DEF Words
<1>3. QED
  BY <1>1, <1>2 DEF Take

\* A probe sees the rxd that is there, or no build.
LEMMA ProbeSees ==
    ASSUME TypeOK, NEW c \in Clients, Probe(c)
    PROVE  /\ saw' \in [Clients -> Builds \cup {"missing", "unknown"}]
           /\ saw' = [saw EXCEPT ![c] = saw'[c]]
           /\ saw'[c] \in Builds => saw'[c] = live
           /\ saw'[c] \in Builds \cup {"missing", "unknown"}
           /\ cuts' \in 0 .. MaxCuts
<1>1. PICK v : saw' = [saw EXCEPT ![c] = v] /\ (v \in {"missing", "unknown"} \/ (v = Rxd /\ v \in Builds))
  BY ErrorTypes DEF Probe
<1>2. saw'[c] = v
  BY <1>1 DEF TypeOK
<1>3. v \in Builds => v = live
  BY <1>1, RxdIsLive, NoBuild
<1>4. cuts' \in 0 .. MaxCuts
  BY DeployAssumption DEF Probe, Cut, TypeOK
<1>5. QED
  BY <1>1, <1>2, <1>3, <1>4 DEF TypeOK

-----------------------------------------------------------------------------
(* Types *)

\* Where a call goes, what it is told and what went wrong stay typed.
Answering(c) ==
    /\ step' \in [Clients -> Steps] /\ step' = [step EXCEPT ![c] = step'[c]]
    /\ told' \in [Clients -> Answers] /\ told' = [told EXCEPT ![c] = told'[c]]
    /\ err' \in [Clients -> SUBSET Words]
    /\ step'[c] = "done" <=> told'[c] # "none"

LEMMA GoesTyped ==
    ASSUME TypeOK, NEW c \in Clients, NEW l \in Steps \ {"done"}, step[c] # "done",
           Goto(c, l), told' = told, err' \in [Clients -> SUBSET Words]
    PROVE  Answering(c)
  BY DEF TypeOK, Goto, Answering

LEMMA ToldTyped ==
    ASSUME TypeOK, NEW c \in Clients, NEW v \in Answers \ {"none"},
           Told(c, v), err' \in [Clients -> SUBSET Words]
    PROVE  Answering(c)
  BY DEF TypeOK, Told, Answering, Steps

LEMMA FailedTyped ==
    ASSUME TypeOK, NEW c \in Clients, NEW e \in SUBSET Words, Failed(c, e), told' = told, step[c] # "done"
    PROVE  Answering(c)
<1>1. err' \in [Clients -> SUBSET Words]
  BY DEF Failed, TypeOK
<1>2. PICK l \in {"auto_probe", "deploy_probe", "report"} : Goto(c, l)
  BY DEF Failed
<1>3. QED
  BY <1>1, <1>2, GoesTyped DEF Steps

LEMMA DeployFailsTyped ==
    ASSUME TypeOK, NEW c \in Clients, NEW e \in SUBSET Words, DeployFails(c, e), step[c] # "done"
    PROVE  Answering(c)
<1>1. CASE Op(c) = "deploy"
  <2>1. err' \in [Clients -> SUBSET Words]
    BY <1>1 DEF DeployFails, TypeOK
  <2>2. PICK v \in {"transport", "deploy_failed"} : Told(c, v)
    BY <1>1 DEF DeployFails
  <2>3. QED
    BY <2>1, <2>2, ToldTyped DEF Answers
<1>2. CASE Op(c) # "deploy"
  <2>1. err' = [err EXCEPT ![c] = @ \cup e \cup {"auto_deploy"}] /\ Goto(c, "report") /\ told' = told
    BY <1>2 DEF DeployFails
  <2>2. err' \in [Clients -> SUBSET Words]
    BY <2>1 DEF TypeOK, Words
  <2>3. QED
    BY <2>1, <2>2, GoesTyped DEF Steps
<1>3. QED
  BY <1>1, <1>2

LEMMA DeployEndsTyped ==
    ASSUME TypeOK, NEW c \in Clients, NEW v \in {"current", "deployed"}, DeployEnds(c, v), step[c] # "done"
    PROVE  Answering(c)
<1>1. err' \in [Clients -> SUBSET Words]
  BY DEF DeployEnds, TypeOK
<1>2. CASE Told(c, v)
  BY <1>1, <1>2, ToldTyped DEF Answers
<1>3. CASE \E l \in {"serve", "retry"} : Goto(c, l) /\ told' = told
  BY <1>1, <1>3, GoesTyped DEF Steps
<1>4. QED
  BY <1>2, <1>3 DEF DeployEnds

LEMMA CutTyped == ASSUME TypeOK, Cut PROVE cuts' \in 0 .. MaxCuts
  BY DeployAssumption DEF Cut, TypeOK

\* A step that leaves the host alone.
LEMMA QuietTyped ==
    ASSUME TypeOK, NEW c \in Clients, Answering(c), UNCHANGED <<hostVars, cached, setup, fetched>>,
           saw' \in [Clients -> Builds \cup {"missing", "unknown"}], ran' \in [Clients -> 0 .. 2],
           misled' \subseteq Clients, cuts' \in 0 .. MaxCuts
    PROVE  TypeOK'
<1>1. \A d \in Clients : step'[d] = "done" <=> told'[d] # "none"
  BY DEF TypeOK, Answering
<1>2. QED
  BY <1>1 DEF TypeOK, Answering

LEMMA RequestTyped ==
    ASSUME CallsOK, NEW c \in Clients, Request(c)
    PROVE  TypeOK' /\ Answering(c)
<1> USE DEF CallsOK
<1>0. TypeOK /\ step[c] # "done" => told[c] = "none"
  BY DEF TypeOK
<1>1. CASE ServeRuns(c)
  <2>1. ran' \in [Clients -> 0 .. 2] /\ misled' \subseteq Clients /\ cuts' \in 0 .. MaxCuts
    BY <1>1, CutTyped DEF ServeRuns, Run, Misled, Requesting, CallOK, Lawful, TypeOK
  <2>2. Told(c, "answered") /\ UNCHANGED err => Answering(c)
    BY <1>0, ToldTyped DEF Answers, TypeOK
  <2>3. \A e \in SUBSET Words : Failed(c, e) /\ UNCHANGED told => Answering(c)
    BY <1>0, <1>1, FailedTyped DEF ServeRuns, Requesting
  <2>4. Answering(c)
    BY <1>1, <2>2, <2>3, ErrorTypes DEF ServeRuns, Words
  <2>5. QED
    BY <1>1, <2>1, <2>4, QuietTyped DEF ServeRuns, TypeOK
<1>2. CASE ServeRefuses(c)
  <2>1. cuts' \in 0 .. MaxCuts
    BY <1>2, CutTyped DEF ServeRefuses, TypeOK
  <2>2. \A v \in {"answered", "not_deployed"} : Told(c, v) /\ UNCHANGED err => Answering(c)
    BY <1>0, ToldTyped DEF Answers, TypeOK
  <2>3. \A e \in SUBSET Words : Failed(c, e) /\ UNCHANGED told => Answering(c)
    BY <1>0, <1>2, FailedTyped DEF ServeRefuses, Requesting
  <2>4. Answering(c)
    BY <1>2, <2>2, <2>3, ErrorTypes DEF ServeRefuses
  <2>5. QED
    BY <1>2, <2>1, <2>4, QuietTyped DEF ServeRefuses, TypeOK
<1>3. CASE AutoProbe(c)
  <2>1. Answering(c)
    <3>1. err' \in [Clients -> SUBSET Words] /\ step[c] # "done"
      BY <1>3 DEF AutoProbe, TypeOK
    <3>2. CASE \E l \in {"report", "deploy_probe"} : Goto(c, l) /\ UNCHANGED told
      BY <3>1, <3>2, GoesTyped DEF Steps
    <3>3. CASE Told(c, "not_deployed")
      BY <3>1, <3>3, ToldTyped DEF Answers
    <3>4. QED
      BY <1>3, <3>2, <3>3 DEF AutoProbe
  <2>2. misled' \subseteq Clients
    BY <1>3 DEF AutoProbe, Misled, TypeOK
  <2>3. QED
    BY <1>3, <2>1, <2>2, ProbeSees, QuietTyped DEF AutoProbe, TypeOK
<1>4. CASE StreamProbe(c)
  <2>1. Answering(c)
    <3>1. err' \in [Clients -> SUBSET Words] /\ step[c] # "done" /\ UNCHANGED told
      BY <1>4 DEF StreamProbe, TypeOK
    <3>2. PICK l \in {"serve", "deploy_probe"} : Goto(c, l)
      BY <1>4 DEF StreamProbe
    <3>3. QED
      BY <3>1, <3>2, GoesTyped DEF Steps
  <2>2. QED
    BY <1>4, <2>1, ProbeSees, QuietTyped DEF StreamProbe, TypeOK
<1>5. CASE Report(c)
  <2>1. err' \in [Clients -> SUBSET Words]
    BY <1>5 DEF Report, TypeOK
  <2>2. PICK v \in {"transport", "not_deployed", "internal"} : Told(c, v)
    BY <1>5 DEF Report
  <2>3. Answering(c)
    BY <2>1, <2>2, ToldTyped DEF Answers
  <2>4. saw' \in [Clients -> Builds \cup {"missing", "unknown"}] /\ cuts' \in 0 .. MaxCuts
    BY <1>5, ProbeSees DEF Report, TypeOK
  <2>5. QED
    BY <1>5, <2>3, <2>4, QuietTyped DEF Report, TypeOK
<1>6. QED
  BY <1>1, <1>2, <1>3, <1>4, <1>5 DEF Request

\* The steps of a deploy up to its upload, and the last.
LEMMA QuietDeployTyped ==
    ASSUME CallsOK, NEW c \in Clients,
           DeployProbe(c) \/ Detect(c) \/ Locate(c) \/ Chmod(c) \/ Verify(c)
    PROVE  TypeOK' /\ Answering(c)
<1> USE DEF CallsOK
<1>f. ASSUME DeployCut(c), step[c] # "done" PROVE Answering(c) /\ cuts' \in 0 .. MaxCuts
  BY <1>f, DeployFailsTyped, ErrorTypes, CutTyped DEF DeployCut
<1>g. {} \in SUBSET Words
  OBVIOUS
<1>1. CASE DeployProbe(c)
  <2>1. CASE Goto(c, "detect") /\ UNCHANGED <<told, err>>
    <3>1. Answering(c)
      BY <1>1, <2>1, GoesTyped DEF DeployProbe, TypeOK, Steps
    <3>2. QED
      BY <1>1, <3>1, ProbeSees, QuietTyped DEF DeployProbe, TypeOK
  <2>2. CASE DeployFails(c, {})
    <3>1. Answering(c)
      BY <1>1, <1>g, <2>2, DeployFailsTyped DEF DeployProbe
    <3>2. QED
      BY <1>1, <3>1, ProbeSees, QuietTyped DEF DeployProbe, TypeOK
  <2>3. QED
    BY <1>1, <2>1, <2>2 DEF DeployProbe
<1>2. CASE Detect(c)
  <2>1. step[c] # "done"
    BY <1>2 DEF Detect
  <2>2. CASE Goto(c, "locate") /\ UNCHANGED <<told, err, cuts>>
    <3>1. Answering(c)
      BY <2>1, <2>2, GoesTyped DEF TypeOK, Steps
    <3>2. QED
      BY <1>2, <2>2, <3>1, QuietTyped DEF Detect, TypeOK
  <2>3. CASE DeployEnds(c, "current") /\ UNCHANGED cuts
    BY <1>2, <2>1, <2>3, DeployEndsTyped, QuietTyped DEF Detect, TypeOK
  <2>4. CASE DeployCut(c)
    BY <1>2, <1>f, <2>1, <2>4, QuietTyped DEF Detect, TypeOK
  <2>5. QED
    BY <1>2, <2>2, <2>3, <2>4 DEF Detect
<1>3. CASE Locate(c)
  <2>1. Answering(c)
    <3>1. CASE Goto(c, "upload") /\ UNCHANGED <<told, err>>
      BY <1>3, <3>1, GoesTyped DEF Locate, TypeOK, Steps
    <3>2. CASE DeployFails(c, {})
      BY <1>3, <1>g, <3>2, DeployFailsTyped DEF Locate
    <3>3. QED
      BY <1>3, <3>1, <3>2 DEF Locate
  <2>2. cached' \subseteq Clients /\ fetched' \subseteq cached'
    BY <1>3 DEF Locate, TypeOK
  <2>3. \A d \in Clients : step'[d] = "done" <=> told'[d] # "none"
    BY <2>1 DEF TypeOK, Answering
  <2>4. QED
    BY <1>3, <2>1, <2>2, <2>3 DEF Locate, TypeOK, Answering
<1>4. CASE Chmod(c)
  <2>1. err' \in [Clients -> SUBSET Words] /\ cuts' \in 0 .. MaxCuts
    BY <1>4, ErrorTypes, CutTyped DEF Chmod, InstallFails, TypeOK, Words
  <2>2. PICK l \in {"mv", "rm"} : Goto(c, l)
    BY <1>4 DEF Chmod, InstallFails
  <2>3. Answering(c)
    BY <1>4, <2>1, <2>2, GoesTyped DEF Chmod, Steps
  <2>4. QED
    BY <1>4, <2>1, <2>3, QuietTyped DEF Chmod, TypeOK
<1>5. CASE Verify(c)
  <2>1. step[c] # "done"
    BY <1>5 DEF Verify
  <2>2. CASE DeployCut(c)
    BY <1>5, <1>f, <2>1, <2>2, QuietTyped DEF Verify, TypeOK
  <2>3. CASE DeployEnds(c, "deployed") /\ UNCHANGED cuts
    BY <1>5, <2>1, <2>3, DeployEndsTyped, QuietTyped DEF Verify, TypeOK
  <2>4. CASE DeployFails(c, {}) /\ UNCHANGED cuts
    BY <1>5, <1>g, <2>1, <2>4, DeployFailsTyped, QuietTyped DEF Verify, TypeOK
  <2>5. QED
    BY <1>5, <2>2, <2>3, <2>4 DEF Verify
<1>6. QED
  BY <1>1, <1>2, <1>3, <1>4, <1>5

\* The steps that touch the host.
LEMMA HostTyped ==
    ASSUME CallsOK, NEW c \in Clients, UploadBegin(c) \/ UploadEnd(c) \/ Move(c) \/ Remove(c)
    PROVE  TypeOK' /\ Answering(c)
<1> USE DEF CallsOK
<1>f. ASSUME DeployCut(c), step[c] # "done" PROVE Answering(c) /\ cuts' \in 0 .. MaxCuts
  BY <1>f, DeployFailsTyped, ErrorTypes, CutTyped DEF DeployCut
<1>0. Upload(c) \in Builds /\ Pid(c) \in Pids
  BY SetupType
<1>1. Answering(c) /\ cuts' \in 0 .. MaxCuts
  <2>1. CASE UploadBegin(c)
    <3>1. CASE Goto(c, "uploading") /\ UNCHANGED <<told, err, cuts>>
      BY <2>1, <3>1, GoesTyped DEF UploadBegin, TypeOK, Steps
    <3>2. QED
      BY <1>f, <2>1, <3>1 DEF UploadBegin
  <2>2. CASE UploadEnd(c)
    <3>1. CASE Goto(c, "chmod") /\ UNCHANGED <<told, err, cuts>>
      BY <2>2, <3>1, GoesTyped DEF UploadEnd, TypeOK, Steps
    <3>2. QED
      BY <1>f, <2>2, <3>1 DEF UploadEnd
  <2>3. CASE Move(c)
    <3>1. err' \in [Clients -> SUBSET Words] /\ cuts' \in 0 .. MaxCuts
      BY <2>3, ErrorTypes, CutTyped DEF Move, InstallFails, TypeOK, Words
    <3>2. PICK l \in {"verify", "rm"} : Goto(c, l)
      BY <2>3 DEF Move, InstallFails
    <3>3. QED
      BY <2>3, <3>1, <3>2, GoesTyped DEF Move, Steps
  <2>4. CASE Remove(c)
    <3>1. err[c] \in SUBSET Words /\ DeployFails(c, err[c]) /\ step[c] # "done"
      BY <2>4 DEF Remove, TypeOK
    <3>2. cuts' \in 0 .. MaxCuts
      BY <2>4, CutTyped DEF Remove, TypeOK
    <3>3. QED
      BY <3>1, <3>2, DeployFailsTyped
  <2>5. QED
    BY <2>1, <2>2, <2>3, <2>4
<1>2. \A d \in Clients : step'[d] = "done" <=> told'[d] # "none"
  BY <1>1 DEF TypeOK, Answering
<1>3. UNCHANGED <<cached, setup, saw, ran, fetched, misled>>
  BY DEF UploadBegin, UploadEnd, Move, Remove
<1>4. live' \in Builds \cup {"missing", "torn"} /\ staged' \in [Pids -> Builds \cup {"missing", "torn"}]
  <2>1. CASE UploadBegin(c)
    BY <1>0, <2>1 DEF UploadBegin, Stage, TypeOK
  <2>2. CASE UploadEnd(c)
    <3>1. Opened(c) \in Builds \cup {"missing", "torn"}
      BY <1>0 DEF Opened, TypeOK
    <3>2. PICK b \in Builds \cup {"missing", "torn"} :
              /\ staged' = IF open[c] = "staged" THEN [staged EXCEPT ![Pid(c)] = b] ELSE staged
              /\ live' = IF open[c] = "live" THEN b ELSE live
      BY <1>0, <2>2, <3>1 DEF UploadEnd, Leaves
    <3>3. QED
      BY <1>0, <3>2 DEF TypeOK
  <2>3. CASE Move(c)
    BY <1>0, <2>3 DEF Move, Install, Stage, TypeOK
  <2>4. CASE Remove(c)
    BY <1>0, <2>4 DEF Remove, Stage, TypeOK
  <2>5. QED
    BY <2>1, <2>2, <2>3, <2>4
<1>5. open' \in [Clients -> Places]
  BY DEF UploadBegin, UploadEnd, Leaves, Move, Install, Remove, TypeOK, Places
<1>6. installer' \in Clients \cup {"none"}
  BY DEF UploadBegin, UploadEnd, Leaves, Move, Install, Remove, TypeOK
<1>7. overtaken' \in BOOLEAN
  BY DEF UploadBegin, UploadEnd, Leaves, Move, Install, Remove, TypeOK
<1>8. mixed' \subseteq clashed' /\ clashed' \subseteq Clients
  <2>1. CASE UploadBegin(c)
    BY <2>1 DEF UploadBegin, SameName, TypeOK
  <2>2. QED
    BY <2>1 DEF UploadEnd, Leaves, Move, Install, Remove, TypeOK
<1>9. QED
  BY <1>1, <1>2, <1>3, <1>4, <1>5, <1>6, <1>7, <1>8 DEF TypeOK, Answering

-----------------------------------------------------------------------------
(* What a step of one call does to the others *)

\* What a step of c leaves alone.
Alone(c) ==
    /\ setup' = setup /\ clashed \subseteq clashed'
    /\ \A d \in Clients \ {c} :
        /\ step'[d] = step[d] /\ saw'[d] = saw[d] /\ told'[d] = told[d] /\ ran'[d] = ran[d]
        /\ d \in fetched' <=> d \in fetched
        /\ d \in misled' <=> d \in misled

\* A call touches no step or answer but its own.
LEMMA StepsAreAlone ==
    ASSUME CallsOK, NEW c \in Clients, Request(c) \/ DeployTo(c)
    PROVE  Alone(c)
<1> USE DEF CallsOK
<1>1. Answering(c)
  BY RequestTyped, QuietDeployTyped, HostTyped DEF DeployTo
<1>2. \A d \in Clients \ {c} : step'[d] = step[d] /\ told'[d] = told[d]
  BY <1>1 DEF Answering, TypeOK
<1>p. Probe(c) => \A d \in Clients \ {c} : saw'[d] = saw[d]
  BY ProbeSees DEF TypeOK
<1>3. CASE ServeRuns(c)
  BY <1>2, <1>3 DEF ServeRuns, Run, Misled, Alone, TypeOK
<1>4. CASE AutoProbe(c)
  BY <1>2, <1>4, <1>p DEF AutoProbe, Misled, Alone
<1>5. CASE ServeRefuses(c) \/ StreamProbe(c) \/ Report(c)
  BY <1>2, <1>5, <1>p DEF ServeRefuses, StreamProbe, Report, Alone
<1>6. CASE DeployProbe(c) \/ Detect(c) \/ Chmod(c) \/ Verify(c)
  BY <1>2, <1>6, <1>p DEF DeployProbe, Detect, Chmod, Verify, Alone
<1>7. CASE Locate(c)
  BY <1>2, <1>7 DEF Locate, Alone
<1>8. CASE UploadBegin(c)
  BY <1>2, <1>8 DEF UploadBegin, Alone
<1>9. CASE UploadEnd(c) \/ Remove(c)
  BY <1>2, <1>9 DEF UploadEnd, Remove, Alone
<1>10. CASE Move(c)
  BY <1>2, <1>10 DEF Move, Install, Alone
<1>11. QED
  BY <1>3, <1>4, <1>5, <1>6, <1>7, <1>8, <1>9, <1>10 DEF Request, DeployTo

\* The steps that leave the host and its names alone.
Quietly(c) == Request(c) \/ DeployProbe(c) \/ Detect(c) \/ Locate(c) \/ Chmod(c) \/ Verify(c)

LEMMA QuietSteps ==
    ASSUME CallsOK, NEW c \in Clients, Quietly(c)
    PROVE  /\ UNCHANGED hostVars
           /\ step[c] # "uploading" /\ step'[c] # "uploading"
           /\ step'[c] \in Holding => step[c] \in Holding
<1>1. UNCHANGED hostVars
  BY DEF Quietly, Request, ServeRuns, ServeRefuses, AutoProbe, StreamProbe, Report, DeployProbe, Detect,
         Locate, Chmod, Verify
<1>2. step[c] # "uploading"
  BY DEF Quietly, Request, ServeRuns, ServeRefuses, Requesting, AutoProbe, StreamProbe, Report,
         DeployProbe, Detect, Locate, Chmod, Verify
<1> USE DEF CallsOK, TypeOK, Goto, Told
<1>t. \A v : Told(c, v) => step'[c] = "done"
  OBVIOUS
<1>f. \A e : Failed(c, e) \/ DeployFails(c, e) => step'[c] \in {"auto_probe", "deploy_probe", "report", "done"}
  BY DEF Failed, DeployFails
<1>e. \A v : DeployEnds(c, v) => step'[c] \in {"serve", "retry", "done"}
  BY DEF DeployEnds
<1>3. CASE Request(c) \/ DeployProbe(c) \/ Detect(c) \/ Locate(c) \/ Verify(c)
  <2>1. step'[c] \in Steps \ Holding
    <3>1. CASE ServeRuns(c) \/ ServeRefuses(c)
      BY <1>t, <1>f, <3>1 DEF ServeRuns, ServeRefuses, Steps, Holding
    <3>2. CASE AutoProbe(c) \/ StreamProbe(c) \/ Report(c)
      BY <1>t, <3>2 DEF AutoProbe, StreamProbe, Report, Steps, Holding
    <3>3. CASE DeployProbe(c) \/ Detect(c) \/ Locate(c) \/ Verify(c)
      BY <1>f, <1>e, <3>3 DEF DeployProbe, Detect, Locate, Verify, DeployCut, Steps, Holding
    <3>4. QED
      BY <1>3, <3>1, <3>2, <3>3 DEF Request
  <2>2. QED
    BY <1>1, <1>2, <2>1 DEF Holding
<1>4. CASE Chmod(c)
  <2>1. step[c] = "chmod" /\ step'[c] \in {"mv", "rm"}
    BY <1>4 DEF Chmod, InstallFails
  <2>2. QED
    BY <1>1, <1>2, <2>1 DEF Holding
<1>5. QED
  BY <1>3, <1>4 DEF Quietly

\* Whoever has not clashed keeps its temporary file to itself.
LEMMA NamesKept ==
    ASSUME CallsOK, NEW c \in Clients, Request(c) \/ DeployTo(c),
           NEW d \in Clients \ {c}, step[d] \in Holding, d \notin clashed'
    PROVE  /\ staged'[Pid(d)] = staged[Pid(d)]
           /\ open[d] = "staged" => open'[d] = "staged"
<1>0. d \notin clashed /\ Pid(d) \in Pids /\ Pid(c) \in Pids
  BY StepsAreAlone, SetupType DEF Alone, CallsOK
<1>1. Pid(d) = Pid(c) => step[c] \notin Holding
  BY <1>0 DEF CallsOK, Apart
<1> USE DEF CallsOK, TypeOK
<1>2. CASE Quietly(c)
  BY <1>2, QuietSteps
<1>3. CASE UploadBegin(c)
  <2>1. CASE UNCHANGED <<staged, open>>
    BY <2>1
  <2>2. CASE ~UNCHANGED <<staged, open>>
    <3>1. /\ Stage(c, "torn") /\ open' = [open EXCEPT ![c] = "staged"]
          /\ clashed' = IF SameName(c) = {} THEN clashed ELSE clashed \cup SameName(c) \cup {c}
      BY <1>3, <2>2 DEF UploadBegin
    <3>2. Pid(d) # Pid(c)
      BY <1>0, <3>1 DEF SameName
    <3>3. QED
      BY <1>0, <3>1, <3>2 DEF Stage
  <2>3. QED
    BY <2>1, <2>2
<1>4. CASE UploadEnd(c)
  <2>1. Pid(d) # Pid(c)
    BY <1>1, <1>4 DEF UploadEnd, Holding
  <2>2. QED
    BY <1>0, <1>4, <2>1 DEF UploadEnd, Leaves
<1>5. CASE Move(c)
  <2>1. Pid(d) # Pid(c)
    BY <1>1, <1>5 DEF Move, Holding
  <2>2. QED
    BY <1>0, <1>5, <2>1 DEF Move, Install, Stage
<1>6. CASE Remove(c)
  <2>1. Pid(d) # Pid(c)
    BY <1>1, <1>6 DEF Remove, Holding
  <2>2. QED
    BY <1>0, <1>6, <2>1 DEF Remove, Stage
<1>7. QED
  BY <1>2, <1>3, <1>4, <1>5, <1>6 DEF DeployTo, Quietly

\* Two calls come to hold one name only where both are marked.
LEMMA ApartKept ==
    ASSUME CallsOK, NEW c \in Clients, Request(c) \/ DeployTo(c)
    PROVE  Apart'
<1>0. Alone(c)
  BY StepsAreAlone
<1>1. \A d \in Clients : Pid(d)' = Pid(d)
  BY <1>0 DEF Alone, Pid
<1>2. CASE \A d \in Clients : step'[d] \in Holding => step[d] \in Holding
  BY <1>0, <1>1, <1>2 DEF Alone, CallsOK, Apart, Holding
<1>3. CASE UploadBegin(c) /\ step'[c] = "uploading"
  <2>1. clashed' = IF SameName(c) = {} THEN clashed ELSE clashed \cup SameName(c) \cup {c}
    <3>1. ~DeployCut(c)
      BY <1>3 DEF DeployCut, DeployFails, Told, Goto, CallsOK, TypeOK
    <3>2. QED
      BY <1>3, <3>1 DEF UploadBegin
  <2>2. SUFFICES ASSUME NEW x \in Clients, NEW y \in Clients, x # y, Pid(x) = Pid(y),
                        step'[x] \in Holding, step'[y] \in Holding
                 PROVE  x \in clashed'
    BY <1>1 DEF Apart, Holding
  <2>3. CASE x = c
    <3>1. y \in SameName(c)
      BY <1>0, <2>2, <2>3 DEF SameName, Alone
    <3>2. QED
      BY <2>1, <2>3, <3>1
  <2>4. CASE y = c
    <3>1. x \in SameName(c)
      BY <1>0, <2>2, <2>4 DEF SameName, Alone
    <3>2. QED
      BY <2>1, <3>1
  <2>5. CASE x # c /\ y # c
    BY <1>0, <2>2, <2>5 DEF Alone, CallsOK, Apart
  <2>6. QED
    BY <2>3, <2>4, <2>5
<1>4. step'[c] \in Holding => step[c] \in Holding \/ (UploadBegin(c) /\ step'[c] = "uploading")
  <2>1. CASE Quietly(c)
    BY <2>1, QuietSteps
  <2>2. CASE UploadBegin(c)
    BY <2>2 DEF UploadBegin, DeployCut, DeployFails, Told, Goto, CallsOK, TypeOK, Holding
  <2>3. CASE UploadEnd(c) \/ Move(c) \/ Remove(c)
    BY <2>3 DEF UploadEnd, Move, Remove, Holding
  <2>4. QED
    BY <2>1, <2>2, <2>3 DEF DeployTo, Quietly
<1>5. QED
  BY <1>0, <1>2, <1>3, <1>4 DEF Alone

\* Who has a file open, and where, after the steps that touch files.
LEMMA OpensKept ==
    ASSUME CallsOK, NEW c \in Clients, Request(c) \/ DeployTo(c)
    PROVE  Opens'
<1> USE DEF CallsOK
<1>0. Alone(c) /\ \A d \in Clients : Pid(d)' = Pid(d)
  BY StepsAreAlone DEF Alone, Pid
<1>1. CASE Quietly(c)
  <2>1. \A d \in Clients : step'[d] = "uploading" <=> step[d] = "uploading"
    BY <1>0, <1>1, QuietSteps DEF Alone
  <2>2. QED
    BY <1>1, <2>1, QuietSteps DEF Opens
<1>2. CASE UploadBegin(c)
  <2>1. CASE Stage(c, "torn") /\ Goto(c, "uploading") /\ open' = [open EXCEPT ![c] = "staged"]
    <3>1. \A d \in Clients \ {c} : open'[d] = open[d] /\ step'[d] = step[d]
      BY <1>0, <2>1 DEF Alone, TypeOK
    <3>2. open'[c] = "staged" /\ step'[c] = "uploading"
      BY <2>1 DEF Goto, TypeOK
    <3>3. installer' = installer /\ clashed \subseteq clashed'
      BY <1>0, <1>2 DEF UploadBegin, Alone
    <3>4. QED
      BY <3>1, <3>2, <3>3 DEF Opens
  <2>2. CASE DeployCut(c) /\ UNCHANGED <<open, clashed>>
    <3>1. step[c] # "uploading" /\ step'[c] # "uploading"
      BY <1>2, <2>2 DEF UploadBegin, DeployCut, DeployFails, Told, Goto, TypeOK
    <3>2. \A d \in Clients : step'[d] = "uploading" <=> step[d] = "uploading"
      BY <1>0, <3>1 DEF Alone
    <3>3. QED
      BY <1>2, <2>2, <3>2 DEF Opens, UploadBegin
  <2>3. QED
    BY <1>2, <2>1, <2>2 DEF UploadBegin
<1>3. CASE UploadEnd(c)
  <2>1. open' = [open EXCEPT ![c] = "none"] /\ UNCHANGED <<installer, clashed>>
    BY <1>3 DEF UploadEnd, Leaves
  <2>2. step'[c] # "uploading"
    BY <1>3 DEF UploadEnd, DeployCut, DeployFails, Told, Goto, TypeOK
  <2>3. QED
    BY <1>0, <2>1, <2>2 DEF Alone, Opens, TypeOK
<1>4. CASE Move(c)
  <2>1. step[c] = "mv" /\ step'[c] # "uploading"
    BY <1>4 DEF Move, InstallFails, Goto, TypeOK
  <2>2. \A d \in Clients : step'[d] = "uploading" <=> step[d] = "uploading"
    BY <1>0, <2>1 DEF Alone
  <2>3. CASE UNCHANGED hostVars
    BY <2>2, <2>3 DEF Opens
  <2>4. CASE Install(c)
    <3>1. \A d \in Clients :
            /\ open'[d] # "none" <=> open[d] # "none"
            /\ open'[d] = "live" => open[d] = "staged" /\ Pid(d) = Pid(c)
            /\ open[d] = "staged" /\ Pid(d) # Pid(c) => open'[d] = "staged"
      BY <2>4 DEF Install
    <3>2. \A d \in Clients : open[d] = "staged" /\ Pid(d) = Pid(c) => d \in clashed /\ c \in clashed
      <4> SUFFICES ASSUME NEW d \in Clients, open[d] = "staged", Pid(d) = Pid(c)
                   PROVE  d \in clashed /\ c \in clashed
        OBVIOUS
      <4>1. step[d] = "uploading" /\ d # c
        BY <2>1 DEF Opens
      <4>2. QED
        BY <2>1, <4>1 DEF Apart, Holding
    <3>3. installer' = c /\ clashed' = clashed
      BY <2>4 DEF Install
    <3>4. QED
      BY <2>2, <3>1, <3>2, <3>3 DEF Opens
  <2>5. QED
    BY <1>4, <2>3, <2>4 DEF Move
<1>5. CASE Remove(c)
  <2>1. step[c] = "rm" /\ step'[c] # "uploading" /\ UNCHANGED <<installer, clashed>>
    BY <1>5 DEF Remove, DeployFails, Told, Goto, TypeOK
  <2>2. \A d \in Clients : step'[d] = "uploading" <=> step[d] = "uploading"
    BY <1>0, <2>1 DEF Alone
  <2>3. CASE UNCHANGED open
    BY <2>1, <2>2, <2>3 DEF Opens
  <2>4. CASE open' = [d \in Clients |-> IF open[d] = "staged" /\ Pid(d) = Pid(c) THEN "gone" ELSE open[d]]
    <3>1. \A d \in Clients : open[d] = "staged" /\ Pid(d) = Pid(c) => d \in clashed
      <4> SUFFICES ASSUME NEW d \in Clients, open[d] = "staged", Pid(d) = Pid(c)
                   PROVE  d \in clashed
        OBVIOUS
      <4>1. step[d] = "uploading" /\ d # c
        BY <2>1 DEF Opens
      <4>2. QED
        BY <2>1, <4>1 DEF Apart, Holding
    <3>2. QED
      BY <2>1, <2>2, <2>4, <3>1 DEF Opens
  <2>5. QED
    BY <1>5, <2>3, <2>4 DEF Remove
<1>6. QED
  BY <1>1, <1>2, <1>3, <1>4, <1>5 DEF DeployTo, Quietly

\* What an install puts there, if the name is the caller's alone.
LEMMA InstallPuts ==
    ASSUME CallsOK, NEW c \in Clients, step[c] = "mv", Install(c), c \notin clashed
    PROVE  live' = Upload(c) /\ live' \in Builds
  BY SetupType DEF CallsOK, CallOK, Prepared, Install

\* An rxd is spoilt only under a name that two calls have shared.
LEMMA WholeKept ==
    ASSUME CallsOK, NEW c \in Clients, Request(c) \/ DeployTo(c)
    PROVE  LiveIsWhole'
<1> USE DEF CallsOK
<1>0. clashed \subseteq clashed'
  BY StepsAreAlone DEF Alone
<1>1. CASE UNCHANGED <<live, installer>>
  BY <1>0, <1>1 DEF LiveIsWhole
<1>2. CASE UploadEnd(c)
  <2>1. open[c] = "live" => installer' \in clashed'
    BY <1>0, <1>2 DEF UploadEnd, Opens
  <2>2. open[c] # "live" => live' = live /\ installer' = installer
    BY <1>2 DEF UploadEnd, Leaves
  <2>3. QED
    BY <1>0, <2>1, <2>2 DEF LiveIsWhole
<1>3. CASE Move(c) /\ Install(c)
  <2>1. installer' = c /\ clashed' = clashed
    BY <1>3 DEF Install
  <2>2. c \notin clashed => live' # "torn"
    BY <1>3, InstallPuts, NoBuild DEF Move
  <2>3. QED
    BY <2>1, <2>2 DEF LiveIsWhole
<1>4. QED
  BY <1>1, <1>2, <1>3, QuietSteps DEF DeployTo, Quietly, UploadBegin, Move, Remove

\* While nobody overtakes, what follows a build is no earlier one.
LEMMA Forward ==
    ASSUME CallsOK, NEW c \in Clients, Request(c) \/ DeployTo(c), ~overtaken'
    PROVE  ~overtaken /\ (live \in Builds => AtLeast(live', live))
<1> USE DEF CallsOK
<1>1. CASE UNCHANGED <<live, overtaken>>
  BY <1>1, AtLeastReflexive
<1>2. CASE UploadEnd(c)
  <2>1. ~overtaken /\ ~(open[c] = "live" /\ Overtakes(c))
    BY <1>2 DEF UploadEnd, Leaves
  <2>2. CASE open[c] # "live"
    BY <1>2, <2>1, <2>2, AtLeastReflexive DEF UploadEnd, Leaves
  <2>3. CASE open[c] = "live"
    <3>1. c \in clashed
      BY <2>3 DEF Opens
    <3>2. QED
      BY <2>1, <2>3, <3>1 DEF Overtakes, AtLeast
  <2>4. QED
    BY <2>2, <2>3
<1>3. CASE Move(c) /\ Install(c)
  <2>1. ~overtaken /\ ~Overtakes(c)
    BY <1>3 DEF Install
  <2>2. ASSUME live \in Builds, ~AtLeast(live', live) PROVE FALSE
    <3>1. saw[c] = live /\ ~AllowsDowngrade(c) /\ ~HasBinary(c) /\ c \notin clashed
      BY <2>1, <2>2 DEF Overtakes, AtLeast
    <3>2. live' = Own(c) /\ live' \in Builds
      BY <1>3, <3>1, InstallPuts DEF Move, Upload
    <3>3. ~Newer(saw[c], Own(c))
      BY <1>3, <2>2, <3>1 DEF Move, CallOK, Guarded, Behind
    <3>4. QED
      BY <2>2, <3>1, <3>2, <3>3 DEF AtLeast
  <2>3. QED
    BY <2>1, <2>2
<1>4. QED
  BY <1>1, <1>2, <1>3, QuietSteps DEF DeployTo, Quietly, UploadBegin, Move, Remove

-----------------------------------------------------------------------------
(* What a step of a call does to itself *)

\* Where a failed request leads.
LEMMA FailedGoes ==
    ASSUME TypeOK, NEW c \in Clients, NEW e, Failed(c, e)
    PROVE  /\ step'[c] \in {"auto_probe", "deploy_probe", "report"}
           /\ step'[c] = "auto_probe" => step[c] = "serve" /\ Op(c) = "run"
           /\ step'[c] = "deploy_probe" =>
                 step[c] = "serve" /\ Op(c) = "put" /\ MayDeploy(c) /\ LooksOld(err'[c])
  BY DEF Failed, Goto, TypeOK

\* Where a deploy leads that fails, and one that is over.
LEMMA DeployFailsGoes ==
    ASSUME TypeOK, NEW c \in Clients, NEW e, DeployFails(c, e)
    PROVE  step'[c] \in {"report", "done"} /\ (told'[c] = "deployed" => told[c] = "deployed")
  BY DEF DeployFails, Told, Goto, TypeOK

LEMMA DeployCutGoes ==
    ASSUME TypeOK, NEW c \in Clients, DeployCut(c)
    PROVE  step'[c] \in {"report", "done"} /\ (told'[c] = "deployed" => told[c] = "deployed")
  BY DeployFailsGoes DEF DeployCut

LEMMA DeployEndsGoes ==
    ASSUME TypeOK, NEW c \in Clients, NEW v, DeployEnds(c, v)
    PROVE  /\ step'[c] \in {"serve", "retry", "done"}
           /\ step'[c] = "serve" => Op(c) = "put_stream"
           /\ step'[c] = "retry" => Op(c) \in {"run", "put"}
           /\ told'[c] \in {told[c], v}
  BY DEF DeployEnds, Told, Goto, TypeOK

\* A call is only where it may be, and has run its request no oftener than that.
LEMMA LawfulKept ==
    ASSUME CallsOK, NEW c \in Clients, Request(c) \/ DeployTo(c)
    PROVE  Lawful(c)'
<1> USE DEF CallsOK
<1>0. /\ Op(c)' = Op(c) /\ MayDeploy(c)' = MayDeploy(c) /\ MayFetch(c)' = MayFetch(c)
      /\ Lawful(c) /\ Op(c) \in {"run", "put", "put_stream", "deploy"} /\ ran[c] \in 0 .. 2
  <2>1. setup' = setup
    BY StepsAreAlone DEF Alone
  <2>2. QED
    BY <2>1, SetupType DEF Op, MayDeploy, MayFetch, Policy, CallOK, TypeOK
<1>g. \A l : Goto(c, l) => step'[c] = l
  BY DEF Goto, TypeOK
<1>t. \A v : Told(c, v) => step'[c] = "done"
  BY DEF Told, TypeOK
<1> USE DEF Lawful
<1>1. CASE ServeRuns(c)
  <2>1. ran'[c] = ran[c] + 1 /\ step[c] \in {"serve", "retry"} /\ Op(c) # "deploy"
    BY <1>0, <1>1 DEF ServeRuns, Run, Requesting, TypeOK
  <2>2. \/ step'[c] \in {"done", "report"}
        \/ step'[c] = "auto_probe" /\ step[c] = "serve" /\ Op(c) = "run"
        \/ step'[c] = "deploy_probe" /\ step[c] = "serve" /\ Op(c) = "put" /\ MayDeploy(c)
    BY <1>1, <1>t, FailedGoes DEF ServeRuns
  <2>3. UNCHANGED <<installer, fetched>>
    BY <1>1 DEF ServeRuns
  <2>4. QED
    BY <1>0, <2>1, <2>2, <2>3 DEF DeploySteps, Behind
<1>2. CASE ServeRefuses(c)
  <2>1. UNCHANGED <<installer, fetched, ran>> /\ step[c] \in {"serve", "retry"}
    BY <1>2 DEF ServeRefuses, Requesting
  <2>2. \/ step'[c] \in {"done", "report"}
        \/ step'[c] = "auto_probe" /\ step[c] = "serve" /\ Op(c) = "run"
        \/ step'[c] = "deploy_probe" /\ step[c] = "serve" /\ Op(c) = "put" /\ MayDeploy(c)
    BY <1>2, <1>t, FailedGoes DEF ServeRefuses
  <2>3. QED
    BY <1>0, <2>1, <2>2 DEF DeploySteps, Behind
<1>3. CASE AutoProbe(c)
  <2>1. UNCHANGED <<installer, fetched, ran>> /\ step[c] = "auto_probe"
    BY <1>3 DEF AutoProbe
  <2>2. step'[c] \in {"done", "report"} \/ (step'[c] = "deploy_probe" /\ MayDeploy(c))
    BY <1>3, <1>g, <1>t DEF AutoProbe
  <2>3. QED
    BY <1>0, <2>1, <2>2 DEF DeploySteps, Behind
<1>4. CASE StreamProbe(c)
  <2>1. UNCHANGED <<installer, fetched, ran>> /\ step[c] = "stream_probe" /\ step'[c] \in {"serve", "deploy_probe"}
    BY <1>4, <1>g DEF StreamProbe
  <2>2. QED
    BY <1>0, <2>1 DEF DeploySteps, Behind
<1>5. CASE Report(c)
  BY <1>0, <1>5, <1>t DEF Report, DeploySteps, Behind
<1>6. CASE DeployTo(c)
  <2>1. step[c] \in DeploySteps /\ ran' = ran /\ (c \in fetched' => c \in fetched \/ MayFetch(c))
    BY <1>6 DEF DeployTo, DeployProbe, Detect, Locate, UploadBegin, UploadEnd, Chmod, Move, Remove, Verify,
       DeploySteps, Behind
  <2>2. installer' = c => installer = c \/ step[c] = "mv"
    BY <1>6 DEF DeployTo, DeployProbe, Detect, Locate, UploadBegin, UploadEnd, Leaves, Chmod, Move, Remove,
       Verify, TypeOK
  <2>3. \/ step'[c] \in {"report", "done"} \cup Behind
        \/ step'[c] = "serve" /\ Op(c) = "put_stream"
        \/ step'[c] = "retry" /\ Op(c) \in {"run", "put"}
    <3>1. CASE DeployProbe(c) \/ Locate(c)
      BY <1>g, <3>1, DeployFailsGoes DEF DeployProbe, Locate, Behind
    <3>2. CASE Detect(c) \/ Verify(c)
      BY <1>g, <3>2, DeployFailsGoes, DeployCutGoes, DeployEndsGoes DEF Detect, Verify, Behind
    <3>3. CASE UploadBegin(c) \/ UploadEnd(c)
      BY <1>g, <3>3, DeployCutGoes DEF UploadBegin, UploadEnd, Behind
    <3>4. CASE Chmod(c) \/ Move(c)
      BY <1>g, <3>4 DEF Chmod, Move, InstallFails, Behind
    <3>5. CASE Remove(c)
      BY <3>5, DeployFailsGoes DEF Remove
    <3>6. QED
      BY <1>6, <3>1, <3>2, <3>3, <3>4, <3>5 DEF DeployTo
  <2>4. QED
    BY <1>0, <2>1, <2>2, <2>3 DEF DeploySteps, Behind
<1>7. QED
  BY <1>1, <1>2, <1>3, <1>4, <1>5, <1>6 DEF Request

\* Only an upload that is over is made executable and moved.
LEMMA PreparedKept ==
    ASSUME CallsOK, NEW c \in Clients, Request(c) \/ DeployTo(c)
    PROVE  Prepared(c)'
<1> USE DEF CallsOK
<1>0. /\ Pid(c)' = Pid(c) /\ Upload(c)' = Upload(c) /\ Prepared(c) /\ Pid(c) \in Pids
      /\ clashed \subseteq clashed'
  BY StepsAreAlone, SetupType DEF Alone, CallOK, Pid, Upload, HasBinary, Own, Op
<1>1. CASE UploadEnd(c)
  <2>1. SUFFICES ASSUME step'[c] \in {"chmod", "mv"}, c \notin clashed PROVE staged'[Pid(c)] = Upload(c)
    BY <1>0 DEF Prepared
  <2>2. ~DeployCut(c)
    BY <2>1, DeployCutGoes
  <2>3. Leaves(c, {Upload(c)}) /\ step[c] = "uploading" /\ c \notin mixed
    BY <1>1, <2>1, <2>2 DEF UploadEnd, TypeOK
  <2>4. open[c] = "staged"
    BY <2>1, <2>3 DEF Opens
  <2>5. QED
    BY <1>0, <2>3, <2>4 DEF Leaves, TypeOK
<1>2. CASE Chmod(c)
  BY <1>0, <1>2 DEF Chmod, Prepared
<1>3. CASE ~UploadEnd(c) /\ ~Chmod(c)
  <2>1. step'[c] \notin {"chmod", "mv"}
    <3>1. CASE ServeRuns(c) \/ ServeRefuses(c)
      BY <3>1, FailedGoes DEF ServeRuns, ServeRefuses, Told, TypeOK
    <3>2. CASE AutoProbe(c) \/ StreamProbe(c) \/ Report(c)
      BY <3>2 DEF AutoProbe, StreamProbe, Report, Told, Goto, TypeOK
    <3>3. CASE DeployProbe(c) \/ Locate(c) \/ Remove(c)
      BY <3>3, DeployFailsGoes DEF DeployProbe, Locate, Remove, Goto, TypeOK
    <3>4. CASE Detect(c) \/ Verify(c)
      BY <3>4, DeployFailsGoes, DeployCutGoes, DeployEndsGoes DEF Detect, Verify, Goto, TypeOK
    <3>5. CASE UploadBegin(c)
      BY <3>5, DeployCutGoes DEF UploadBegin, Goto, TypeOK
    <3>6. CASE Move(c)
      BY <3>6 DEF Move, InstallFails, Goto, TypeOK
    <3>7. QED
      BY <1>3, <3>1, <3>2, <3>3, <3>4, <3>5, <3>6 DEF Request, DeployTo
  <2>2. QED
    BY <2>1 DEF Prepared
<1>4. QED
  BY <1>1, <1>2, <1>3

\* Only the guard lets a deploy through.
LEMMA GuardedKept ==
    ASSUME CallsOK, NEW c \in Clients, Request(c) \/ DeployTo(c)
    PROVE  Guarded(c)'
<1> USE DEF CallsOK
<1>0. Own(c)' = Own(c) /\ AllowsDowngrade(c)' = AllowsDowngrade(c) /\ Guarded(c)
  BY StepsAreAlone DEF Alone, CallOK, Own, Op, AllowsDowngrade
<1>1. CASE Request(c)
  <2>1. step'[c] \notin Behind
    <3>1. CASE ServeRuns(c) \/ ServeRefuses(c)
      BY <3>1, FailedGoes DEF ServeRuns, ServeRefuses, Told, TypeOK, Behind
    <3>2. CASE AutoProbe(c) \/ StreamProbe(c) \/ Report(c)
      BY <3>2 DEF AutoProbe, StreamProbe, Report, Told, Goto, TypeOK, Behind
    <3>3. QED
      BY <1>1, <3>1, <3>2 DEF Request
  <2>2. QED
    BY <2>1 DEF Guarded
<1>2. CASE DeployProbe(c)
  <2>1. SUFFICES ASSUME step'[c] \in Behind, ~AllowsDowngrade(c), saw'[c] \in Builds
                 PROVE  ~Newer(saw'[c], Own(c)) /\ Protocol[saw'[c]] <= Protocol[Own(c)]
    BY <1>0 DEF Guarded
  <2>2. ~Refused(c, saw'[c])
    BY <1>2, <2>1, DeployFailsGoes DEF DeployProbe, Behind
  <2>3. Protocol[saw'[c]] \in Nat /\ Protocol[Own(c)] \in Nat
    BY <2>1, SetupType, DeployAssumption
  <2>4. QED
    BY <2>1, <2>2, <2>3 DEF Refused
<1>3. CASE DeployTo(c) /\ ~DeployProbe(c)
  <2>1. saw' = saw /\ step[c] \in Behind
    BY <1>3 DEF DeployTo, Detect, Locate, UploadBegin, UploadEnd, Chmod, Move, Remove, Verify, Behind
  <2>2. QED
    BY <1>0, <2>1 DEF Guarded
<1>4. QED
  BY <1>1, <1>2, <1>3

\* What a call has put there, and is told of it.
LEMMA InstalledKept ==
    ASSUME CallsOK, NEW c \in Clients, Request(c) \/ DeployTo(c)
    PROVE  Installed(c)'
<1> USE DEF CallsOK
<1>0. /\ Upload(c)' = Upload(c) /\ Own(c)' = Own(c) /\ Installed(c)
      /\ clashed \subseteq clashed' /\ installer \in Clients \cup {"none"}
  BY StepsAreAlone DEF Alone, CallOK, Upload, HasBinary, Own, Op, TypeOK
<1>1. SUFFICES ASSUME installer' = c, c \notin clashed
               PROVE  live' = Upload(c) /\ (told'[c] = "deployed" => Current(c, live'))
  BY <1>0 DEF Installed, Current
<1>2. CASE Move(c) /\ Install(c)
  <2>1. live' = Upload(c)
    BY <1>1, <1>2, InstallPuts DEF Move
  <2>2. told'[c] = "none"
    BY <1>2 DEF Move, TypeOK
  <2>3. QED
    BY <2>1, <2>2
<1>3. CASE UNCHANGED <<live, installer>> /\ (told'[c] = "deployed" => told[c] = "deployed")
  BY <1>0, <1>1, <1>3 DEF Installed
<1>4. CASE UploadEnd(c)
  <2>1. open[c] = "staged" /\ step[c] = "uploading" /\ installer' = installer
    BY <1>1, <1>4 DEF UploadEnd, Opens
  <2>2. live' = live
    BY <1>4, <2>1 DEF UploadEnd, Leaves
  <2>3. told'[c] = "deployed" => told[c] = "deployed"
    BY <1>4, DeployCutGoes DEF UploadEnd
  <2>4. QED
    BY <1>3, <2>1, <2>2, <2>3
<1>5. CASE Verify(c)
  <2>1. UNCHANGED <<live, installer>>
    BY <1>5 DEF Verify
  <2>2. CASE Current(c, Rxd)
    <3>1. Current(c, live)
      BY <2>2, RxdIsLive DEF Current
    <3>2. QED
      BY <1>0, <1>1, <2>1, <3>1 DEF Installed
  <2>3. CASE ~Current(c, Rxd)
    BY <1>3, <1>5, <2>1, <2>3, DeployCutGoes, DeployFailsGoes DEF Verify
  <2>4. QED
    BY <2>2, <2>3
<1>6. CASE ServeRuns(c) \/ ServeRefuses(c)
  BY <1>3, <1>6 DEF ServeRuns, ServeRefuses, Told, TypeOK
<1>7. CASE AutoProbe(c) \/ StreamProbe(c) \/ Report(c)
  BY <1>3, <1>7 DEF AutoProbe, StreamProbe, Report, Told, TypeOK
<1>8. CASE DeployProbe(c) \/ Detect(c) \/ Locate(c)
  BY <1>3, <1>8, DeployFailsGoes, DeployCutGoes, DeployEndsGoes DEF DeployProbe, Detect, Locate
<1>9. CASE UploadBegin(c) \/ Chmod(c) \/ Remove(c) \/ (Move(c) /\ ~Install(c))
  BY <1>3, <1>9, DeployFailsGoes, DeployCutGoes DEF UploadBegin, Chmod, Remove, Move
<1>10. QED
  BY <1>2, <1>4, <1>5, <1>6, <1>7, <1>8, <1>9 DEF Request, DeployTo

\* What a call knows of the rxd that was there holds of what follows it.
LEMMA KnownStays ==
    ASSUME CallsOK, NEW d \in Clients, ~overtaken, live \in Builds => AtLeast(live', live)
    PROVE  /\ saw[d] \in Builds => AtLeast(live', saw[d])
           /\ ran[d] # 0 => live' \in Builds /\ Protocol[live'] >= Protocol[Own(d)]
           /\ d \notin misled /\ ran[d] # 0 /\ step[d] \in DeploySteps => Protocol[live'] > Protocol[Own(d)]
           /\ AtLeast(live, Own(d)) => AtLeast(live', Own(d))
<1>1. Onward(d) /\ Own(d) \in Builds /\ Protocol[Own(d)] \in Nat
  BY SetupType DEF CallsOK, CallOK
<1>2. live \in Builds => /\ live' \in Builds /\ ~Newer(live, live')
                         /\ Protocol[live] <= Protocol[live'] /\ Protocol[live] \in Nat /\ Protocol[live'] \in Nat
  BY LaterProtocol, DeployAssumption DEF AtLeast
<1>3. saw[d] \in Builds => AtLeast(live', saw[d])
  BY <1>1, <1>2, AtLeastTransitive DEF Onward, AtLeast
<1>4. AtLeast(live, Own(d)) => AtLeast(live', Own(d))
  BY <1>1, <1>2, AtLeastTransitive DEF AtLeast
<1>5. ran[d] # 0 => live' \in Builds /\ Protocol[live'] >= Protocol[Own(d)]
  BY <1>1, <1>2 DEF Onward
<1>6. d \notin misled /\ ran[d] # 0 /\ step[d] \in DeploySteps => Protocol[live'] > Protocol[Own(d)]
  BY <1>1, <1>2 DEF Onward
<1>7. QED
  BY <1>3, <1>4, <1>5, <1>6

\* What the probe of a call whose request has run tells it, if it is not misled
\* by it and nobody overtakes.
LEMMA OnwardKept ==
    ASSUME CallsOK, NEW c \in Clients, Request(c) \/ DeployTo(c), ~overtaken'
    PROVE  Onward(c)'
<1> USE DEF CallsOK
<1>0. /\ Own(c)' = Own(c) /\ Op(c)' = Op(c) /\ MayDeploy(c)' = MayDeploy(c) /\ Upload(c)' = Upload(c)
      /\ Own(c) \in Builds /\ Upload(c) \in Builds /\ Protocol[Own(c)] \in Nat
      /\ clashed \subseteq clashed' /\ ran[c] \in 0 .. 2
      /\ live \in Builds \cup {"missing", "torn"} /\ (live \in Builds => Protocol[live] \in Nat)
      /\ saw[c] \in Builds \cup {"missing", "unknown"}
      /\ Lawful(c) /\ Guarded(c)
  <2>1. setup' = setup /\ clashed \subseteq clashed'
    BY StepsAreAlone DEF Alone
  <2>2. QED
    BY <2>1, SetupType, DeployAssumption DEF CallOK, Upload, HasBinary, Own, Op, MayDeploy, Policy, TypeOK
<1>1. Onward(c) /\ (live \in Builds => AtLeast(live', live))
  BY Forward DEF CallOK
<1>n. "missing" \notin Builds /\ "torn" \notin Builds /\ "unknown" \notin Builds
  BY NoBuild
<1>g. \A l : Goto(c, l) => step'[c] = l
  BY DEF Goto, TypeOK
<1>t. \A v : Told(c, v) => step'[c] = "done"
  BY DEF Told, TypeOK
<1>2. CASE ServeRuns(c)
  <2>1. /\ UNCHANGED <<live, saw>> /\ ran'[c] = ran[c] + 1 /\ step[c] \in {"serve", "retry"}
        /\ Rxd \in Builds /\ Rxd = live /\ Protocol[live] >= Protocol[Own(c)]
    BY <1>0, <1>2, RxdIsLive DEF ServeRuns, Run, Requesting, Accepts, TypeOK
  <2>2. c \notin misled' => c \notin misled
    BY <1>2 DEF ServeRuns, Misled
  <2>3. /\ step'[c] \in {"done", "report", "auto_probe", "deploy_probe"}
        /\ step'[c] = "deploy_probe" => c \in misled' \/ Protocol[live] > Protocol[Own(c)]
    <3>1. CASE Told(c, "answered")
      BY <1>t, <3>1
    <3>2. CASE Protocol[Rxd] > Protocol[Own(c)] /\ Failed(c, {"protocol"})
      BY <2>1, <3>2, FailedGoes
    <3>3. CASE Cut /\ \E e \in CutErrors : Failed(c, e)
      <4>1. cuts' # cuts
        BY <3>3 DEF Cut, TypeOK
      <4>2. step'[c] = "deploy_probe" => c \in misled'
        BY <1>2, <3>3, <4>1, FailedGoes DEF ServeRuns, Misled
      <4>3. QED
        BY <3>3, <4>2, FailedGoes
    <3>4. QED
      BY <1>2, <3>1, <3>2, <3>3 DEF ServeRuns
  <2>4. c \notin misled => ran[c] = 0
    BY <1>0, <1>1, <2>1 DEF Onward, Lawful
  <2>5. QED
    BY <1>0, <1>1, <2>1, <2>2, <2>3, <2>4 DEF Onward, DeploySteps, Behind
<1>3. CASE ServeRefuses(c)
  <2>1. UNCHANGED <<live, saw, ran, misled>> /\ step[c] \in {"serve", "retry"}
    BY <1>3 DEF ServeRefuses, Requesting
  <2>2. /\ step'[c] \in {"done", "report", "auto_probe", "deploy_probe"}
        /\ step'[c] = "deploy_probe" => step[c] = "serve"
    BY <1>3, <1>t, FailedGoes DEF ServeRefuses
  <2>3. QED
    BY <1>0, <1>1, <2>1, <2>2 DEF Onward, Lawful, DeploySteps, Behind
<1>4. CASE AutoProbe(c)
  <2>1. /\ UNCHANGED <<live, ran>> /\ step[c] = "auto_probe" /\ Probe(c)
        /\ (c \notin misled' => c \notin misled)
    BY <1>4 DEF AutoProbe, Misled
  <2>2. saw'[c] \in Builds => saw'[c] = live
    BY <2>1, ProbeSees
  <2>3. step'[c] \in {"report", "done"} \/ (step'[c] = "deploy_probe" /\ NeedsRxd(c, saw'[c]))
    BY <1>4, <1>g, <1>t DEF AutoProbe
  <2>4. ASSUME step'[c] = "deploy_probe", c \notin misled', ran[c] # 0
        PROVE  Protocol[live] > Protocol[Own(c)]
    <3>1. live \in Builds /\ Protocol[live] >= Protocol[Own(c)]
      BY <1>1, <2>4 DEF Onward
    <3>2. saw'[c] = live
      BY <1>4, <2>4, <3>1 DEF AutoProbe, Misled
    <3>3. Protocol[live] # Protocol[Own(c)]
      BY <1>n, <2>3, <2>4, <3>1, <3>2 DEF NeedsRxd
    <3>4. QED
      BY <1>0, <3>1, <3>3
  <2>5. saw'[c] \in Builds => AtLeast(live', saw'[c])
    BY <2>1, <2>2, AtLeastReflexive
  <2>6. QED
    BY <1>0, <1>1, <2>1, <2>3, <2>4, <2>5 DEF Onward, Lawful, DeploySteps, Behind
<1>5. CASE StreamProbe(c)
  <2>1. UNCHANGED <<live, ran, misled>> /\ step[c] = "stream_probe" /\ Probe(c)
    BY <1>5 DEF StreamProbe
  <2>2. saw'[c] \in Builds => saw'[c] = live
    BY <2>1, ProbeSees
  <2>3. saw'[c] \in Builds \cup {"missing", "unknown"}
    BY <2>1, ProbeSees
  <2>4. step'[c] \in {"serve", "deploy_probe"} /\ ran[c] = 0
    BY <1>0, <1>5, <1>g, <2>1 DEF StreamProbe, Lawful
  <2>5. step'[c] = "serve" => saw'[c] = "unknown" \/ AtLeast(live, Own(c))
    <3>1. SUFFICES ASSUME step'[c] = "serve", saw'[c] # "unknown" PROVE AtLeast(live, Own(c))
      OBVIOUS
    <3>2. ~NeedsRxd(c, saw'[c]) /\ ~(Current(c, saw'[c]) /\ Newer(Own(c), saw'[c]))
      BY <1>5, <1>g, <3>1 DEF StreamProbe
    <3>3. QED
      BY <2>2, <2>3, <3>1, <3>2 DEF NeedsRxd, Current, AtLeast
  <2>6. saw'[c] \in Builds => AtLeast(live', saw'[c])
    BY <2>1, <2>2, AtLeastReflexive
  <2>7. QED
    BY <1>0, <1>1, <2>1, <2>4, <2>5, <2>6 DEF Onward, Lawful, DeploySteps, Behind
<1>6. CASE Report(c)
  <2>1. UNCHANGED <<live, ran, misled>> /\ step'[c] = "done"
    BY <1>6, <1>t DEF Report
  <2>2. saw'[c] \in Builds => AtLeast(live', saw'[c])
    BY <1>1, <1>6, <2>1, ProbeSees, AtLeastReflexive DEF Report, Onward
  <2>3. c \notin misled' => ran'[c] <= 1
    BY <1>1, <2>1 DEF Onward
  <2>4. QED
    BY <1>0, <1>1, <2>1, <2>2, <2>3 DEF Onward, DeploySteps, Behind
<1>7. CASE DeployProbe(c)
  <2>1. UNCHANGED <<live, ran, misled>> /\ step[c] = "deploy_probe" /\ Probe(c)
    BY <1>7 DEF DeployProbe
  <2>2. saw'[c] \in Builds => saw'[c] = live
    BY <2>1, ProbeSees
  <2>3. step'[c] \in {"report", "done"} \/ (step'[c] = "detect" /\ ~Refused(c, saw'[c]))
    BY <1>7, <1>g, DeployFailsGoes DEF DeployProbe
  <2>4. ASSUME step'[c] = "detect", c \notin misled, ran[c] # 0, saw'[c] \in Builds PROVE FALSE
    <3>1. Protocol[live] > Protocol[Own(c)] /\ Op(c) # "deploy"
      BY <1>0, <1>1, <2>1, <2>4 DEF Onward, Lawful, DeploySteps
    <3>2. QED
      BY <2>2, <2>3, <2>4, <3>1 DEF Refused, AllowsDowngrade
  <2>5. saw'[c] \in Builds => AtLeast(live', saw'[c])
    BY <2>1, <2>2, AtLeastReflexive
  <2>6. QED
    BY <1>0, <1>1, <2>1, <2>3, <2>4, <2>5 DEF Onward, DeploySteps, Behind
<1>8. CASE Detect(c)
  <2>1. UNCHANGED <<live, ran, misled, saw>> /\ step[c] = "detect"
    BY <1>8 DEF Detect
  <2>2. \/ step'[c] \in {"report", "done", "locate"}
        \/ step'[c] \in {"serve", "retry"} /\ saw[c] = Own(c)
    BY <1>8, <1>g, DeployCutGoes, DeployEndsGoes DEF Detect
  <2>3. QED
    BY <1>0, <1>1, <2>1, <2>2 DEF Onward, DeploySteps, Behind
<1>9. CASE Locate(c) \/ UploadBegin(c) \/ Chmod(c)
  <2>1. UNCHANGED <<live, ran, misled, saw>> /\ step[c] \in {"locate", "upload", "chmod"}
    BY <1>9 DEF Locate, UploadBegin, Chmod
  <2>2. step'[c] \in {"report", "done", "upload", "uploading", "mv", "rm"}
    BY <1>9, <1>g, DeployCutGoes, DeployFailsGoes DEF Locate, UploadBegin, Chmod, InstallFails
  <2>3. QED
    BY <1>0, <1>1, <2>1, <2>2 DEF Onward, DeploySteps, Behind
<1>k. /\ saw[c] \in Builds => AtLeast(live', saw[c])
      /\ ran[c] # 0 => live' \in Builds /\ Protocol[live'] >= Protocol[Own(c)]
      /\ c \notin misled /\ ran[c] # 0 /\ step[c] \in DeploySteps => Protocol[live'] > Protocol[Own(c)]
      /\ AtLeast(live, Own(c)) => AtLeast(live', Own(c))
  BY KnownStays, Forward
<1>10. CASE UploadEnd(c) \/ Remove(c)
  <2>1. UNCHANGED <<ran, misled, saw>> /\ step[c] \in {"uploading", "rm"}
    BY <1>10 DEF UploadEnd, Remove
  <2>2. step'[c] \in {"report", "done", "chmod"}
    BY <1>10, <1>g, DeployCutGoes, DeployFailsGoes DEF UploadEnd, Remove
  <2>3. QED
    BY <1>0, <1>1, <1>k, <2>1, <2>2 DEF Onward, DeploySteps, Behind
<1>11. CASE Move(c)
  <2>1. UNCHANGED <<ran, misled, saw, clashed>> /\ step[c] = "mv"
    BY <1>11 DEF Move, Install
  <2>2. step'[c] = "rm" \/ (step'[c] = "verify" /\ Install(c))
    BY <1>11, <1>g DEF Move, InstallFails
  <2>3. Op(c) # "deploy" /\ step'[c] = "verify" /\ c \notin clashed => AtLeast(live', Own(c))
    BY <1>0, <2>1, <2>2, InstallPuts, AtLeastReflexive DEF Upload, HasBinary
  <2>4. QED
    BY <1>0, <1>1, <1>k, <2>1, <2>2, <2>3 DEF Onward, DeploySteps, Behind
<1>12. CASE Verify(c)
  <2>1. UNCHANGED <<live, ran, misled, saw, clashed>> /\ step[c] = "verify"
    BY <1>12 DEF Verify
  <2>2. \/ step'[c] \in {"report", "done"}
        \/ step'[c] \in {"serve", "retry"} /\ Current(c, live) /\ Op(c) # "deploy"
    <3>1. CASE Current(c, Rxd) /\ DeployEnds(c, "deployed")
      <4>1. Rxd = live
        BY <3>1, RxdIsLive DEF Current
      <4>2. QED
        BY <1>0, <3>1, <4>1, DeployEndsGoes
    <3>2. QED
      BY <1>12, <3>1, DeployCutGoes, DeployFailsGoes DEF Verify
  <2>3. QED
    BY <1>0, <1>1, <2>1, <2>2 DEF Onward, Current, DeploySteps, Behind
<1>13. QED
  BY <1>2, <1>3, <1>4, <1>5, <1>6, <1>7, <1>8, <1>9, <1>10, <1>11, <1>12 DEF Request, DeployTo

\* What the others have there is not disturbed, or was not theirs alone.
LEMMA OthersKept ==
    ASSUME CallsOK, NEW c \in Clients, Request(c) \/ DeployTo(c), NEW d \in Clients \ {c}
    PROVE  CallOK(d)'
<1> USE DEF CallsOK
<1>0. Alone(c) /\ CallOK(d)
  BY StepsAreAlone
<1>1. /\ Op(d)' = Op(d) /\ Own(d)' = Own(d) /\ Pid(d)' = Pid(d) /\ Upload(d)' = Upload(d)
      /\ MayDeploy(d)' = MayDeploy(d) /\ MayFetch(d)' = MayFetch(d) /\ AllowsDowngrade(d)' = AllowsDowngrade(d)
      /\ step'[d] = step[d] /\ saw'[d] = saw[d] /\ told'[d] = told[d] /\ ran'[d] = ran[d]
      /\ (d \in misled' <=> d \in misled) /\ (d \in fetched' <=> d \in fetched)
      /\ clashed \subseteq clashed'
  BY <1>0 DEF Alone, Op, Own, Pid, Upload, HasBinary, MayDeploy, MayFetch, AllowsDowngrade, Policy
<1>2. installer' = d => installer = d /\ (d \notin clashed => live' = live)
  <2>1. CASE UNCHANGED <<live, installer>>
    BY <2>1
  <2>2. CASE UploadEnd(c)
    BY <2>2 DEF UploadEnd, Leaves, Opens
  <2>3. CASE Move(c) /\ Install(c)
    BY <2>3 DEF Install
  <2>4. QED
    BY <2>1, <2>2, <2>3, QuietSteps DEF DeployTo, Quietly, UploadBegin, Move, Remove
<1>3. Lawful(d)'
  BY <1>0, <1>1, <1>2 DEF CallOK, Lawful
<1>4. Prepared(d)'
  BY <1>0, <1>1, NamesKept DEF CallOK, Prepared, Holding
<1>5. Guarded(d)'
  BY <1>0, <1>1 DEF CallOK, Guarded
<1>6. Installed(d)'
  BY <1>0, <1>1, <1>2 DEF CallOK, Installed, Current
<1>7. ~overtaken' => Onward(d)'
  <2>1. SUFFICES ASSUME ~overtaken' PROVE Onward(d)'
    OBVIOUS
  <2>2. ~overtaken /\ (live \in Builds => AtLeast(live', live))
    BY <2>1, Forward
  <2>3. Onward(d)
    BY <1>0, <2>2 DEF CallOK
  <2>4. QED
    BY <1>1, <2>2, <2>3, KnownStays DEF Onward
<1>8. QED
  BY <1>3, <1>4, <1>5, <1>6, <1>7 DEF CallOK

-----------------------------------------------------------------------------
(* The theorems *)

LEMMA InitCalls == Init => CallsOK
<1> SUFFICES ASSUME Init PROVE CallsOK
  OBVIOUS
<1> USE DEF Init, FirstStep
<1>1. \A c \in Clients : setup[c] \in Setup
  BY DeployAssumption
<1>2. \A c \in Clients :
        /\ step[c] \in {"deploy_probe", "stream_probe", "serve"}
        /\ step[c] = "deploy_probe" <=> Op(c) = "deploy"
        /\ step[c] = "stream_probe" => Op(c) = "put_stream" /\ MayDeploy(c)
        /\ step[c] = "serve" /\ Op(c) = "put_stream" => ~MayDeploy(c)
  BY <1>1 DEF Setup, Op, MayDeploy, Policy
<1>3. TypeOK
  <2>1. step \in [Clients -> Steps]
    BY <1>2 DEF Steps
  <2>2. \A c \in Clients : step[c] # "done" /\ told[c] = "none"
    BY <1>2
  <2>3. /\ err \in [Clients -> SUBSET Words] /\ told \in [Clients -> Answers]
        /\ open \in [Clients -> Places]
    BY DEF Answers, Places
  <2>4. ran \in [Clients -> 0 .. 2] /\ cuts \in 0 .. MaxCuts
    BY DeployAssumption
  <2>5. /\ saw \in [Clients -> Builds \cup {"missing", "unknown"}]
        /\ staged \in [Pids -> Builds \cup {"missing", "torn"}]
    OBVIOUS
  <2>6. QED
    BY <2>1, <2>2, <2>3, <2>4, <2>5 DEF TypeOK
<1>4. \A c \in Clients : installer # c
  BY DeployAssumption
<1>5. Apart /\ Opens
  BY <1>2 DEF Apart, Opens, Holding
<1>6. LiveIsWhole
  BY NoBuild DEF LiveIsWhole
<1>7. ASSUME NEW c \in Clients PROVE CallOK(c)
  <2>1. ran[c] = 0 /\ saw[c] = "unknown" /\ fetched = {} /\ installer # c
    BY <1>4
  <2>2. Lawful(c)
    BY <1>2, <2>1 DEF Lawful, DeploySteps, Behind
  <2>3. Prepared(c) /\ Guarded(c) /\ Installed(c)
    BY <1>2, <2>1, NoBuild DEF Prepared, Guarded, Installed, Behind
  <2>4. Onward(c)
    BY <1>2, <2>1, NoBuild DEF Onward
  <2>5. QED
    BY <2>2, <2>3, <2>4 DEF CallOK
<1>8. QED
  BY <1>3, <1>5, <1>6, <1>7 DEF CallsOK

LEMMA NextCalls == CallsOK /\ [Next]_vars => CallsOK'
<1> SUFFICES ASSUME CallsOK, [Next]_vars PROVE CallsOK'
  OBVIOUS
<1>1. ASSUME NEW c \in Clients, Request(c) \/ DeployTo(c) PROVE CallsOK'
  <2>1. TypeOK'
    BY <1>1, RequestTyped, QuietDeployTyped, HostTyped DEF DeployTo
  <2>2. Apart' /\ Opens' /\ LiveIsWhole'
    BY <1>1, ApartKept, OpensKept, WholeKept
  <2>3. CallOK(c)'
    BY <1>1, LawfulKept, PreparedKept, GuardedKept, InstalledKept, OnwardKept DEF CallOK
  <2>4. \A d \in Clients \ {c} : CallOK(d)'
    BY <1>1, OthersKept
  <2>5. QED
    BY <2>1, <2>2, <2>3, <2>4 DEF CallsOK
<1>2. CASE UNCHANGED vars
  <2>1. TypeOK' /\ Apart' /\ Opens' /\ LiveIsWhole'
    BY <1>2 DEF CallsOK, TypeOK, Apart, Opens, LiveIsWhole, Pid
  <2>2. \A c \in Clients : CallOK(c)'
    BY <1>2 DEF CallsOK, CallOK, Lawful, Prepared, Guarded, Installed, Onward, AtLeast, Current, Own, Op, Pid,
       Policy, MayDeploy, MayFetch, AllowsDowngrade, HasBinary, Upload
  <2>3. QED
    BY <2>1, <2>2 DEF CallsOK
<1>3. QED
  BY <1>1, <1>2 DEF Next, Finished

LEMMA CallsAreOK == Spec => []CallsOK
  BY InitCalls, NextCalls, PTL DEF Spec

\* Every reachable state is typed, whatever the calls, builds, pids and cuts.
THEOREM TypeCorrect == Spec => []TypeOK
<1>1. CallsOK => TypeOK
  BY DEF CallsOK
<1>2. QED
  BY <1>1, CallsAreOK, PTL

\* The retry behind an automatic deploy repeats no request that ran, for any
\* number of calls and broken connections: serve_request_auto_deploy, put_file
\* and put_stdin.  Excepted are a call that took an error for a missing rxd by
\* the words in it, or could not tell the rxd because it was being written to,
\* and a host whose rxd is replaced by an older one or spoilt.
THEOREM RunsAtMostOnce == Spec => []AtMostOnce
<1>1. CallsOK => AtMostOnce
  BY DEF CallsOK, CallOK, Onward, AtMostOnce
<1>2. QED
  BY <1>1, CallsAreOK, PTL

\* The path of rxd names a part of an upload only if the call that renamed it
\* there had shared its temporary name, that is its pid, with another that was
\* deploying: for any number of deploys at once, with any pids, broken at any
\* step.  deploy_to_host_with.
THEOREM StaysWhole == Spec => []LiveIsWhole
<1>1. CallsOK => LiveIsWhole
  BY DEF CallsOK
<1>2. QED
  BY <1>1, CallsAreOK, PTL

\* Who is told deployed, and had its temporary name to itself, has put the
\* build there that it uploaded, and can talk to it, until the next install.
THEOREM DeploysOwn == Spec => []DeployedIsOwn
<1>1. CallsOK => DeployedIsOwn
  BY DEF CallsOK, CallOK, Installed, DeployedIsOwn
<1>2. QED
  BY <1>1, CallsAreOK, PTL

\* No host changes and nothing is downloaded against the policy of the call.
THEOREM KeepsPolicy == Spec => []PolicyIsKept
<1>1. ASSUME CallsOK, NEW c \in Clients
      PROVE  /\ Op(c) # "deploy" /\ Policy(c) = "off" => installer # c /\ step[c] \notin Holding
             /\ c \in fetched => IF Op(c) = "deploy" THEN ~setup[c].offline ELSE Policy(c) = "on"
  BY <1>1 DEF CallsOK, CallOK, Lawful, MayDeploy, MayFetch, Holding, DeploySteps, Behind
<1>2. CallsOK => PolicyIsKept
  BY <1>1 DEF PolicyIsKept
<1>3. QED
  BY <1>2, CallsAreOK, PTL

\* An rxd that is ahead is replaced only when told to, or when it is not the
\* one that the probe of the deploy has seen.
THEOREM NeverDowngrades == Spec => SparesTheNewer
<1>1. ASSUME CallsOK, [Next]_vars, NEW c \in Clients,
             step[c] = "mv", live \in Builds, Newer(live, Own(c))
      PROVE  AllowsDowngrade(c) \/ saw[c] # live
  BY <1>1 DEF CallsOK, CallOK, Guarded, Behind
<1>2. CallsOK /\ [Next]_vars =>
        [\A c \in Clients :
            /\ step[c] = "mv" /\ step'[c] # "mv" /\ installer' = c /\ live' # live
            /\ live \in Builds /\ Newer(live, Own(c))
            => AllowsDowngrade(c) \/ saw[c] # live]_vars
  BY <1>1
<1>3. QED
  BY <1>2, CallsAreOK, PTL DEF Spec, SparesTheNewer

\* put - waits for an rxd that is not behind it, before it reads its stdin.
THEOREM StreamsWait == Spec => StreamIsNotWasted
<1>1. ASSUME CallsOK, NEW c \in Clients, Op(c) = "put_stream", MayDeploy(c), step[c] = "serve"
      PROVE  \/ live \in Builds /\ ~Newer(Own(c), live)
             \/ saw[c] = "unknown" \/ overtaken \/ c \in clashed
  BY <1>1 DEF CallsOK, CallOK, Onward, AtLeast
<1>2. CallsOK /\ [Next]_vars =>
        [\A c \in Clients :
            /\ Op(c) = "put_stream" /\ MayDeploy(c)
            /\ step[c] = "serve" /\ step'[c] # "serve"
            => \/ live \in Builds /\ ~Newer(Own(c), live)
               \/ saw[c] = "unknown"
               \/ overtaken
               \/ c \in clashed]_vars
  BY <1>1
<1>3. QED
  BY <1>2, CallsAreOK, PTL DEF Spec, StreamIsNotWasted
=============================================================================
