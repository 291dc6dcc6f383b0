--------------------------- MODULE DownloadProofs ---------------------------
(***************************************************************************)
(* What rx get promises, proved for any number of gets of the path, any    *)
(* faults and pipe sizes, with puts and another program beside them and    *)
(* with losses of power.                                                   *)
(***************************************************************************)
EXTENDS UploadProofs, SequenceTheorems

\* The frames, and the names of the parts of a step, are always expanded.
USE DEF fileVars, rxVars, rxdVars, putVars, getterVars, serverVars, writerVars,
        getVars, vars, Files

-----------------------------------------------------------------------------
(* The inductive invariant *)

\* What the file holds now, a reader of the path could find at some moment.
Seen(f) == <<f, data[f]>> \in contents

\* Nothing is sent, taken or installed before rxd opens the file.
Unopened(g) == server[g] \in {"idle", "open"} =>
    /\ getter[g] \in {"idle", "header", "done"}
    /\ staged[g] = <<>> /\ pipe[g] = <<>> /\ pos[g] = 0
    /\ dest[g] = {} /\ outcome[g] # "file_changed"

\* The header, until rx has taken it from the pipe.
Ahead(g) == IF getter[g] = "header" /\ pipe[g] # <<>> THEN 1 ELSE 0

\* The header comes first, then units; rx stages no more than it declared.
Framed(g) ==
    /\ getter[g] # "done" => \A i \in 1 .. Len(pipe[g]) :
          pipe[g][i].what = "unit" <=> ~(getter[g] = "header" /\ i = 1)
    /\ getter[g] = "header" /\ pipe[g] # <<>> =>
          \/ pipe[g][1] = Message("size", length[g])
          \/ pipe[g][1].what = "error" /\ server[g] = "gone" /\ Len(pipe[g]) = 1
    /\ getter[g] = "header" /\ server[g] \in {"send", "restat"} /\ wireUp[g] => pipe[g] # <<>>
    /\ getter[g] \in {"idle", "header", "stage"} => staged[g] = <<>>
    /\ getter[g] \in {"stage", "receive", "drain", "commit"} => declared[g] = length[g]
    /\ Len(staged[g]) <= declared[g]
    /\ getter[g] \in {"drain", "commit"} => Len(staged[g]) = declared[g]

\* What rxd has sent is staged, or under way, or was cut off.
Counted(g) ==
    /\ pos[g] <= length[g]
    /\ server[g] = "restat" => pos[g] = length[g]
    /\ getter[g] # "done" =>
          /\ Len(staged[g]) + Len(pipe[g]) - Ahead(g) <= pos[g]
          /\ wireUp[g] => Len(staged[g]) + Len(pipe[g]) - Ahead(g) = pos[g]

\* The length of the file has moved since rxd opened it.
Moved(g) == \E c \in contents : c[1] = opened[g] /\ Len(c[2]) # length[g]

\* What rxd does, and why it may have failed.
Served(g) ==
    /\ getter[g] = "idle" <=> server[g] = "idle"
    /\ server[g] \in {"send", "restat"} => Seen(opened[g])
    /\ exit[g] = "none" <=> server[g] # "gone"
    /\ exit[g] = "failure" /\ getter[g] # "done" => ~wireUp[g] \/ Moved(g)
    /\ outcome[g] = "file_changed" => ~wireUp[g] \/ exit[g] = "killed" \/ Moved(g)

\* What rx has on its disk.
Tidy(g) ==
    /\ outcome[g] = "got" <=> dest[g] # {}
    /\ getter[g] \in {"idle", "header", "stage", "reap", "done"} => g \notin local

GetOK(g) == Unopened(g) /\ Framed(g) /\ Counted(g) /\ Served(g) /\ Tidy(g)

\* The inductive invariant.
GetsOK == Seen(Target) /\ \A g \in Getters : GetOK(g)

\* The place in the file of a unit under way, and what was read so far
\* against a content, as far as that goes.
Place(g, i) == Len(staged[g]) + i - Ahead(g)

Agrees(g, s) ==
    /\ \A k \in 1 .. Len(staged[g]) : k <= Len(s) => staged[g][k] = s[k]
    /\ \A i \in 1 .. Len(pipe[g]) :
          pipe[g][i].what = "unit" /\ Place(g, i) <= Len(s) => pipe[g][i].n = s[Place(g, i)]

\* The length and all the units are those of one content.
WholeRead(g) == \E c \in contents :
    /\ c = <<opened[g], c[2]>> /\ c[2] \in Seq(Nat)
    /\ Len(c[2]) = length[g]
    /\ Agrees(g, c[2])

\* What was read agrees with the file as long as rxd reads it, and with one
\* content of it from then on.
Untorn(g) ==
    /\ server[g] \in {"send", "restat"} /\ getter[g] # "done" =>
          /\ Agrees(g, data[opened[g]])
          /\ writer = "append" => pos[g] <= Len(data[opened[g]])
    /\ exit[g] = "success" =>
          \/ WholeRead(g)
          \/ getter[g] = "header" /\ \A i \in 1 .. Len(pipe[g]) : pipe[g][i].what = "error"
          \/ getter[g] \in {"commit", "done"}
    /\ getter[g] = "commit" => <<opened[g], staged[g]>> \in contents
    /\ \A got \in dest[g] : <<opened[g], got>> \in contents

GetsUntorn == \A g \in Getters : Untorn(g)

-----------------------------------------------------------------------------
(* The files *)

\* The path names a file.
LEMMA TargetOnPath ==
    ASSUME FileTypeOK
    PROVE  Target \in Files /\ Target \in ToSet(history)
<1>1. history \in Seq(Files) /\ Len(history) \in Nat \ {0}
  BY DEF FileTypeOK
<1>2. QED
  BY <1>1 DEF Target, Last, ToSet

\* A put writes to no file that a reader could have found.
LEMMA PutFiles ==
    ASSUME PutsOK, PutNext, Seen(Target)
    PROVE  /\ contents \subseteq contents'
           /\ Seen(Target)'
           /\ \A f \in Files : Seen(f) => data'[f] = data[f]
<1>0. FileTypeOK /\ PutTypeOK
  BY DEF PutsOK, TypeOK
<1>1. PICK p \in Putters : RxPut(p) \/ RxdPut(p) \/ Cut(p) \/ RxdKilled(p)
  BY DEF PutNext
<1>2. CASE UNCHANGED fileVars
  BY <1>2 DEF Seen, Target, Last
<1>3. CASE RxdPut(p) /\ ~UNCHANGED fileVars
  <2>1. \/ CreateTemp(p)
        \/ rxd[p] = "fill" /\ \E n \in Nat : WriteTemp(p, n)
        \/ SyncTemp(p)
        \/ \E right \in {"mode", "owner"} : Grant(p, right)
        \/ RenameTemp(p)
        \/ RemoveTemp(p)
        \/ SyncDirectory
    <3>1. \A what : HasToken(p, what) => Head(wire[p]).n \in Nat
      BY <1>0, ReceiveType
    <3>2. QED
      BY <1>3, <3>1 DEF RxdPut, RxdRequest, RxdNoRequest, RxdCreate, RxdCopy, RxdCopyEnd,
                FramedHeader, FramedPayload, FramedTrailer, FramedEof, RxdSync, RxdChmod, RxdChown,
                RxdRename, RxdSyncDirectory, Reject, Fails, BodyComplete
  <2>2. CASE UNCHANGED <<data, history, contents>>
    BY <2>2 DEF Seen, Target, Last
  <2>3. CASE rxd[p] = "fill" /\ \E n \in Nat : WriteTemp(p, n)
    <3>1. ~Installed(p)
      BY <2>3 DEF PutsOK, PutOK, Placed
    <3>2. \A f \in Files : f # p => data'[f] = data[f]
      BY <2>3, <1>0 DEF WriteTemp, FileTypeOK
    <3>3. ~Seen(p)
      BY <3>1 DEF Seen, Installed
    <3>4. UNCHANGED <<history, contents>>
      BY <2>3 DEF WriteTemp
    <3>5. Target \in Files /\ Target' = Target
      BY <1>0, <3>4, TargetOnPath DEF Target, Last
    <3>6. QED
      BY <3>2, <3>3, <3>4, <3>5 DEF Seen
  <2>4. CASE RenameTemp(p)
    <3>1. Target' = p
      <4>1. history \in Seq(Files) /\ p \in Files
        BY <1>0 DEF FileTypeOK
      <4>2. QED
        BY <2>4, <4>1 DEF RenameTemp, Target, Last
    <3>2. QED
      BY <2>4, <3>1 DEF RenameTemp, Seen
  <2>5. QED
    BY <2>1, <2>2, <2>3, <2>4 DEF CreateTemp, SyncTemp, Grant, RemoveTemp, SyncDirectory
<1>4. QED
  BY <1>1, <1>2, <1>3 DEF RxPut, RxRefuse, RxRequest, RxSend, RxEnd, RxSourceFails, RxPipeBroken,
                          RxAnswer, Cut, RxdKilled

\* A sequence without its last element.
LEMMA FrontOf ==
    ASSUME NEW S, NEW s \in Seq(S), s # <<>>
    PROVE  /\ Len(Front(s)) = Len(s) - 1
           /\ \A k \in 1 .. Len(Front(s)) : Front(s)[k] = s[k]
<1>1. Front(s) = SubSeq(s, 1, Len(s) - 1)
  BY DEF Front
<1>2. Len(s) \in Nat \ {0}
  OBVIOUS
<1> DEFINE n == Len(s) - 1
<1>3. n \in Nat
  BY <1>2
<1> HIDE DEF n
<1>4. Len(SubSeq(s, 1, n)) = n
  BY <1>3
<1>5. \A k \in 1 .. n : SubSeq(s, 1, n)[k] = s[k]
  BY <1>3
<1>6. QED
  BY <1>1, <1>4, <1>5 DEF n

\* What a program on the host does to the original file.
LEMMA EditFiles ==
    ASSUME TypeOK, Edit, Seen(Target)
    PROVE  /\ contents \subseteq contents'
           /\ Seen(Target)'
           /\ \A f \in Files : Seen(f) => Seen(f)'
           /\ \A f \in Files \ {Original} : data'[f] = data[f]
           /\ writer = "append" =>
                /\ Len(data'[Original]) = Len(data[Original]) + 1
                /\ \A k \in 1 .. Len(data[Original]) : data'[Original][k] = data[Original][k]
           /\ writer = "truncate" =>
                /\ Len(data'[Original]) = Len(data[Original]) - 1
                /\ \A k \in 1 .. Len(data'[Original]) : data'[Original][k] = data[Original][k]
<1> DEFINE old == data[Original]
<1>1. data \in [Files -> Seq(Nat)] /\ old \in Seq(Nat) /\ edits \in Nat
  BY DownloadAssumption DEF TypeOK, FileTypeOK, GetTypeOK
<1>2. /\ contents' = contents \cup {<<Original, data'[Original]>>}
      /\ UNCHANGED history
      /\ \A f \in Files \ {Original} : data'[f] = data[f]
  BY <1>1 DEF Edit, EditFile
<1>3. Target \in Files /\ Target' = Target
  BY <1>2, TargetOnPath DEF TypeOK, Target, Last
<1>4. \A f \in Files : Seen(f) => Seen(f)'
  BY <1>2 DEF Seen
<1>5. CASE writer = "append"
  <2>1. data'[Original] = Append(old, edits + 1)
    BY <1>1, <1>5 DEF Edit, EditFile
  <2>2. QED
    BY <1>1, <1>2, <1>3, <1>4, <1>5, <2>1
<1>6. CASE writer = "truncate"
  <2>1. data'[Original] = Front(old) /\ old # <<>>
    BY <1>1, <1>6 DEF Edit, EditFile
  <2>2. /\ Len(Front(old)) = Len(old) - 1
        /\ \A k \in 1 .. Len(Front(old)) : Front(old)[k] = old[k]
    BY <1>1, <2>1, FrontOf
  <2>3. QED
    BY <1>1, <1>2, <1>3, <1>4, <1>6, <2>1, <2>2
<1>7. QED
  BY <1>2, <1>3, <1>4, <1>5, <1>6

\* What the loss of power leaves at the path can be found there.
LEMMA PowerFiles ==
    ASSUME LosePower
    PROVE  contents \subseteq contents' /\ Seen(Target)'
  BY DEF LosePower, Seen

\* The steps of a get change no file.
LEMMA GetKeepsFiles ==
    ASSUME NEW g \in Getters, ServerGet(g) \/ RxGet(g) \/ GetCut(g) \/ ServerKilled(g)
    PROVE  UNCHANGED <<fileVars, writerVars>>
  BY DEF ServerGet, RxGet, ServerOpen, ServerSend, ServerSent, ServerRestat, ServerBroken,
         GetRequest, GetHeader, GetStage, GetReceive, GetShort, GetComplete, GetVerify, GetCommit,
         GetReap, GetCut, ServerKilled

-----------------------------------------------------------------------------
(* The gets do not disturb each other *)

\* Nothing of a get changes.
Frozen(g) ==
    /\ getter'[g] = getter[g] /\ declared'[g] = declared[g] /\ staged'[g] = staged[g]
    /\ dest'[g] = dest[g] /\ outcome'[g] = outcome[g]
    /\ g \in local' <=> g \in local
    /\ server'[g] = server[g] /\ exit'[g] = exit[g] /\ opened'[g] = opened[g]
    /\ length'[g] = length[g] /\ pos'[g] = pos[g]
    /\ pipe'[g] = pipe[g] /\ wireUp'[g] = wireUp[g]
    /\ writer' = writer

LEMMA FrozenStays ==
    ASSUME NEW g, GetOK(g), Frozen(g), contents \subseteq contents',
           Seen(opened[g]) => Seen(opened[g])'
    PROVE  GetOK(g)'
<1> USE DEF GetOK, Frozen
<1>1. Unopened(g)'
  BY DEF Unopened
<1>2. Ahead(g)' = Ahead(g)
  BY DEF Ahead
<1>3. Framed(g)'
  BY DEF Framed
<1>4. Counted(g)'
  BY <1>2 DEF Counted
<1>5. Moved(g) => Moved(g)'
  BY DEF Moved
<1>6. Served(g)'
  BY <1>5 DEF Served
<1>7. Tidy(g)'
  BY DEF Tidy
<1>8. QED
  BY <1>1, <1>3, <1>4, <1>6, <1>7

LEMMA FrozenAgrees ==
    ASSUME NEW g, Frozen(g)
    PROVE  \A s : Agrees(g, s) => Agrees(g, s)'
<1>1. Ahead(g)' = Ahead(g)
  BY DEF Ahead, Frozen
<1>2. QED
  BY <1>1 DEF Agrees, Place, Frozen

LEMMA FrozenUntorn ==
    ASSUME NEW g, Served(g), Untorn(g), Frozen(g), contents \subseteq contents',
           Seen(opened[g]) => data'[opened[g]] = data[opened[g]]
    PROVE  Untorn(g)'
<1> USE DEF Frozen
<1>1. server[g] \in {"send", "restat"} => data'[opened'[g]] = data[opened[g]]
  BY DEF Served
<1>2. (server[g] \in {"send", "restat"} /\ getter[g] # "done" =>
          /\ Agrees(g, data[opened[g]])
          /\ writer = "append" => pos[g] <= Len(data[opened[g]]))'
  BY <1>1, FrozenAgrees DEF Untorn
<1>3. WholeRead(g) => WholeRead(g)'
  BY FrozenAgrees DEF WholeRead
<1>4. QED
  BY <1>2, <1>3 DEF Untorn

\* A step of one get leaves the others alone.
LEMMA OthersFrozen ==
    ASSUME GetTypeOK, NEW g \in Getters, NEW h \in Getters, g # h,
           ServerGet(h) \/ RxGet(h) \/ GetCut(h) \/ ServerKilled(h)
    PROVE  Frozen(g)
<1> USE DEF GetTypeOK, Frozen, Exit, Put, Goto, Tell, Take, LocalFailure
<1>1. CASE ServerGet(h)
  BY <1>1 DEF ServerGet, ServerOpen, ServerSend, ServerSent, ServerRestat, ServerBroken
<1>2. CASE RxGet(h)
  <2>1. CASE GetRequest(h) \/ GetHeader(h) \/ GetStage(h)
    BY <2>1 DEF GetRequest, GetHeader, GetStage
  <2>2. CASE GetReceive(h)
    BY <2>2 DEF GetReceive
  <2>3. CASE GetShort(h) \/ GetComplete(h) \/ GetVerify(h)
    BY <2>3 DEF GetShort, GetComplete, GetVerify
  <2>4. CASE GetCommit(h) \/ GetReap(h)
    BY <2>4 DEF GetCommit, GetReap
  <2>5. QED
    BY <1>2, <2>1, <2>2, <2>3, <2>4 DEF RxGet
<1>3. CASE GetCut(h)
  BY <1>3 DEF GetCut
<1>4. CASE ServerKilled(h)
  BY <1>4 DEF ServerKilled
<1>5. QED
  BY <1>1, <1>2, <1>3, <1>4

-----------------------------------------------------------------------------
(* What the steps of a get preserve *)

\* The values of a get have their types.
LEMMA GetValues ==
    ASSUME TypeOK, NEW g \in Getters
    PROVE  /\ staged[g] \in Seq(Nat) /\ pipe[g] \in Seq(Messages)
           /\ declared[g] \in Nat /\ length[g] \in Nat /\ pos[g] \in Nat
           /\ Len(staged[g]) \in Nat /\ Len(pipe[g]) \in Nat
           /\ opened[g] \in Files /\ Target \in Files
           /\ Len(data[opened[g]]) \in Nat /\ Len(data[Target]) \in Nat
           /\ getter[g] = "done" <=> outcome[g] # "none"
           /\ data[Target] \in Seq(Nat) /\ data[opened[g]] \in Seq(Nat)
<1>1. FileTypeOK /\ GetTypeOK
  BY DEF TypeOK
<1>2. Target \in Files
  BY <1>1, TargetOnPath
<1>3. QED
  BY <1>1, <1>2 DEF FileTypeOK, GetTypeOK

\* A message more in the pipe.
LEMMA AppendMessage ==
    ASSUME NEW S, NEW s \in Seq(S), NEW m
    PROVE  /\ Len(Append(s, m)) = Len(s) + 1
           /\ Append(s, m) # <<>>
           /\ \A i \in 1 .. Len(s) : Append(s, m)[i] = s[i]
           /\ Append(s, m)[Len(s) + 1] = m
           /\ s = <<>> <=> Len(s) = 0
<1>1. Len(Append(s, m)) = Len(s) + 1
  OBVIOUS
<1>2. Len(s) \in Nat
  OBVIOUS
<1>3. Append(s, m) # <<>>
  BY <1>1, <1>2
<1>4. QED
  BY <1>1, <1>2, <1>3

\* The first message taken from it.
LEMMA TakeMessage ==
    ASSUME NEW S, NEW s \in Seq(S), s # <<>>
    PROVE  /\ Tail(s) \in Seq(S) /\ Len(Tail(s)) = Len(s) - 1 /\ Len(s) >= 1
           /\ Head(s) = s[1]
           /\ \A i \in 1 .. Len(Tail(s)) : Tail(s)[i] = s[i + 1]
           /\ Tail(s) = <<>> <=> Len(s) = 1
<1>1. Len(s) \in Nat \ {0}
  OBVIOUS
<1>2. Tail(s) \in Seq(S) /\ Len(Tail(s)) = Len(s) - 1 /\ Head(s) = s[1]
  OBVIOUS
<1>3. \A i \in 1 .. Len(s) - 1 : Tail(s)[i] = s[i + 1]
  OBVIOUS
<1>4. Tail(s) = <<>> <=> Len(Tail(s)) = 0
  <2>1. \A v \in Seq(S) : v = <<>> <=> Len(v) = 0
    OBVIOUS
  <2>2. QED
    BY ONLY <1>2, <2>1
<1>5. QED
  BY <1>1, <1>2, <1>3, <1>4

\* A step of rxd.
LEMMA ServerPreserves ==
    ASSUME TypeOK, NEW g \in Getters, GetOK(g), Seen(Target), ServerGet(g)
    PROVE  GetOK(g)'
<1>0. GetTypeOK /\ UNCHANGED <<fileVars, getterVars, wireUp>>
  BY DEF TypeOK, ServerGet, ServerOpen, ServerSend, ServerSent, ServerRestat, ServerBroken
<1>1. Tidy(g)'
  BY <1>0 DEF GetOK, Tidy
<1>2. CASE ServerOpen(g)
  <2>0. server[g] = "open" /\ wireUp[g]
    BY <1>2 DEF ServerOpen
  <2>1. /\ pipe[g] = <<>> /\ pos[g] = 0 /\ staged[g] = <<>> /\ getter[g] \in {"header", "done"}
        /\ outcome[g] # "file_changed" /\ exit[g] = "none"
    BY <2>0 DEF GetOK, Unopened, Served
  <2>2. CASE server'[g] = "send"
    <3>1. /\ pipe'[g] = <<Message("size", Len(data[Target]))>>
          /\ length'[g] = Len(data[Target]) /\ opened'[g] = Target
          /\ pos'[g] = pos[g] /\ exit'[g] = exit[g]
      BY <1>0, <1>2, <2>1, <2>2 DEF ServerOpen, GetTypeOK, Put, Exit
    <3>2. Len(data[Target]) \in Nat
      BY GetValues
    <3>3. Unopened(g)'
      BY <2>2 DEF Unopened
    <3>4. Framed(g)'
      BY <1>0, <2>1, <2>2, <3>1, <3>2 DEF GetOK, Framed, Message
    <3>5. Counted(g)'
      BY <1>0, <2>1, <2>2, <3>1, <3>2 DEF Counted, Ahead
    <3>6. Served(g)'
      BY <1>0, <2>1, <2>2, <3>1 DEF Served, Seen, Moved, Target, Last
    <3>7. QED
      BY <1>1, <3>3, <3>4, <3>5, <3>6 DEF GetOK
  <2>3. CASE server'[g] = "gone"
    <3>1. /\ pipe'[g] = <<Message("error", 0)>>
          /\ length'[g] = length[g] /\ opened'[g] = opened[g]
          /\ pos'[g] = pos[g] /\ exit'[g] = "success"
      BY <1>0, <1>2, <2>1, <2>3 DEF ServerOpen, GetTypeOK, Put, Exit
    <3>3. Unopened(g)'
      BY <2>3 DEF Unopened
    <3>4. Framed(g)'
      BY <1>0, <2>1, <2>3, <3>1 DEF GetOK, Framed, Message
    <3>5. Counted(g)'
      BY <1>0, <2>1, <2>3, <3>1, GetValues DEF Counted, Ahead
    <3>6. Served(g)'
      BY <1>0, <2>1, <2>3, <3>1 DEF Served
    <3>7. QED
      BY <1>1, <3>3, <3>4, <3>5, <3>6 DEF GetOK
  <2>4. QED
    BY <1>0, <1>2, <2>2, <2>3 DEF ServerOpen, GetTypeOK, Exit
<1>3. CASE ServerSend(g)
  <2>0. server[g] = "send" /\ wireUp[g] /\ More(g)
    BY <1>3 DEF ServerSend
  <2> DEFINE m == Message("unit", data[opened[g]][pos[g] + 1])
  <2>1. /\ pipe'[g] = Append(pipe[g], m) /\ pos'[g] = pos[g] + 1
        /\ server'[g] = server[g] /\ exit'[g] = exit[g] /\ opened'[g] = opened[g]
        /\ length'[g] = length[g]
    BY <1>0, <1>3 DEF ServerSend, GetTypeOK, Put
  <2>2. m.what = "unit"
    BY DEF Message
  <2> HIDE DEF m
  <2>3. /\ Len(pipe'[g]) = Len(pipe[g]) + 1
        /\ pipe'[g] # <<>>
        /\ \A i \in 1 .. Len(pipe[g]) : pipe'[g][i] = pipe[g][i]
        /\ pipe'[g][Len(pipe[g]) + 1] = m
        /\ pipe[g] = <<>> <=> Len(pipe[g]) = 0
    <3>1. pipe[g] \in Seq(Messages)
      BY GetValues
    <3> DEFINE longer == Append(pipe[g], m)
    <3>2. /\ Len(longer) = Len(pipe[g]) + 1
          /\ longer # <<>>
          /\ \A i \in 1 .. Len(pipe[g]) : longer[i] = pipe[g][i]
          /\ longer[Len(pipe[g]) + 1] = m
          /\ pipe[g] = <<>> <=> Len(pipe[g]) = 0
      BY ONLY <3>1, AppendMessage
    <3>3. pipe'[g] = longer
      BY <2>1
    <3>4. QED
      BY ONLY <3>2, <3>3
  <2>4. getter[g] = "header" => pipe[g] # <<>> /\ Len(pipe[g]) >= 1
    BY <2>0, <2>3, GetValues DEF GetOK, Framed
  <2>5. Unopened(g)'
    BY <2>0, <2>1 DEF Unopened
  <2>6. Framed(g)'
    BY <1>0, <2>0, <2>1, <2>2, <2>3, <2>4, GetValues DEF GetOK, Framed
  <2>7. Counted(g)'
    <3>1. Ahead(g)' = Ahead(g) /\ Ahead(g) \in Nat
      BY <1>0, <2>3, <2>4 DEF Ahead
    <3>2. /\ Len(staged[g]) \in Nat /\ Len(pipe[g]) \in Nat /\ pos[g] \in Nat /\ length[g] \in Nat
          /\ staged'[g] = staged[g] /\ getter'[g] = getter[g] /\ wireUp'[g] = wireUp[g]
      BY <1>0, GetValues
    <3>3. Counted(g) /\ pos[g] < length[g]
      BY <2>0 DEF GetOK, More
    <3>4. pos'[g] = pos[g] + 1 /\ Len(pipe'[g]) = Len(pipe[g]) + 1
          /\ server[g] = "send" /\ server'[g] = "send" /\ length'[g] = length[g]
      BY <2>0, <2>1, <2>3
    <3>5. QED
      BY ONLY SMTT(40), <3>1, <3>2, <3>3, <3>4 DEF Counted
  <2>8. Served(g)'
    BY <1>0, <2>0, <2>1 DEF GetOK, Served, Seen, Moved
  <2>9. QED
    BY <1>1, <2>5, <2>6, <2>7, <2>8 DEF GetOK
<1>4. CASE ServerSent(g)
  <2>0. server[g] = "send" /\ wireUp[g] /\ ~More(g)
    BY <1>4 DEF ServerSent
  <2>1. /\ pipe'[g] = pipe[g] /\ pos'[g] = pos[g] /\ opened'[g] = opened[g]
        /\ length'[g] = length[g]
    BY <1>4 DEF ServerSent
  <2>2. IF pos[g] # length[g] THEN server'[g] = "gone" /\ exit'[g] = "failure"
                              ELSE server'[g] = "restat" /\ exit'[g] = exit[g]
    BY <1>0, <1>4 DEF ServerSent, GetTypeOK, Exit
  <2>3. Unopened(g)'
    BY <2>2 DEF Unopened
  <2>4. Framed(g)'
    BY <1>0, <2>0, <2>1, <2>2 DEF GetOK, Framed
  <2>5. Counted(g)'
    BY <1>0, <2>0, <2>1, <2>2 DEF GetOK, Counted, Ahead
  <2>6. Served(g)'
    <3>1. Seen(opened[g])
      BY <2>0 DEF GetOK, Served
    <3>2. pos[g] # length[g] => Moved(g)
      <4>1. pos[g] # length[g] => Len(data[opened[g]]) # length[g]
        BY <2>0, GetValues DEF More, GetOK, Counted
      <4>2. QED
        BY <3>1, <4>1 DEF Seen, Moved
    <3>3. Moved(g)' <=> Moved(g)
      BY <1>0, <2>1 DEF Moved
    <3>4. QED
      BY <1>0, <2>0, <2>1, <2>2, <3>1, <3>2, <3>3 DEF GetOK, Served, Seen
  <2>7. QED
    BY <1>1, <2>3, <2>4, <2>5, <2>6 DEF GetOK
<1>5. CASE ServerRestat(g)
  <2>0. server[g] = "restat"
    BY <1>5 DEF ServerRestat
  <2>1. /\ pipe'[g] = pipe[g] /\ pos'[g] = pos[g] /\ opened'[g] = opened[g]
        /\ length'[g] = length[g] /\ server'[g] = "gone"
        /\ exit'[g] = IF Len(data[opened[g]]) = length[g] THEN "success" ELSE "failure"
    BY <1>0, <1>5 DEF ServerRestat, GetTypeOK, Exit
  <2>3. Unopened(g)'
    BY <2>1 DEF Unopened
  <2>4. Framed(g)'
    BY <1>0, <2>0, <2>1 DEF GetOK, Framed
  <2>5. Counted(g)'
    BY <1>0, <2>0, <2>1 DEF GetOK, Counted, Ahead
  <2>6. Served(g)'
    <3>1. Seen(opened[g])
      BY <2>0 DEF GetOK, Served
    <3>2. Len(data[opened[g]]) # length[g] => Moved(g)
      BY <3>1 DEF Seen, Moved
    <3>3. Moved(g)' <=> Moved(g)
      BY <1>0, <2>1 DEF Moved
    <3>4. QED
      BY <1>0, <2>0, <2>1, <3>1, <3>2, <3>3 DEF GetOK, Served
  <2>7. QED
    BY <1>1, <2>3, <2>4, <2>5, <2>6 DEF GetOK
<1>6. CASE ServerBroken(g)
  <2>1. /\ pipe'[g] = pipe[g] /\ pos'[g] = pos[g] /\ opened'[g] = opened[g]
        /\ length'[g] = length[g] /\ server'[g] = "gone" /\ exit'[g] = "failure"
        /\ server[g] \in {"open", "send"} /\ (~wireUp[g] \/ getter[g] = "done")
    BY <1>0, <1>6 DEF ServerBroken, GetTypeOK, Exit
  <2>3. Unopened(g)'
    BY <2>1 DEF Unopened
  <2>4. Framed(g)'
    BY <1>0, <2>1 DEF GetOK, Framed
  <2>5. Counted(g)'
    BY <1>0, <2>1 DEF GetOK, Counted, Ahead
  <2>6. Served(g)'
    <3>1. Moved(g)' <=> Moved(g)
      BY <1>0, <2>1 DEF Moved
    <3>2. QED
      BY <1>0, <2>1, <3>1 DEF GetOK, Served
  <2>7. QED
    BY <1>1, <2>3, <2>4, <2>5, <2>6 DEF GetOK
<1>7. QED
  BY <1>2, <1>3, <1>4, <1>5, <1>6 DEF ServerGet

\* A step of rx.
LEMMA GetterPreserves ==
    ASSUME TypeOK, NEW g \in Getters, GetOK(g), RxGet(g)
    PROVE  GetOK(g)'
<1>0. /\ GetTypeOK
      /\ UNCHANGED <<fileVars, opened, length, pos, exit, wireUp>>
      /\ ~GetRequest(g) => UNCHANGED server
  BY DEF TypeOK, RxGet, GetRequest, GetHeader, GetStage, GetReceive, GetShort, GetComplete,
         GetVerify, GetCommit, GetReap
<1>1. Moved(g)' <=> Moved(g)
  BY <1>0 DEF Moved
<1>2. Seen(opened[g])' <=> Seen(opened[g])
  BY <1>0 DEF Seen
<1>3. CASE GetRequest(g)
  <2>1. /\ getter[g] = "idle" /\ getter'[g] = "header" /\ server'[g] = "open"
        /\ UNCHANGED <<declared, staged, local, dest, outcome, pipe>>
    BY <1>0, <1>3 DEF GetRequest, GetTypeOK, Goto
  <2>2. server[g] = "idle" /\ pipe[g] = <<>> /\ outcome[g] = "none" /\ exit[g] = "none"
    BY <2>1, GetValues DEF GetOK, Served, Unopened
  <2>3. Ahead(g)' = 0 /\ Ahead(g) = 0
    BY <2>1, <2>2 DEF Ahead
  <2>4. QED
    BY <1>0, <1>1, <2>1, <2>2, <2>3, GetValues
       DEF GetOK, Unopened, Framed, Counted, Served, Tidy
<1>4. CASE GetHeader(g)
  <2>0. getter[g] = "header" /\ UNCHANGED <<staged, local, dest>> /\ staged[g] = <<>>
    BY <1>4 DEF GetHeader, GetOK, Framed
  <2>1. CASE getter'[g] = "stage"
    <3>1. /\ pipe[g] # <<>> /\ Head(pipe[g]).what = "size"
          /\ pipe'[g] = Tail(pipe[g]) /\ declared'[g] = Head(pipe[g]).n
          /\ UNCHANGED outcome
      BY <1>0, <1>4, <2>1 DEF GetHeader, Has, Take, Goto, Tell, GetTypeOK
    <3>2. pipe[g] \in Seq(Messages)
      BY GetValues
    <3>3. /\ Len(Tail(pipe[g])) = Len(pipe[g]) - 1
          /\ Head(pipe[g]) = pipe[g][1]
          /\ \A i \in 1 .. Len(Tail(pipe[g])) : Tail(pipe[g])[i] = pipe[g][i + 1]
      BY ONLY <3>1, <3>2, TakeMessage
    <3>4. declared'[g] = length[g]
      BY <2>0, <3>1, <3>3 DEF GetOK, Framed, Message
    <3>5. Unopened(g)'
      BY <1>0, <1>4, <2>0, <3>1 DEF GetOK, Unopened, GetHeader, GetRequest
    <3>6. Framed(g)'
      <4>1. \A i \in 1 .. Len(pipe'[g]) : pipe'[g][i].what = "unit"
        <5>1. \A i \in 1 .. Len(pipe[g]) : i # 1 => pipe[g][i].what = "unit"
          BY <2>0 DEF GetOK, Framed
        <5>2. Len(pipe[g]) \in Nat
          BY GetValues
        <5>3. QED
          BY <3>1, <3>3, <5>1, <5>2
      <4>2. QED
        BY <1>0, <2>0, <2>1, <3>4, <4>1, GetValues DEF Framed
    <3>7. Counted(g)'
      <4>1. Ahead(g) = 1 /\ Ahead(g)' = 0
        BY <2>0, <2>1, <3>1 DEF Ahead
      <4>2. Len(staged[g]) \in Nat /\ Len(pipe[g]) \in Nat /\ pos[g] \in Nat /\ length[g] \in Nat
        BY GetValues
      <4>3. Counted(g)
        BY DEF GetOK
      <4>4. wireUp'[g] = wireUp[g] /\ staged'[g] = staged[g] /\ pos'[g] = pos[g]
            /\ length'[g] = length[g] /\ server'[g] = server[g]
        BY <1>0, <1>4, <2>0 DEF GetHeader, GetRequest
      <4>5. QED
        BY <2>0, <2>1, <3>1, <3>3, <4>1, <4>2, <4>3, <4>4 DEF Counted
    <3>8. Served(g)'
      BY <1>0, <1>1, <1>2, <1>4, <2>0, <2>1, <3>1 DEF GetOK, Served, GetHeader, GetRequest
    <3>9. Tidy(g)'
      BY <2>0, <2>1, <3>1 DEF GetOK, Tidy
    <3>10. QED
      BY <3>5, <3>6, <3>7, <3>8, <3>9 DEF GetOK
  <2>2. CASE getter'[g] = "done"
    <3>1. /\ UNCHANGED declared
          /\ outcome'[g] \in {"typed_error", "transport"}
          /\ \/ server[g] = "gone"
             \/ UNCHANGED pipe
      BY <1>0, <1>4, <2>0, <2>2 DEF GetHeader, Has, Take, Goto, Tell, GetTypeOK, GetOK, Framed, Message
    <3>2. outcome[g] = "none" /\ dest[g] = {}
      BY <2>0, GetValues DEF GetOK, Tidy
    <3>3. Unopened(g)'
      BY <1>0, <1>4, <2>0, <2>2, <3>1, <3>2 DEF GetOK, Unopened, GetHeader, GetRequest
    <3>4. Framed(g)' /\ Counted(g)'
      BY <1>0, <1>4, <2>0, <2>2, <3>1 DEF GetOK, Framed, Counted, GetHeader, GetRequest
    <3>5. Served(g)'
      BY <1>0, <1>1, <1>2, <1>4, <2>0, <2>2, <3>1 DEF GetOK, Served, GetHeader, GetRequest
    <3>6. Tidy(g)'
      BY <2>0, <2>2, <3>1, <3>2 DEF GetOK, Tidy
    <3>7. QED
      BY <3>3, <3>4, <3>5, <3>6 DEF GetOK
  <2>3. QED
    BY <1>0, <1>4, <2>1, <2>2 DEF GetHeader, Goto, Tell, GetTypeOK
<1>5. ASSUME getter[g] \in {"stage", "receive", "drain", "commit", "reap"}
      PROVE  /\ server[g] \in {"send", "restat", "gone"} /\ outcome[g] = "none" /\ dest[g] = {}
             /\ Ahead(g) = 0
             /\ server' = server
  <2>1. server[g] \in {"send", "restat", "gone"}
    BY <1>0, <1>5 DEF GetOK, Unopened, GetTypeOK
  <2>2. server' = server
    BY <1>0, <1>5 DEF GetRequest
  <2>3. QED
    BY <1>5, <2>1, <2>2, GetValues DEF GetOK, Tidy, Ahead
<1>6. ASSUME getter[g] \in {"stage", "receive", "drain"}, LocalFailure(g)
      PROVE  GetOK(g)'
  <2>1. getter'[g] = "reap" /\ local' = local \ {g} /\ UNCHANGED <<declared, staged, dest, outcome, pipe>>
    BY <1>0, <1>6 DEF LocalFailure, Goto, GetTypeOK
  <2>2. Ahead(g)' = 0
    BY <2>1 DEF Ahead
  <2>3. Unopened(g)' /\ Tidy(g)'
    BY <1>5, <1>6, <2>1 DEF Unopened, Tidy
  <2>4. Framed(g)'
    BY <1>0, <1>5, <1>6, <2>1 DEF GetOK, Framed
  <2>5. Counted(g)'
    BY <1>0, <1>5, <1>6, <2>1, <2>2 DEF GetOK, Counted
  <2>6. Served(g)'
    BY <1>0, <1>1, <1>2, <1>5, <1>6, <2>1 DEF GetOK, Served
  <2>7. QED
    BY <2>3, <2>4, <2>5, <2>6 DEF GetOK
<1>7. CASE GetStage(g) /\ ~LocalFailure(g)
  <2>1. /\ getter[g] = "stage" /\ getter'[g] = "receive" /\ local' = local \cup {g}
        /\ UNCHANGED <<declared, staged, dest, outcome, pipe>>
    BY <1>0, <1>7 DEF GetStage, Goto, GetTypeOK
  <2>2. Ahead(g)' = 0
    BY <2>1 DEF Ahead
  <2>3. Unopened(g)' /\ Tidy(g)'
    BY <1>5, <2>1 DEF Unopened, Tidy
  <2>4. Framed(g)'
    BY <1>0, <1>5, <2>1 DEF GetOK, Framed
  <2>5. Counted(g)'
    BY <1>0, <1>5, <2>1, <2>2 DEF GetOK, Counted
  <2>6. Served(g)'
    BY <1>0, <1>1, <1>2, <1>5, <2>1 DEF GetOK, Served
  <2>7. QED
    BY <2>3, <2>4, <2>5, <2>6 DEF GetOK
<1>8. CASE GetReceive(g) /\ ~LocalFailure(g)
  <2>1. /\ getter[g] = "receive" /\ Len(staged[g]) < declared[g]
        /\ pipe[g] # <<>> /\ pipe'[g] = Tail(pipe[g])
        /\ staged'[g] = Append(staged[g], Head(pipe[g]).n)
        /\ UNCHANGED <<getter, declared, local, dest, outcome>>
    BY <1>0, <1>8 DEF GetReceive, Has, Take, GetTypeOK
  <2>2. pipe[g] \in Seq(Messages) /\ staged[g] \in Seq(Nat)
    BY GetValues
  <2>3. /\ Len(Tail(pipe[g])) = Len(pipe[g]) - 1
        /\ \A i \in 1 .. Len(Tail(pipe[g])) : Tail(pipe[g])[i] = pipe[g][i + 1]
    BY ONLY <2>1, <2>2, TakeMessage
  <2>4. Len(staged'[g]) = Len(staged[g]) + 1
    BY <2>1, <2>2
  <2>5. Ahead(g)' = 0
    BY <2>1 DEF Ahead
  <2>6. Unopened(g)' /\ Tidy(g)'
    BY <1>5, <2>1 DEF GetOK, Unopened, Tidy
  <2>7. Framed(g)'
    <3>1. \A i \in 1 .. Len(pipe'[g]) : pipe'[g][i].what = "unit"
      <4>1. \A i \in 1 .. Len(pipe[g]) : pipe[g][i].what = "unit"
        BY <2>1 DEF GetOK, Framed
      <4>2. Len(pipe[g]) \in Nat
        BY GetValues
      <4>3. QED
        BY <2>1, <2>3, <4>1, <4>2
    <3>2. declared[g] = length[g] /\ Len(staged'[g]) <= declared[g]
      BY <2>1, <2>4, GetValues DEF GetOK, Framed
    <3>3. QED
      BY <1>0, <2>1, <3>1, <3>2 DEF Framed
  <2>8. Counted(g)'
    <3>1. Len(staged[g]) \in Nat /\ Len(pipe[g]) \in Nat /\ pos[g] \in Nat /\ length[g] \in Nat
      BY GetValues
    <3>2. Counted(g)
      BY DEF GetOK
    <3>3. wireUp'[g] = wireUp[g] /\ pos'[g] = pos[g] /\ length'[g] = length[g]
          /\ server'[g] = server[g] /\ getter'[g] = getter[g] /\ Ahead(g) = 0
      BY <1>0, <1>5, <2>1
    <3>4. Len(pipe'[g]) = Len(pipe[g]) - 1
      BY <2>1, <2>3
    <3>6. Len(staged'[g]) + Len(pipe'[g]) - Ahead(g)' = Len(staged[g]) + Len(pipe[g]) - Ahead(g)
      <4> DEFINE oldS == Len(staged[g])
                 newS == Len(staged'[g])
                 oldP == Len(pipe[g])
                 newP == Len(pipe'[g])
                 oldA == Ahead(g)
                 newA == Ahead(g)'
      <4>1. oldS \in Nat /\ oldP \in Nat /\ newS = oldS + 1 /\ newP = oldP - 1 /\ oldA = 0 /\ newA = 0
        BY <2>4, <2>5, <3>1, <3>3, <3>4
      <4> HIDE DEF oldS, newS, oldP, newP, oldA, newA
      <4>2. newS + newP - newA = oldS + oldP - oldA
        BY ONLY <4>1
      <4>3. QED
        BY <4>2 DEF oldS, newS, oldP, newP, oldA, newA
    <3>7. QED
      BY ONLY <2>1, <3>2, <3>3, <3>6 DEF Counted
  <2>9. Served(g)'
    BY <1>0, <1>1, <1>2, <1>5, <2>1 DEF GetOK, Served
  <2>10. QED
    BY <2>6, <2>7, <2>8, <2>9 DEF GetOK
<1>9. CASE GetShort(g)
  <2>1. /\ getter[g] = "receive" /\ getter'[g] = "done" /\ outcome'[g] = "incomplete_transfer"
        /\ local' = local \ {g}
        /\ UNCHANGED <<declared, staged, dest, pipe>>
    BY <1>0, <1>9 DEF GetShort, Tell, Goto, GetTypeOK
  <2>2. Unopened(g)' /\ Tidy(g)'
    BY <1>5, <2>1 DEF Unopened, Tidy
  <2>3. Framed(g)' /\ Counted(g)'
    BY <1>0, <1>5, <2>1 DEF GetOK, Framed, Counted
  <2>4. Served(g)'
    BY <1>0, <1>1, <1>2, <1>5, <2>1 DEF GetOK, Served
  <2>5. QED
    BY <2>2, <2>3, <2>4 DEF GetOK
<1>10. CASE GetComplete(g) /\ ~LocalFailure(g)
  <2>1. /\ getter[g] = "receive" /\ Len(staged[g]) = declared[g] /\ getter'[g] = "drain"
        /\ UNCHANGED <<declared, staged, local, dest, outcome, pipe>>
    BY <1>0, <1>10 DEF GetComplete, Goto, GetTypeOK
  <2>2. Ahead(g)' = 0
    BY <2>1 DEF Ahead
  <2>3. Unopened(g)' /\ Tidy(g)'
    BY <1>5, <2>1 DEF Unopened, Tidy
  <2>4. Framed(g)'
    BY <1>0, <1>5, <2>1 DEF GetOK, Framed
  <2>5. Counted(g)'
    BY <1>0, <1>5, <2>1, <2>2 DEF GetOK, Counted
  <2>6. Served(g)'
    BY <1>0, <1>1, <1>2, <1>5, <2>1 DEF GetOK, Served
  <2>7. QED
    BY <2>3, <2>4, <2>5, <2>6 DEF GetOK
<1>11. CASE GetVerify(g)
  <2>0. /\ getter[g] = "drain" /\ pipe'[g] = <<>> /\ (pipe[g] = <<>> => ChildEnded(g))
        /\ UNCHANGED <<declared, staged, dest>>
    BY <1>0, <1>11 DEF GetVerify, GetTypeOK
  <2>1. pipe[g] = <<>>
    <3>1. /\ Len(staged[g]) + Len(pipe[g]) <= pos[g] /\ pos[g] <= length[g]
          /\ Len(staged[g]) = declared[g] /\ declared[g] = length[g]
      <4>1. Ahead(g) = 0 /\ Len(staged[g]) \in Nat /\ Len(pipe[g]) \in Nat
        BY <1>5, <2>0, GetValues
      <4>2. Counted(g)
        BY DEF GetOK
      <4>3. Len(staged[g]) = declared[g] /\ declared[g] = length[g]
        BY <2>0 DEF GetOK, Framed
      <4>4. QED
        BY <2>0, <4>1, <4>2, <4>3 DEF Counted
    <3>2. pipe[g] \in Seq(Messages) /\ Len(pipe[g]) = 0
      BY <3>1, GetValues
    <3>3. QED
      BY <3>2
  <2>2. CASE getter'[g] = "commit"
    <3>1. UNCHANGED <<local, outcome>>
      BY <1>0, <1>11, <2>2 DEF GetVerify, Goto, Tell, GetTypeOK
    <3>2. Ahead(g)' = 0
      BY <2>2 DEF Ahead
    <3>3. Unopened(g)' /\ Tidy(g)'
      BY <1>5, <2>0, <2>2, <3>1 DEF Unopened, Tidy
    <3>4. Framed(g)'
      BY <1>0, <1>5, <2>0, <2>1, <2>2 DEF GetOK, Framed
    <3>5. Counted(g)'
      BY <1>0, <1>5, <2>0, <2>1, <2>2, <3>2 DEF GetOK, Counted
    <3>6. Served(g)'
      BY <1>0, <1>1, <1>2, <1>5, <2>0, <2>2, <3>1 DEF GetOK, Served
    <3>7. QED
      BY <3>3, <3>4, <3>5, <3>6 DEF GetOK
  <2>3. CASE getter'[g] = "done"
    <3>1. outcome'[g] = "file_changed" /\ local' = local \ {g} /\ ~ChildSucceeded(g)
      BY <1>0, <1>11, <2>1, <2>3 DEF GetVerify, Goto, Tell, GetTypeOK
    <3>2. ~wireUp[g] \/ exit[g] = "killed" \/ Moved(g)
      <4>1. ~wireUp[g] \/ (server[g] = "gone" /\ exit[g] # "success")
        BY <2>0, <2>1, <3>1 DEF ChildEnded, ChildSucceeded
      <4>2. exit[g] \in {"none", "success", "failure", "killed"}
        BY <1>0 DEF GetTypeOK
      <4>3. QED
        BY <2>0, <4>1, <4>2 DEF GetOK, Served
    <3>3. Unopened(g)' /\ Tidy(g)'
      BY <1>5, <2>0, <2>3, <3>1 DEF Unopened, Tidy
    <3>4. Framed(g)' /\ Counted(g)'
      BY <1>0, <1>5, <2>0, <2>3 DEF GetOK, Framed, Counted
    <3>5. Served(g)'
      BY <1>0, <1>1, <1>2, <1>5, <2>0, <2>3, <3>2 DEF GetOK, Served
    <3>6. QED
      BY <3>3, <3>4, <3>5 DEF GetOK
  <2>4. QED
    BY <1>0, <1>11, <2>2, <2>3 DEF GetVerify, Goto, Tell, GetTypeOK
<1>12. CASE GetCommit(g)
  <2>1. /\ getter[g] = "commit" /\ getter'[g] = "done" /\ local' = local \ {g}
        /\ UNCHANGED <<declared, staged, pipe>>
        /\ \/ outcome'[g] = "got" /\ dest'[g] # {}
           \/ outcome'[g] = "local_error" /\ dest' = dest
    <3>1. CASE dest' = [dest EXCEPT ![g] = @ \cup {staged[g]}]
      <4>1. dest'[g] = dest[g] \cup {staged[g]}
        BY <1>0, <3>1 DEF GetTypeOK
      <4>2. QED
        BY <1>0, <1>12, <4>1 DEF GetCommit, Tell, Goto, GetTypeOK
    <3>2. CASE dest' # [dest EXCEPT ![g] = @ \cup {staged[g]}]
      BY <1>0, <1>12, <3>2 DEF GetCommit, Tell, Goto, GetTypeOK
    <3>3. QED
      BY <3>1, <3>2
  <2>2. Unopened(g)' /\ Tidy(g)'
    BY <1>5, <2>1 DEF Unopened, Tidy
  <2>3. Framed(g)' /\ Counted(g)'
    BY <1>0, <1>5, <2>1 DEF GetOK, Framed, Counted
  <2>4. Served(g)'
    BY <1>0, <1>1, <1>2, <1>5, <2>1 DEF GetOK, Served
  <2>5. QED
    BY <2>2, <2>3, <2>4 DEF GetOK
<1>13. CASE GetReap(g)
  <2>1. /\ getter[g] = "reap" /\ getter'[g] = "done" /\ outcome'[g] = "local_error"
        /\ UNCHANGED <<declared, staged, local, dest, pipe>>
    BY <1>0, <1>13 DEF GetReap, Tell, Goto, GetTypeOK
  <2>2. Unopened(g)' /\ Tidy(g)'
    BY <1>5, <2>1 DEF GetOK, Unopened, Tidy
  <2>3. Framed(g)' /\ Counted(g)'
    BY <1>0, <1>5, <2>1 DEF GetOK, Framed, Counted
  <2>4. Served(g)'
    BY <1>0, <1>1, <1>2, <1>5, <2>1 DEF GetOK, Served
  <2>5. QED
    BY <2>2, <2>3, <2>4 DEF GetOK
<1>14. QED
  BY <1>3, <1>4, <1>6, <1>7, <1>8, <1>9, <1>10, <1>11, <1>12, <1>13
     DEF RxGet, GetStage, GetReceive, GetComplete

\* A cut leaves a prefix of what is under way.
LEMMA GetCutPreserves ==
    ASSUME TypeOK, NEW g \in Getters, GetOK(g), GetCut(g)
    PROVE  GetOK(g)'
<1>0. GetTypeOK /\ UNCHANGED <<fileVars, getterVars, serverVars>> /\ ~wireUp'[g]
      /\ getter[g] \notin {"idle", "done"}
  BY DEF TypeOK, GetCut, GetTypeOK
<1>1. PICK n \in 0 .. Len(pipe[g]) : pipe'[g] = Keep(pipe[g], n)
  BY <1>0 DEF GetCut, GetTypeOK
<1>2. /\ Len(pipe'[g]) <= Len(pipe[g]) /\ Len(pipe'[g]) \in Nat
      /\ \A i \in 1 .. Len(pipe'[g]) : pipe'[g][i] = pipe[g][i]
      /\ pipe'[g] # <<>> => pipe[g] # <<>> /\ Len(pipe'[g]) >= 1
  <2> DEFINE old == pipe[g]
             new == pipe'[g]
  <2>1. old \in Seq(Messages) /\ n \in Nat /\ new = Keep(old, n)
    BY <1>1, GetValues
  <2> HIDE DEF old, new
  <2>2. /\ new \in Seq(Messages) /\ Len(new) <= Len(old)
        /\ \A i \in 1 .. Len(new) : new[i] = old[i]
    <3>1. Keep(old, n) \in Seq(Messages)
      BY <2>1, KeepPrefix
    <3>2. Len(Keep(old, n)) <= Len(old)
      BY <2>1, KeepPrefix
    <3>3. \A i \in 1 .. Len(Keep(old, n)) : Keep(old, n)[i] = old[i]
      BY <2>1, KeepPrefix
    <3>4. QED
      BY ONLY <2>1, <3>1, <3>2, <3>3
  <2>3. /\ Len(new) \in Nat /\ Len(old) \in Nat
        /\ new # <<>> => Len(new) >= 1
        /\ old = <<>> => Len(old) = 0
    BY ONLY <2>1, <2>2
  <2>4. new # <<>> => old # <<>>
    BY ONLY <2>2, <2>3
  <2>5. QED
    BY <2>2, <2>3, <2>4 DEF old, new
<1>3. Unopened(g)'
  <2>1. pipe[g] = <<>> => pipe'[g] = <<>>
    BY <1>2
  <2>2. QED
    BY <1>0, <2>1 DEF GetOK, Unopened
<1>4. Framed(g)'
  <2>1. Framed(g) /\ Len(pipe[g]) \in Nat
    BY GetValues DEF GetOK
  <2>2. \A i \in 1 .. Len(pipe'[g]) : pipe'[g][i].what = "unit" <=> ~(getter[g] = "header" /\ i = 1)
    <3>1. \A i \in 1 .. Len(pipe'[g]) : i \in 1 .. Len(pipe[g]) /\ pipe'[g][i] = pipe[g][i]
      BY <1>2, <2>1
    <3>2. QED
      BY <1>0, <2>1, <3>1 DEF Framed
  <2>3. ASSUME getter[g] = "header", pipe'[g] # <<>>
        PROVE  \/ pipe'[g][1] = Message("size", length[g])
               \/ pipe'[g][1].what = "error" /\ server[g] = "gone" /\ Len(pipe'[g]) = 1
    <3>1. pipe[g] # <<>> /\ Len(pipe'[g]) >= 1 /\ pipe'[g][1] = pipe[g][1]
      BY <1>2, <2>3
    <3>2. Len(pipe'[g]) \in Nat /\ Len(pipe'[g]) <= Len(pipe[g])
      BY <1>2
    <3> DEFINE old == Len(pipe[g])
               new == Len(pipe'[g])
    <3>3. old \in Nat /\ new \in Nat /\ new <= old /\ new >= 1
      BY <2>1, <3>1, <3>2
    <3> HIDE DEF old, new
    <3>5. old = 1 => new = 1
      BY ONLY <3>3
    <3>4. QED
      BY <2>1, <2>3, <3>1, <3>5 DEF Framed, old, new
  <2>4. QED
    BY <1>0, <2>1, <2>2, <2>3 DEF Framed
<1>5. Counted(g)'
  <2>1. Len(staged[g]) \in Nat /\ Len(pipe[g]) \in Nat /\ pos[g] \in Nat /\ length[g] \in Nat
    BY GetValues
  <2>2. Len(pipe'[g]) - Ahead(g)' <= Len(pipe[g]) - Ahead(g)
    <3>1. CASE getter[g] # "header"
      BY <1>0, <1>2, <2>1, <3>1 DEF Ahead
    <3>2. CASE getter[g] = "header" /\ pipe'[g] # <<>>
      <4>1. Ahead(g) = 1 /\ Ahead(g)' = 1
        BY <1>0, <1>2, <3>2 DEF Ahead
      <4>2. QED
        BY <1>2, <2>1, <4>1
    <3>3. CASE getter[g] = "header" /\ pipe'[g] = <<>> /\ pipe[g] # <<>>
      <4>1. Len(pipe[g]) >= 1 /\ Len(pipe'[g]) = 0
        <5>1. pipe[g] \in Seq(Messages)
          BY GetValues
        <5>2. QED
          BY <3>3, <5>1
      <4>2. QED
        BY <1>0, <2>1, <3>3, <4>1 DEF Ahead
    <3>4. CASE pipe'[g] = <<>> /\ pipe[g] = <<>>
      BY <1>0, <3>4 DEF Ahead
    <3>5. QED
      BY <3>1, <3>2, <3>3, <3>4
  <2>3. Ahead(g) \in {0, 1} /\ Ahead(g)' \in {0, 1}
    BY DEF Ahead
  <2>4. Counted(g)
    BY DEF GetOK
  <2>5. /\ staged'[g] = staged[g] /\ pos'[g] = pos[g] /\ length'[g] = length[g]
        /\ server'[g] = server[g] /\ getter'[g] = getter[g] /\ ~wireUp'[g]
        /\ Len(pipe'[g]) \in Nat
    BY <1>0, <1>2
  <2>6. Len(staged'[g]) + Len(pipe'[g]) - Ahead(g)' <= Len(staged[g]) + Len(pipe[g]) - Ahead(g)
    BY ONLY SMTT(40), <2>1, <2>2, <2>3, <2>5
  <2>7. getter[g] # "done" => Len(staged'[g]) + Len(pipe'[g]) - Ahead(g)' <= pos[g]
    BY ONLY SMTT(40), <2>1, <2>3, <2>4, <2>5, <2>6 DEF Counted
  <2>8. QED
    BY ONLY <2>4, <2>5, <2>7 DEF Counted
<1>6. Served(g)'
  BY <1>0 DEF GetOK, Served, Seen, Moved
<1>7. Tidy(g)'
  BY <1>0 DEF GetOK, Tidy
<1>8. QED
  BY <1>3, <1>4, <1>5, <1>6, <1>7 DEF GetOK

\* rxd is killed.
LEMMA ServerKilledPreserves ==
    ASSUME TypeOK, NEW g \in Getters, GetOK(g), ServerKilled(g)
    PROVE  GetOK(g)'
<1>0. /\ UNCHANGED <<fileVars, getterVars, opened, length, pos, pipe, wireUp>>
      /\ server[g] \notin {"idle", "gone"} /\ server'[g] = "gone" /\ exit'[g] = "killed"
  BY DEF TypeOK, ServerKilled, Exit, GetTypeOK
<1>1. Unopened(g)'
  BY <1>0 DEF Unopened
<1>2. Framed(g)'
  BY <1>0 DEF GetOK, Framed
<1>3. Counted(g)'
  BY <1>0 DEF GetOK, Counted, Ahead
<1>4. Served(g)'
  BY <1>0 DEF GetOK, Served, Moved
<1>5. Tidy(g)'
  BY <1>0 DEF GetOK, Tidy
<1>6. QED
  BY <1>1, <1>2, <1>3, <1>4, <1>5 DEF GetOK

\* A loss of power ends rxd, and the connection with it.
LEMMA GetPowerPreserves ==
    ASSUME TypeOK, NEW g \in Getters, GetOK(g), PowerLoss
    PROVE  GetOK(g)'
<1>0. /\ UNCHANGED <<getterVars, opened, length, pos, pipe>>
      /\ wireUp'[g] = (wireUp[g] /\ getter[g] \in {"idle", "done"})
      /\ server'[g] = IF getter[g] = "idle" THEN "idle" ELSE "gone"
      /\ exit'[g] = IF server[g] \in {"idle", "gone"} THEN exit[g] ELSE "killed"
      /\ contents \subseteq contents'
  BY PowerFiles DEF PowerLoss, GetLosePower
<1>1. Unopened(g)'
  BY <1>0 DEF GetOK, Unopened, Served
<1>2. Framed(g)'
  BY <1>0 DEF GetOK, Framed
<1>3. Counted(g)'
  BY <1>0 DEF GetOK, Counted, Ahead
<1>4. Moved(g) => Moved(g)'
  BY <1>0 DEF Moved
<1>5. Served(g)'
  BY <1>0, <1>4, GetValues DEF GetOK, Served
<1>6. Tidy(g)'
  BY <1>0 DEF GetOK, Tidy
<1>7. QED
  BY <1>1, <1>2, <1>3, <1>5, <1>6 DEF GetOK

-----------------------------------------------------------------------------
(* No mixture of two contents is installed *)

\* The parts of Untorn that a step changes one at a time.
Reads(g) == server[g] \in {"send", "restat"} /\ getter[g] # "done" =>
    /\ Agrees(g, data[opened[g]])
    /\ writer = "append" => pos[g] <= Len(data[opened[g]])

Vouched(g) == exit[g] = "success" =>
    \/ WholeRead(g)
    \/ getter[g] = "header" /\ \A i \in 1 .. Len(pipe[g]) : pipe[g][i].what = "error"
    \/ getter[g] \in {"commit", "done"}

Taken(g) ==
    /\ getter[g] = "commit" => <<opened[g], staged[g]>> \in contents
    /\ \A got \in dest[g] : <<opened[g], got>> \in contents

LEMMA UntornParts == \A g : Untorn(g) <=> Reads(g) /\ Vouched(g) /\ Taken(g)
  BY DEF Untorn, Reads, Vouched, Taken

LEMMA UntornPartsNext == \A g : Untorn(g)' <=> Reads(g)' /\ Vouched(g)' /\ Taken(g)'
  BY DEF Untorn, Reads, Vouched, Taken

\* What was read agrees as it did when every unit under way keeps its place.
LEMMA KeptAgrees ==
    ASSUME NEW g, staged'[g] = staged[g],
           \A i \in 1 .. Len(pipe'[g]) : \E j \in 1 .. Len(pipe[g]) :
              pipe'[g][i] = pipe[g][j] /\ Place(g, i)' = Place(g, j)
    PROVE  \A s : Agrees(g, s) => Agrees(g, s)'
<1> SUFFICES ASSUME NEW s, Agrees(g, s) PROVE Agrees(g, s)'
  OBVIOUS
<1>1. ASSUME NEW i \in 1 .. Len(pipe'[g]), pipe'[g][i].what = "unit", Place(g, i)' <= Len(s)
      PROVE  pipe'[g][i].n = s[Place(g, i)']
  <2>1. PICK j \in 1 .. Len(pipe[g]) : pipe'[g][i] = pipe[g][j] /\ Place(g, i)' = Place(g, j)
    OBVIOUS
  <2>2. QED
    BY <1>1, <2>1 DEF Agrees
<1>2. QED
  BY <1>1 DEF Agrees

\* So it is when nothing is read or sent.
LEMMA SameAgrees ==
    ASSUME NEW g, staged'[g] = staged[g], pipe'[g] = pipe[g], Ahead(g)' = Ahead(g)
    PROVE  \A s : Agrees(g, s) => Agrees(g, s)'
  BY DEF Agrees, Place

LEMMA SameWhole ==
    ASSUME NEW g, opened'[g] = opened[g], length'[g] = length[g], contents \subseteq contents',
           \A s : Agrees(g, s) => Agrees(g, s)'
    PROVE  WholeRead(g) => WholeRead(g)'
  BY DEF WholeRead

\* The steps of rxd.
LEMMA ServerUntorn ==
    ASSUME TypeOK, NEW g \in Getters, GetOK(g), Untorn(g), ServerGet(g)
    PROVE  Untorn(g)'
<1>0. /\ GetTypeOK /\ UNCHANGED <<fileVars, getterVars, wireUp, writerVars>>
      /\ Reads(g) /\ Vouched(g) /\ Taken(g)
  BY UntornParts
     DEF TypeOK, ServerGet, ServerOpen, ServerSend, ServerSent, ServerRestat, ServerBroken
<1>1. server[g] # "gone" /\ exit[g] = "none"
  BY <1>0 DEF ServerGet, ServerOpen, ServerSend, ServerSent, ServerRestat, ServerBroken, GetOK, Served
<1>2. CASE ServerOpen(g)
  <2>1. /\ server[g] = "open" /\ pos[g] = 0 /\ staged[g] = <<>> /\ pipe[g] = <<>>
        /\ getter[g] \in {"header", "done"} /\ dest[g] = {}
    BY <1>2 DEF ServerOpen, GetOK, Unopened, Served
  <2>2. Taken(g)'
    BY <1>0, <2>1 DEF Taken
  <2>3. CASE server'[g] = "send"
    <3>1. pipe'[g] = <<Message("size", Len(data[Target]))>> /\ pos'[g] = 0 /\ exit'[g] = "none"
          /\ opened'[g] = Target
      BY <1>0, <1>1, <1>2, <2>1, <2>3 DEF ServerOpen, GetTypeOK, Put, Exit
    <3>2. Reads(g)'
      BY <1>0, <2>1, <3>1, GetValues DEF Reads, Agrees, Message
    <3>3. QED
      BY <2>2, <3>1, <3>2, UntornPartsNext DEF Vouched
  <2>4. CASE server'[g] # "send"
    <3>1. pipe'[g] = <<Message("error", 0)>> /\ server'[g] = "gone"
      BY <1>0, <1>2, <2>1, <2>4 DEF ServerOpen, GetTypeOK, Put, Exit
    <3>2. Reads(g)' /\ Vouched(g)'
      BY <1>0, <2>1, <3>1 DEF Reads, Vouched, Message
    <3>3. QED
      BY <2>2, <3>2, UntornPartsNext
  <2>5. QED
    BY <2>3, <2>4
<1>3. CASE ServerSend(g)
  <2> DEFINE s == data[opened[g]]
             unit == Message("unit", s[pos[g] + 1])
  <2>1. /\ server[g] = "send" /\ wireUp[g] /\ pos[g] < Len(s)
        /\ pipe'[g] = Append(pipe[g], unit) /\ pos'[g] = pos[g] + 1
        /\ UNCHANGED <<server, exit, opened, length>>
    BY <1>0, <1>3 DEF ServerSend, More, GetTypeOK, Put
  <2>2. Reads(g)'
    <3> SUFFICES ASSUME getter[g] # "done"
                 PROVE  Agrees(g, s)' /\ (writer = "append" => pos'[g] <= Len(s))
      BY <1>0, <2>1 DEF Reads
    <3>1. Agrees(g, s)
      BY <1>0, <2>1 DEF Reads
    <3>2. /\ Len(pipe'[g]) = Len(pipe[g]) + 1 /\ pipe'[g] # <<>>
          /\ \A i \in 1 .. Len(pipe[g]) : pipe'[g][i] = pipe[g][i]
          /\ pipe'[g][Len(pipe[g]) + 1] = unit
          /\ pipe[g] = <<>> <=> Len(pipe[g]) = 0
      <4> HIDE DEF unit
      <4>1. pipe[g] \in Seq(Messages)
        BY GetValues
      <4> DEFINE longer == Append(pipe[g], unit)
      <4>2. /\ Len(longer) = Len(pipe[g]) + 1 /\ longer # <<>>
            /\ \A i \in 1 .. Len(pipe[g]) : longer[i] = pipe[g][i]
            /\ longer[Len(pipe[g]) + 1] = unit
            /\ pipe[g] = <<>> <=> Len(pipe[g]) = 0
        BY ONLY <4>1, AppendMessage
      <4>3. pipe'[g] = longer
        BY <2>1
      <4>4. QED
        BY ONLY <4>2, <4>3
    <3>3. Ahead(g)' = Ahead(g)
      BY <1>0, <2>1, <3>2 DEF Ahead, GetOK, Framed
    <3>4. Place(g, Len(pipe[g]) + 1) = pos[g] + 1
      <4>1. /\ Len(staged[g]) + Len(pipe[g]) - Ahead(g) = pos[g] /\ Ahead(g) \in {0, 1}
            /\ Len(staged[g]) \in Nat /\ Len(pipe[g]) \in Nat /\ pos[g] \in Nat
        BY <2>1, GetValues DEF GetOK, Counted, Ahead
      <4> DEFINE staging == Len(staged[g])
                 piped == Len(pipe[g])
                 ahead == Ahead(g)
                 done == pos[g]
      <4>2. /\ staging \in Nat /\ piped \in Nat /\ done \in Nat /\ ahead \in {0, 1}
            /\ staging + piped - ahead = done
        BY <4>1
      <4> HIDE DEF staging, piped, ahead, done
      <4>3. staging + (piped + 1) - ahead = done + 1
        BY ONLY <4>2
      <4>4. QED
        BY <4>3 DEF Place, staging, piped, ahead, done
    <3>5. \A i : Place(g, i)' = Place(g, i)
      BY <1>0, <3>3 DEF Place
    <3>6. ASSUME NEW i \in 1 .. Len(pipe'[g]), pipe'[g][i].what = "unit", Place(g, i)' <= Len(s)
          PROVE  pipe'[g][i].n = s[Place(g, i)']
      <4>1. Len(pipe[g]) \in Nat
        BY GetValues
      <4>2. i \in 1 .. Len(pipe[g]) \/ i = Len(pipe[g]) + 1
        BY <3>2, <4>1
      <4>3. CASE i \in 1 .. Len(pipe[g])
        BY <3>1, <3>2, <3>5, <3>6, <4>3 DEF Agrees
      <4>4. CASE i = Len(pipe[g]) + 1
        BY <3>2, <3>4, <3>5, <4>4 DEF Message
      <4>5. QED
        BY <4>2, <4>3, <4>4
    <3>7. Agrees(g, s)'
      BY <1>0, <2>1, <3>1, <3>6 DEF Agrees
    <3>8. pos'[g] <= Len(s)
      BY <2>1, GetValues
    <3>9. QED
      BY <3>7, <3>8
  <2>3. Vouched(g)' /\ Taken(g)'
    BY <1>0, <1>1, <2>1 DEF Vouched, Taken
  <2>4. QED
    BY <2>2, <2>3, UntornPartsNext
<1>4. ASSUME ServerSent(g) \/ ServerRestat(g) \/ ServerBroken(g)
      PROVE  Untorn(g)'
  <2>1. /\ UNCHANGED <<opened, length, pos, pipe>> /\ Ahead(g)' = Ahead(g)
        /\ server'[g] \in {"send", "restat"} => server[g] \in {"send", "restat"}
    BY <1>0, <1>4 DEF ServerSent, ServerRestat, ServerBroken, Ahead, Exit, GetTypeOK
  <2>2. \A s : Agrees(g, s) => Agrees(g, s)'
    BY <1>0, <2>1, SameAgrees
  <2>3. Reads(g)' /\ Taken(g)'
    BY <1>0, <2>1, <2>2 DEF Reads, Taken
  <2>4. Vouched(g)'
    <3> SUFFICES ASSUME exit'[g] = "success", getter[g] \notin {"commit", "done"}
                 PROVE  WholeRead(g)'
      BY <1>0 DEF Vouched
    <3> DEFINE s == data[opened[g]]
    <3>1. server[g] = "restat" /\ Len(s) = length[g]
      BY <1>0, <1>1, <1>4 DEF ServerSent, ServerRestat, ServerBroken, Exit, GetTypeOK
    <3>2. <<opened[g], s>> \in contents /\ Agrees(g, s)
      BY <1>0, <3>1 DEF GetOK, Served, Seen, Reads
    <3>3. WholeRead(g)
      BY <3>1, <3>2, GetValues DEF WholeRead
    <3>4. QED
      BY <1>0, <2>1, <2>2, <3>3, SameWhole
  <2>5. QED
    BY <2>3, <2>4, UntornPartsNext
<1>5. QED
  BY <1>2, <1>3, <1>4 DEF ServerGet

\* A step of rx after which every unit it has or will take keeps its place.
LEMMA RxKeeps ==
    ASSUME NEW g \in Getters, GetOK(g), Untorn(g),
           UNCHANGED <<fileVars, opened, length, pos, exit, dest, writer>>,
           server'[g] = server[g],
           getter[g] # "done", getter'[g] \notin {"commit", "done"},
           getter[g] = "header" /\ pipe[g] # <<>> => pipe[g][1].what # "error",
           getter[g] = "header" => pipe[g] # <<>>,
           getter[g] # "commit",
           \A s : Agrees(g, s) => Agrees(g, s)'
    PROVE  Untorn(g)'
<1>1. Reads(g) /\ Vouched(g) /\ Taken(g)
  BY UntornParts
<1>2. Reads(g)' /\ Taken(g)'
  BY <1>1 DEF Reads, Taken
<1>3. Vouched(g)'
  <2> SUFFICES ASSUME exit[g] = "success" PROVE WholeRead(g)'
    BY DEF Vouched
  <2>1. ~(getter[g] = "header" /\ \A i \in 1 .. Len(pipe[g]) : pipe[g][i].what = "error")
    BY GetValues DEF GetOK, Framed
  <2>2. QED
    BY <1>1, <2>1, SameWhole DEF Vouched
<1>4. QED
  BY <1>2, <1>3, UntornPartsNext

\* A unit that rx stages keeps its place.
LEMMA StagedAgrees ==
    ASSUME TypeOK, NEW g \in Getters, pipe[g] # <<>>, pipe[g][1].what = "unit",
           Ahead(g) = 0, Ahead(g)' = 0,
           pipe'[g] = Tail(pipe[g]), staged'[g] = Append(staged[g], pipe[g][1].n)
    PROVE  \A s : Agrees(g, s) => Agrees(g, s)'
<1> SUFFICES ASSUME NEW s, Agrees(g, s) PROVE Agrees(g, s)'
  OBVIOUS
<1> DEFINE read  == staged[g]
           under == pipe[g]
           unit  == under[1].n
           n     == Len(read)
           m     == Len(under)
<1>1. read \in Seq(Nat) /\ under \in Seq(Messages) /\ under # <<>> /\ n \in Nat /\ m \in Nat
  BY GetValues
<1>2. /\ \A k \in 1 .. n : k <= Len(s) => read[k] = s[k]
      /\ \A i \in 1 .. m : under[i].what = "unit" /\ n + i <= Len(s) => under[i].n = s[n + i]
  <2>1. \A i \in 1 .. m : Place(g, i) = n + i
    BY <1>1 DEF Place
  <2>2. QED
    BY <2>1 DEF Agrees
<1> HIDE DEF unit
<1>3. /\ Len(Append(read, unit)) = n + 1
      /\ \A k \in 1 .. n : Append(read, unit)[k] = read[k]
      /\ Append(read, unit)[n + 1] = unit
  <2> HIDE DEF read
  <2>1. QED
    BY ONLY <1>1, AppendMessage DEF n
<1>4. /\ Len(Tail(under)) = m - 1 /\ m >= 1
      /\ \A i \in 1 .. Len(Tail(under)) : Tail(under)[i] = under[i + 1]
  <2> HIDE DEF under
  <2>1. QED
    BY ONLY <1>1, TakeMessage DEF m
<1>5. \A i : i \in Nat => Place(g, i)' = n + (i + 1)
  <2>1. Len(staged'[g]) = n + 1
    BY <1>3 DEF unit
  <2>2. \A i : Place(g, i)' = n + 1 + i - 0
    BY <2>1 DEF Place
  <2> HIDE DEF n
  <2>3. \A i : i \in Nat => n + 1 + i - 0 = n + (i + 1)
    BY ONLY <1>1
  <2>4. QED
    BY <2>2, <2>3
<1>6. ASSUME NEW k \in 1 .. Len(staged'[g]), k <= Len(s)
      PROVE  staged'[g][k] = s[k]
  <2>1. staged'[g] = Append(read, unit)
    BY DEF unit
  <2>2. k \in 1 .. n + 1
    BY <1>3, <2>1
  <2>3. CASE k \in 1 .. n
    BY <1>2, <1>3, <1>6, <2>1, <2>3
  <2>4. CASE k = n + 1
    <3>1. unit = s[n + 1]
      <4>1. 1 \in 1 .. m /\ under[1].what = "unit" /\ n + 1 <= Len(s)
        BY <1>1, <1>4, <1>6, <2>4
      <4>2. QED
        BY <1>2, <4>1 DEF unit
    <3>2. QED
      BY <1>3, <2>1, <2>4, <3>1
  <2>5. QED
    BY <1>1, <2>2, <2>3, <2>4
<1>7. ASSUME NEW i \in 1 .. Len(pipe'[g]), pipe'[g][i].what = "unit", Place(g, i)' <= Len(s)
      PROVE  pipe'[g][i].n = s[Place(g, i)']
  <2>1. pipe'[g][i] = under[i + 1] /\ i + 1 \in 1 .. m /\ i \in Nat
    BY <1>1, <1>4
  <2>2. Place(g, i)' = n + (i + 1)
    BY <1>1, <1>5, <2>1
  <2>3. QED
    BY <1>2, <1>7, <2>1, <2>2
<1>8. QED
  BY <1>6, <1>7 DEF Agrees

\* The steps of rx.
LEMMA RxUntorn ==
    ASSUME TypeOK, NEW g \in Getters, GetOK(g), Untorn(g), RxGet(g)
    PROVE  Untorn(g)'
<1>0. /\ GetTypeOK
      /\ UNCHANGED <<fileVars, opened, length, pos, exit, wireUp, writer>>
      /\ ~GetRequest(g) => UNCHANGED server
      /\ ~GetCommit(g) => UNCHANGED dest
      /\ Reads(g) /\ Vouched(g) /\ Taken(g)
  BY UntornParts
     DEF TypeOK, RxGet, GetRequest, GetHeader, GetStage, GetReceive, GetShort, GetComplete,
         GetVerify, GetCommit, GetReap, LocalFailure
<1>1. CASE GetRequest(g)
  <2>1. getter[g] = "idle" /\ getter'[g] = "header" /\ server'[g] = "open" /\ exit[g] = "none"
    BY <1>0, <1>1 DEF GetRequest, GetTypeOK, Goto, GetOK, Served
  <2>2. Reads(g)' /\ Vouched(g)' /\ Taken(g)'
    BY <1>0, <1>1, <2>1 DEF GetRequest, Reads, Vouched, Taken
  <2>3. QED
    BY <2>2, UntornPartsNext
<1>2. ASSUME getter'[g] = "done", ~GetCommit(g), ~GetRequest(g)
      PROVE  Untorn(g)'
  <2>1. Reads(g)' /\ Vouched(g)' /\ Taken(g)'
    BY <1>0, <1>2 DEF Reads, Vouched, Taken
  <2>2. QED
    BY <2>1, UntornPartsNext
<1>3. ASSUME getter[g] \in {"stage", "receive", "drain"}, getter'[g] \in {"receive", "drain", "reap"},
             UNCHANGED <<staged, pipe>>
      PROVE  Untorn(g)'
  <2>1. Ahead(g) = 0 /\ Ahead(g)' = 0
    BY <1>3 DEF Ahead
  <2>2. \A s : Agrees(g, s) => Agrees(g, s)'
    BY <1>3, <2>1, SameAgrees
  <2>3. ~GetRequest(g) /\ ~GetCommit(g)
    BY <1>3 DEF GetRequest, GetCommit
  <2>4. QED
    BY <1>0, <1>3, <2>2, <2>3, RxKeeps
<1>4. CASE GetHeader(g)
  <2>1. CASE getter'[g] = "stage"
    <3>1. /\ getter[g] = "header" /\ pipe[g] # <<>> /\ Head(pipe[g]).what = "size"
          /\ pipe'[g] = Tail(pipe[g]) /\ UNCHANGED staged
      BY <1>0, <1>4, <2>1 DEF GetHeader, Has, Take, Goto, Tell, GetTypeOK
    <3>2. /\ Len(Tail(pipe[g])) = Len(pipe[g]) - 1
          /\ Head(pipe[g]) = pipe[g][1]
          /\ \A i \in 1 .. Len(Tail(pipe[g])) : Tail(pipe[g])[i] = pipe[g][i + 1]
      <4>1. pipe[g] \in Seq(Messages)
        BY GetValues
      <4>2. QED
        BY ONLY <3>1, <4>1, TakeMessage
    <3>3. Ahead(g) = 1 /\ Ahead(g)' = 0
      BY <2>1, <3>1 DEF Ahead
    <3>4. Len(staged[g]) \in Nat /\ Len(pipe[g]) \in Nat
      BY GetValues
    <3>5. ASSUME NEW i \in 1 .. Len(pipe'[g])
          PROVE  /\ i + 1 \in 1 .. Len(pipe[g])
                 /\ pipe'[g][i] = pipe[g][i + 1] /\ Place(g, i)' = Place(g, i + 1)
      <4>1. i \in Nat /\ i + 1 \in 1 .. Len(pipe[g]) /\ pipe'[g][i] = pipe[g][i + 1]
        BY <3>1, <3>2, <3>4
      <4> DEFINE n == Len(staged[g])
      <4>2. n \in Nat /\ Place(g, i)' = n + i - 0 /\ Place(g, i + 1) = n + (i + 1) - 1
        BY <3>1, <3>3, <3>4 DEF Place
      <4> HIDE DEF n
      <4>3. n + i - 0 = n + (i + 1) - 1
        BY ONLY <4>1, <4>2
      <4>4. QED
        BY <4>1, <4>2, <4>3
    <3>6. \A s : Agrees(g, s) => Agrees(g, s)'
      BY <3>1, <3>5, KeptAgrees
    <3>7. ~GetRequest(g) /\ ~GetCommit(g)
      BY <3>1 DEF GetRequest, GetCommit
    <3>8. QED
      BY <1>0, <2>1, <3>1, <3>2, <3>6, <3>7, RxKeeps
  <2>2. CASE getter'[g] = "done"
    BY <1>2, <1>4, <2>2 DEF GetHeader, GetCommit, GetRequest
  <2>3. QED
    BY <1>0, <1>4, <2>1, <2>2 DEF GetHeader, Goto, Tell, GetTypeOK
<1>5. CASE GetReceive(g) /\ ~LocalFailure(g)
  <2>1. /\ getter[g] = "receive" /\ UNCHANGED getter
        /\ pipe[g] # <<>> /\ pipe'[g] = Tail(pipe[g])
        /\ Head(pipe[g]).what = "unit"
        /\ staged'[g] = Append(staged[g], Head(pipe[g]).n)
    BY <1>0, <1>5 DEF GetReceive, Has, Take, GetTypeOK
  <2>2. Head(pipe[g]) = pipe[g][1]
    BY <2>1, GetValues
  <2>3. Ahead(g) = 0 /\ Ahead(g)' = 0
    BY <2>1 DEF Ahead
  <2>4. \A s : Agrees(g, s) => Agrees(g, s)'
    BY <2>1, <2>2, <2>3, StagedAgrees
  <2>5. ~GetRequest(g) /\ ~GetCommit(g)
    BY <2>1 DEF GetRequest, GetCommit
  <2>6. QED
    BY <1>0, <2>1, <2>4, <2>5, RxKeeps
<1>6. ASSUME GetStage(g) \/ GetComplete(g) \/ (GetReceive(g) /\ LocalFailure(g))
      PROVE  Untorn(g)'
  <2>1. /\ getter[g] \in {"stage", "receive"} /\ getter'[g] \in {"receive", "drain", "reap"}
        /\ UNCHANGED <<staged, pipe>>
    BY <1>0, <1>6 DEF GetStage, GetComplete, GetReceive, LocalFailure, Goto, GetTypeOK
  <2>2. QED
    BY <1>3, <2>1
<1>7. CASE GetShort(g) \/ GetReap(g)
  BY <1>0, <1>2, <1>7 DEF GetShort, GetReap, GetCommit, GetRequest, Goto, Tell, GetTypeOK
<1>8. CASE GetVerify(g)
  <2>1. getter[g] = "drain" /\ UNCHANGED staged /\ ~GetCommit(g) /\ ~GetRequest(g)
    BY <1>8 DEF GetVerify, GetCommit, GetRequest
  <2>2. CASE getter'[g] = "commit"
    <3>1. pipe[g] = <<>> /\ exit[g] = "success"
      BY <1>0, <1>8, <2>2 DEF GetVerify, ChildSucceeded, Goto, Tell, GetTypeOK
    <3>2. PICK c \in contents : /\ c = <<opened[g], c[2]>> /\ c[2] \in Seq(Nat)
                                /\ Len(c[2]) = length[g] /\ Agrees(g, c[2])
      BY <1>0, <2>1, <3>1 DEF Vouched, WholeRead
    <3>3. staged[g] \in Seq(Nat) /\ Len(staged[g]) = Len(c[2])
      BY <2>1, <3>2, GetValues DEF GetOK, Framed
    <3>4. \A k \in 1 .. Len(staged[g]) : staged[g][k] = c[2][k]
      <4>1. \A k \in 1 .. Len(staged[g]) : k <= Len(c[2])
        BY <3>3, GetValues
      <4>2. QED
        BY <3>2, <4>1 DEF Agrees
    <3>5. staged[g] = c[2]
      <4> DEFINE read  == staged[g]
                 whole == c[2]
      <4>1. read \in Seq(Nat) /\ whole \in Seq(Nat) /\ Len(read) = Len(whole)
            /\ \A k \in 1 .. Len(read) : read[k] = whole[k]
        BY <3>2, <3>3, <3>4
      <4> HIDE DEF read, whole
      <4>2. read = whole
        BY ONLY <4>1, SeqEqual
      <4>3. QED
        BY <4>2 DEF read, whole
    <3>6. server[g] = "gone"
      BY <3>1 DEF GetOK, Served
    <3>7. Reads(g)' /\ Vouched(g)' /\ Taken(g)'
      BY <1>0, <2>1, <2>2, <3>2, <3>5, <3>6 DEF Reads, Vouched, Taken
    <3>8. QED
      BY <3>7, UntornPartsNext
  <2>3. CASE getter'[g] = "done"
    BY <1>2, <2>1, <2>3
  <2>4. QED
    BY <1>0, <1>8, <2>2, <2>3 DEF GetVerify, Goto, Tell, GetTypeOK
<1>9. CASE GetCommit(g)
  <2>1. /\ getter[g] = "commit" /\ getter'[g] = "done" /\ UNCHANGED <<staged, server>>
        /\ dest'[g] = dest[g] \/ dest'[g] = dest[g] \cup {staged[g]}
    BY <1>0, <1>9 DEF GetCommit, Goto, Tell, GetTypeOK
  <2>2. Reads(g)' /\ Vouched(g)' /\ Taken(g)'
    BY <1>0, <2>1 DEF Reads, Vouched, Taken
  <2>3. QED
    BY <2>2, UntornPartsNext
<1>10. QED
  BY <1>1, <1>4, <1>5, <1>6, <1>7, <1>8, <1>9 DEF RxGet

\* A cut leaves the units that arrive in their places.
LEMMA CutUntorn ==
    ASSUME TypeOK, NEW g \in Getters, GetOK(g), Untorn(g), GetCut(g)
    PROVE  Untorn(g)'
<1>0. /\ UNCHANGED <<fileVars, getterVars, serverVars, writerVars>>
      /\ Reads(g) /\ Vouched(g) /\ Taken(g)
  BY UntornParts DEF GetCut
<1>1. PICK n \in 0 .. Len(pipe[g]) : pipe'[g] = Keep(pipe[g], n)
  BY DEF TypeOK, GetCut, GetTypeOK
<1>2. \A i \in 1 .. Len(pipe'[g]) :
         i \in 1 .. Len(pipe[g]) /\ pipe'[g][i] = pipe[g][i] /\ pipe'[g] # <<>> /\ pipe[g] # <<>>
  <2> DEFINE old == pipe[g]
             new == pipe'[g]
  <2>1. old \in Seq(Messages) /\ n \in Nat /\ new = Keep(old, n)
    BY <1>1, GetValues
  <2> HIDE DEF old, new
  <2>2. /\ new \in Seq(Messages) /\ Len(new) <= Len(old)
        /\ \A i \in 1 .. Len(new) : new[i] = old[i]
    <3>1. Keep(old, n) \in Seq(Messages)
      BY <2>1, KeepPrefix
    <3>2. Len(Keep(old, n)) <= Len(old)
      BY <2>1, KeepPrefix
    <3>3. \A i \in 1 .. Len(Keep(old, n)) : Keep(old, n)[i] = old[i]
      BY <2>1, KeepPrefix
    <3>4. QED
      BY ONLY <2>1, <3>1, <3>2, <3>3
  <2>3. \A i \in 1 .. Len(new) : i \in 1 .. Len(old) /\ new # <<>> /\ old # <<>>
    BY ONLY <2>1, <2>2
  <2>4. QED
    BY <2>2, <2>3 DEF old, new
<1>3. \A s : Agrees(g, s) => Agrees(g, s)'
  <2>1. ASSUME NEW i \in 1 .. Len(pipe'[g])
        PROVE  /\ i \in 1 .. Len(pipe[g])
               /\ pipe'[g][i] = pipe[g][i] /\ Place(g, i)' = Place(g, i)
    <3>1. Ahead(g)' = Ahead(g)
      BY <1>0, <1>2 DEF Ahead
    <3>2. QED
      BY <1>0, <1>2, <3>1 DEF Place
  <2>2. QED
    BY <1>0, <2>1, KeptAgrees
<1>4. Reads(g)' /\ Taken(g)'
  BY <1>0, <1>3 DEF Reads, Taken
<1>5. Vouched(g)'
  BY <1>0, <1>2, <1>3, SameWhole DEF Vouched
<1>6. QED
  BY <1>4, <1>5, UntornPartsNext

\* rxd is killed.
LEMMA KilledUntorn ==
    ASSUME TypeOK, NEW g \in Getters, GetOK(g), Untorn(g), ServerKilled(g)
    PROVE  Untorn(g)'
<1>0. /\ UNCHANGED <<fileVars, getterVars, opened, length, pos, pipe, wireUp>>
      /\ server'[g] = "gone" /\ exit'[g] = "killed"
      /\ Taken(g)
  BY UntornParts DEF TypeOK, ServerKilled, Exit, GetTypeOK
<1>1. QED
  BY <1>0, UntornPartsNext DEF Reads, Vouched, Taken

\* A loss of power ends rxd: what it had answered stands.
LEMMA PowerUntorn ==
    ASSUME TypeOK, NEW g \in Getters, GetOK(g), Untorn(g), PowerLoss
    PROVE  Untorn(g)'
<1>0. /\ UNCHANGED <<getterVars, opened, length, pos, pipe>>
      /\ server'[g] \in {"idle", "gone"}
      /\ exit'[g] = "success" => exit[g] = "success"
      /\ contents \subseteq contents'
      /\ Reads(g) /\ Vouched(g) /\ Taken(g)
  BY PowerFiles, UntornParts DEF PowerLoss, GetLosePower
<1>1. Ahead(g)' = Ahead(g)
  BY <1>0 DEF Ahead
<1>2. \A s : Agrees(g, s) => Agrees(g, s)'
  BY <1>0, <1>1, SameAgrees
<1>3. Reads(g)' /\ Taken(g)'
  BY <1>0 DEF Reads, Taken
<1>4. Vouched(g)'
  BY <1>0, <1>2, SameWhole DEF Vouched
<1>5. QED
  BY <1>3, <1>4, UntornPartsNext

\* A program that appends to the file, or truncates it, leaves every unit
\* that rxd has read where it was, as far as the file still goes.
LEMMA EditUntorn ==
    ASSUME TypeOK, Seen(Target), Edit, writer # "overwrite",
           NEW g \in Getters, GetOK(g), Untorn(g)
    PROVE  Untorn(g)'
<1>0. /\ UNCHANGED <<getterVars, serverVars, pipe, wireUp, writer>>
      /\ Reads(g) /\ Vouched(g) /\ Taken(g)
      /\ writer \in {"append", "truncate"}
  BY UntornParts, DownloadAssumption DEF Edit, TypeOK, GetTypeOK
<1>1. contents \subseteq contents'
  BY EditFiles
<1>2. Ahead(g)' = Ahead(g)
  BY <1>0 DEF Ahead
<1>3. \A s : Agrees(g, s) => Agrees(g, s)'
  BY <1>0, <1>2, SameAgrees
<1>4. Vouched(g)' /\ Taken(g)'
  BY <1>0, <1>1, <1>3, SameWhole DEF Vouched, Taken
<1>5. Reads(g)'
  <2> SUFFICES ASSUME server[g] \in {"send", "restat"}, getter[g] # "done"
               PROVE  /\ Agrees(g, data'[opened[g]])
                      /\ writer = "append" => pos[g] <= Len(data'[opened[g]])
    BY <1>0, <1>3 DEF Reads
  <2> DEFINE old == data[opened[g]]
             new == data'[opened[g]]
  <2>1. Agrees(g, old) /\ (writer = "append" => pos[g] <= Len(old))
    BY <1>0 DEF Reads
  <2>2. CASE opened[g] # Original
    BY <2>1, <2>2, EditFiles, GetValues
  <2>3. CASE opened[g] = Original
    <3>1. /\ Len(old) \in Nat /\ Len(new) \in Nat
          /\ writer = "append" => Len(new) = Len(old) + 1 /\ \A k \in 1 .. Len(old) : new[k] = old[k]
          /\ writer = "truncate" => Len(new) = Len(old) - 1 /\ \A k \in 1 .. Len(new) : new[k] = old[k]
      BY <1>0, <2>3, EditFiles, GetValues
    <3>2. ASSUME NEW k \in Nat, k >= 1, k <= pos[g], k <= Len(new)
          PROVE  k <= Len(old) /\ new[k] = old[k]
      <4>1. CASE writer = "append"
        BY <2>1, <3>1, <3>2, <4>1, GetValues
      <4>2. CASE writer = "truncate"
        BY <3>1, <3>2, <4>2
      <4>3. QED
        BY <1>0, <4>1, <4>2
    <3> DEFINE staging == Len(staged[g])
               piped   == Len(pipe[g])
               ahead   == Ahead(g)
               done    == pos[g]
    <3>3. /\ staging \in Nat /\ piped \in Nat /\ done \in Nat /\ ahead \in {0, 1}
          /\ staging + piped - ahead <= done /\ piped >= ahead
      <4>1. Ahead(g) = 1 => pipe[g] # <<>> /\ pipe[g] \in Seq(Messages)
        BY GetValues DEF Ahead
      <4>2. Ahead(g) = 1 => Len(pipe[g]) >= 1
        BY <4>1
      <4>3. QED
        <5>1. staging \in Nat /\ piped \in Nat /\ done \in Nat /\ ahead \in {0, 1}
          BY GetValues DEF Ahead
        <5>2. staging + piped - ahead <= done
          BY DEF GetOK, Counted
        <5>3. piped >= ahead
          <6> HIDE DEF ahead, piped
          <6>1. ahead = 1 => piped >= 1
            BY <4>2 DEF ahead, piped
          <6>2. QED
            BY <5>1, <6>1
        <5>4. QED
          BY <5>1, <5>2, <5>3
    <3>4. \A i \in 1 .. piped : pipe[g][i].what = "unit" => i > ahead
      <4>1. \A i \in 1 .. Len(pipe[g]) : pipe[g][i].what = "unit" => Ahead(g) = 0 \/ i # 1
        BY DEF GetOK, Framed, Ahead
      <4>2. QED
        BY <3>3, <4>1
    <3>5. \A i : Place(g, i) = staging + i - ahead
      BY DEF Place
    <3> HIDE DEF staging, piped, ahead, done
    <3>6. \A k \in 1 .. staging : k \in Nat /\ k >= 1 /\ k <= done
      BY ONLY <3>3
    <3>7. \A i \in 1 .. piped : pipe[g][i].what = "unit" =>
             Place(g, i) \in Nat /\ Place(g, i) >= 1 /\ Place(g, i) <= done
      BY ONLY <3>3, <3>4, <3>5
    <3>8. \A k \in 1 .. Len(staged[g]) : k <= Len(new) => staged[g][k] = new[k]
      BY <2>1, <3>2, <3>6 DEF Agrees, staging, done
    <3>9. \A i \in 1 .. Len(pipe[g]) :
             pipe[g][i].what = "unit" /\ Place(g, i) <= Len(new) => pipe[g][i].n = new[Place(g, i)]
      BY <2>1, <3>2, <3>7 DEF Agrees, piped, done
    <3>10. writer = "append" => pos[g] <= Len(new)
      BY <2>1, <3>1, GetValues
    <3>11. QED
      BY <3>8, <3>9, <3>10 DEF Agrees
  <2>4. QED
    BY <2>2, <2>3
<1>6. QED
  BY <1>4, <1>5, UntornPartsNext

-----------------------------------------------------------------------------
(* The theorems *)

LEMMA InitGets == Init => GetsOK
<1> SUFFICES ASSUME Init PROVE GetsOK
  OBVIOUS
<1>1. Target = Original
  BY DEF Init, FileInit, Target, Last
<1>2. Seen(Target)
  BY <1>1 DEF Init, FileInit, Seen
<1>3. ASSUME NEW g \in Getters PROVE GetOK(g)
  BY DEF Init, GetInit, GetOK, Unopened, Framed, Counted, Served, Tidy, Ahead
<1>4. QED
  BY <1>2, <1>3 DEF GetsOK

\* The invariant is inductive.
LEMMA NextGets == PutsOK /\ GetsOK /\ [Next]_vars => GetsOK'
<1> SUFFICES ASSUME PutsOK, GetsOK, [Next]_vars PROVE GetsOK'
  OBVIOUS
<1>0. TypeOK /\ GetTypeOK /\ Seen(Target) /\ \A g \in Getters : GetOK(g) /\ opened[g] \in Files
  BY DEF PutsOK, GetsOK, TypeOK, GetTypeOK
<1>1. CASE PutNext /\ UNCHANGED getVars
  <2>1. /\ contents \subseteq contents' /\ Seen(Target)'
        /\ \A f \in Files : Seen(f) => data'[f] = data[f]
    BY <1>0, <1>1, PutFiles
  <2>2. ASSUME NEW g \in Getters PROVE GetOK(g)'
    <3>1. Seen(opened[g]) => Seen(opened[g])'
      BY <1>0, <1>1, <2>1 DEF Seen
    <3>2. QED
      BY <1>0, <1>1, <2>1, <3>1, FrozenStays DEF Frozen
  <2>3. QED
    BY <2>1, <2>2 DEF GetsOK
<1>2. CASE Edit
  <2>1. /\ contents \subseteq contents' /\ Seen(Target)'
        /\ \A f \in Files : Seen(f) => Seen(f)'
    BY <1>0, <1>2, EditFiles
  <2>2. ASSUME NEW g \in Getters PROVE GetOK(g)'
    <3>1. Frozen(g) /\ opened' = opened
      BY <1>2 DEF Edit, Frozen
    <3>2. Seen(opened[g]) => Seen(opened[g])'
      BY <1>0, <2>1, <3>1 DEF Seen
    <3>3. QED
      BY <1>0, <2>1, <3>1, <3>2, FrozenStays
  <2>3. QED
    BY <2>1, <2>2 DEF GetsOK
<1>3. ASSUME NEW h \in Getters, ServerGet(h) \/ RxGet(h) \/ GetCut(h) \/ ServerKilled(h)
      PROVE  GetsOK'
  <2>1. UNCHANGED <<fileVars, writerVars>>
    BY <1>3, GetKeepsFiles
  <2>2. Seen(Target)'
    BY <1>0, <2>1 DEF Seen, Target, Last
  <2>3. ASSUME NEW g \in Getters PROVE GetOK(g)'
    <3>1. CASE g # h
      <4>1. Frozen(g)
        BY <1>0, <1>3, <3>1, OthersFrozen
      <4>2. Seen(opened[g]) => Seen(opened[g])'
        BY <2>1, <4>1 DEF Seen, Frozen
      <4>3. QED
        BY <1>0, <2>1, <4>1, <4>2, FrozenStays
    <3>2. CASE g = h
      BY <1>0, <1>3, <3>2, ServerPreserves, GetterPreserves, GetCutPreserves, ServerKilledPreserves
    <3>3. QED
      BY <3>1, <3>2
  <2>4. QED
    BY <2>2, <2>3 DEF GetsOK
<1>4. CASE PowerLoss
  BY <1>0, <1>4, PowerFiles, GetPowerPreserves DEF GetsOK, PowerLoss
<1>5. CASE UNCHANGED vars
  BY <1>0, <1>5, FrozenStays DEF GetsOK, Frozen, Seen, Target, Last
<1>6. QED
  BY <1>1, <1>2, <1>3, <1>4, <1>5 DEF Next, GetNext, Finished

LEMMA GetsAlwaysOK == Spec => []GetsOK
<1>1. QED
  BY InitGets, NextGets, PutsAlwaysOK, PTL DEF Spec

\* A get that does not answer "got" leaves its destination as it was, and
\* none leaves its temporary file behind, whatever fails and when.
THEOREM FailsClean == Spec => []FailedGetLeavesNothing
<1>1. TypeOK /\ GetsOK => FailedGetLeavesNothing
  <2> SUFFICES ASSUME TypeOK, GetsOK, NEW g \in Getters, outcome[g] # "none"
               PROVE  (outcome[g] = "got" <=> dest[g] # {}) /\ g \notin local
    BY DEF FailedGetLeavesNothing
  <2>1. Tidy(g) /\ getter[g] = "done"
    BY GetValues DEF GetsOK, GetOK
  <2>2. QED
    BY <2>1 DEF Tidy
<1>2. QED
  BY <1>1, GetsAlwaysOK, TypeCorrect, PTL

\* file_changed is told only of a file whose length has moved, or when rxd or
\* the connection died.
THEOREM ChangedIsTrue == Spec => []FileChangedIsTrue
<1>1. GetsOK => FileChangedIsTrue
  <2> SUFFICES ASSUME GetsOK, NEW g \in Getters, outcome[g] = "file_changed"
               PROVE  Moved(g) \/ ~wireUp[g] \/ exit[g] = "killed"
    BY DEF FileChangedIsTrue, Moved
  <2>1. QED
    BY DEF GetsOK, GetOK, Served
<1>2. QED
  BY <1>1, GetsAlwaysOK, PTL

\* Nothing is read of a file that was not opened.
LEMMA InitUntorn == Init => GetsUntorn
<1> SUFFICES ASSUME Init, NEW g \in Getters PROVE Untorn(g)
  BY DEF GetsUntorn
<1>1. Reads(g) /\ Vouched(g) /\ Taken(g)
  BY DEF Init, GetInit, Reads, Vouched, Taken
<1>2. QED
  BY <1>1, UntornParts

\* What was read stays of one piece, if nobody writes into the middle of the
\* file.
LEMMA NextUntorn ==
    "overwrite" \notin Writers /\ PutsOK /\ GetsOK /\ GetsUntorn /\ [Next]_vars => GetsUntorn'
<1> SUFFICES ASSUME "overwrite" \notin Writers, PutsOK, GetsOK, GetsUntorn, [Next]_vars,
                    NEW g \in Getters
             PROVE  Untorn(g)'
  BY DEF GetsUntorn
<1>0. TypeOK /\ GetTypeOK /\ Seen(Target) /\ GetOK(g) /\ Served(g) /\ Untorn(g)
  BY DEF PutsOK, GetsOK, GetsUntorn, GetOK, TypeOK
<1>1. CASE PutNext /\ UNCHANGED getVars
  <2>1. /\ contents \subseteq contents'
        /\ \A f \in Files : Seen(f) => data'[f] = data[f]
    BY <1>0, <1>1, PutFiles
  <2>2. Frozen(g)
    BY <1>1 DEF Frozen
  <2>3. opened[g] \in Files
    BY <1>0, GetValues
  <2>4. QED
    BY <1>0, <2>1, <2>2, <2>3, FrozenUntorn
<1>2. CASE Edit
  <2>1. writer # "overwrite"
    BY <1>0 DEF GetTypeOK
  <2>2. QED
    BY <1>0, <1>2, <2>1, EditUntorn
<1>3. ASSUME NEW h \in Getters, ServerGet(h) \/ RxGet(h) \/ GetCut(h) \/ ServerKilled(h)
      PROVE  Untorn(g)'
  <2>1. CASE g # h
    <3>1. Frozen(g)
      BY <1>0, <1>3, <2>1, OthersFrozen
    <3>2. UNCHANGED fileVars
      BY <1>3, GetKeepsFiles
    <3>3. QED
      BY <1>0, <3>1, <3>2, FrozenUntorn
  <2>2. CASE g = h
    BY <1>0, <1>3, <2>2, ServerUntorn, RxUntorn, CutUntorn, KilledUntorn
  <2>3. QED
    BY <2>1, <2>2
<1>4. CASE PowerLoss
  BY <1>0, <1>4, PowerUntorn
<1>5. CASE UNCHANGED vars
  BY <1>0, <1>5, FrozenUntorn DEF Frozen
<1>6. QED
  BY <1>1, <1>2, <1>3, <1>4, <1>5 DEF Next, GetNext, Finished

\* Where no program writes into the middle of the file, what a get installs
\* is one content of the file it opened, whole, whatever else happens to the
\* file meanwhile.
THEOREM GetsWhole ==
    ASSUME "overwrite" \notin Writers
    PROVE  Spec => []NeverTorn
<1>1. PutsOK /\ GetsOK /\ GetsUntorn /\ [Next]_vars => GetsUntorn'
  BY NextUntorn
<1>2. GetsUntorn => NeverTorn
  BY DEF GetsUntorn, NeverTorn, Untorn
<1>3. QED
  BY <1>1, <1>2, InitUntorn, PutsAlwaysOK, GetsAlwaysOK, PTL DEF Spec

=============================================================================
