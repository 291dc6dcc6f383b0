--------------------------- MODULE TransferProofs ---------------------------
(***************************************************************************)
(* What holds of Transfer for any number of puts and gets, any requests,   *)
(* faults, chunk and pipe sizes, and with losses of power.                 *)
(***************************************************************************)
EXTENDS Transfer, TLAPS

\* The frames, and the names of the parts of a step, are always expanded.
USE DEF fileVars, rxVars, rxdVars, putVars, getterVars, serverVars, writerVars,
        getVars, vars, Files

-----------------------------------------------------------------------------
(* Type correctness *)

\* What is kept of a sequence is a prefix of it.
LEMMA KeepPrefix ==
    ASSUME NEW S, NEW s \in Seq(S), NEW n \in Nat
    PROVE  /\ Keep(s, n) \in Seq(S)
           /\ Len(Keep(s, n)) <= Len(s)
           /\ n <= Len(s) => Len(Keep(s, n)) = n
           /\ \A i \in 1 .. Len(Keep(s, n)) : Keep(s, n)[i] = s[i]
           /\ Len(Keep(s, n)) <= n
  BY DEF Keep

\* The units of one read are tokens at consecutive places.
LEMMA UnitsType ==
    ASSUME NEW f \in Nat, NEW n \in Nat
    PROVE  /\ Units(f, n) \in Seq(Tokens)
           /\ Len(Units(f, n)) = n
           /\ \A i \in 1 .. n : Units(f, n)[i] = Token("unit", f + i, f + i - 1)
  BY DEF Units, Tokens, Token

\* Taking the first token off the wire.
LEMMA ReceiveType ==
    ASSUME PutTypeOK, NEW p \in Putters, NEW what, HasToken(p, what)
    PROVE  /\ Head(wire[p]) \in Tokens
           /\ Head(wire[p]).n \in Nat
           /\ [wire EXCEPT ![p] = Tail(@)] \in [Putters -> Seq(Tokens)]
<1>1. wire[p] \in Seq(Tokens) /\ wire[p] # <<>>
  BY DEF PutTypeOK, HasToken
<1>2. Head(wire[p]) \in Tokens /\ Tail(wire[p]) \in Seq(Tokens)
  BY <1>1
<1>3. \A t \in Tokens : t.n \in Nat
  BY DEF Tokens
<1>4. QED
  BY <1>2, <1>3 DEF PutTypeOK

\* Writing a unit to a file.
LEMMA WriteType ==
    ASSUME FileTypeOK, NEW f \in Files, NEW n \in Nat
    PROVE  [data EXCEPT ![f] = Append(@, n)] \in [Files -> Seq(Nat)]
<1>1. Append(data[f], n) \in Seq(Nat)
  BY DEF FileTypeOK
<1>2. QED
  BY <1>1 DEF FileTypeOK

\* The messages of a get.
LEMMA MessageType ==
    ASSUME NEW what \in {"size", "error", "unit"}, NEW n \in Nat
    PROVE  Message(what, n) \in Messages
  BY DEF Message, Messages

LEMMA PipeType ==
    ASSUME GetTypeOK, NEW g \in Getters
    PROVE  /\ \A m \in Messages : [pipe EXCEPT ![g] = Append(@, m)] \in [Getters -> Seq(Messages)]
           /\ \A what : Has(g, what) =>
                /\ Head(pipe[g]).n \in Nat
                /\ [pipe EXCEPT ![g] = Tail(@)] \in [Getters -> Seq(Messages)]
<1>1. pipe[g] \in Seq(Messages)
  BY DEF GetTypeOK
<1>2. \A m \in Messages : Append(pipe[g], m) \in Seq(Messages)
  BY <1>1
<1>3. pipe[g] # <<>> => Head(pipe[g]) \in Messages /\ Tail(pipe[g]) \in Seq(Messages)
  BY <1>1
<1>4. \A m \in Messages : m.n \in Nat
  BY DEF Messages
<1>5. QED
  BY <1>2, <1>3, <1>4 DEF GetTypeOK, Has

\* The initial states have the types.
LEMMA InitType == Init => TypeOK
<1> SUFFICES ASSUME Init PROVE TypeOK
  OBVIOUS
<1>1. FileTypeOK
  BY RemoteFileAssumption DEF Init, FileInit, FileTypeOK
<1>2. PutTypeOK
  BY RemoteFileAssumption DEF Init, PutInit, PutTypeOK
<1>3. GetTypeOK
  BY DownloadAssumption DEF Init, GetInit, GetTypeOK
<1>4. QED
  BY <1>1, <1>2, <1>3 DEF Init, TypeOK

\* Every step of a put keeps the types.
LEMMA PutType ==
    ASSUME TypeOK, PutNext
    PROVE  FileTypeOK' /\ PutTypeOK'
<1>0. PICK p \in Putters : RxPut(p) \/ RxdPut(p) \/ Cut(p) \/ RxdKilled(p)
  BY DEF PutNext
<1> USE DEF TypeOK
<1>1. CASE RxPut(p)
  <2> USE DEF Report, FileTypeOK, PutTypeOK
  <2>1. CASE RxRefuse(p)
    BY <2>1 DEF RxRefuse
  <2>2. CASE RxRequest(p)
    BY <2>2 DEF RxRequest, Token, Tokens
  <2>3. CASE RxSend(p)
    <3>1. PICK n \in 1 .. Chunk :
            LET header == IF ask[p].kind = "put_stream"
                          THEN <<Token("len", n, sent[p])>> ELSE <<>>
            IN  /\ sent[p] + n <= MaxLen
                /\ wire' = [wire EXCEPT ![p] = @ \o header \o Units(sent[p], n)]
                /\ sent' = [sent EXCEPT ![p] = @ + n]
      BY <2>3 DEF RxSend
    <3> DEFINE header == IF ask[p].kind = "put_stream"
                         THEN <<Token("len", n, sent[p])>> ELSE <<>>
    <3>2. n \in Nat /\ sent[p] \in Nat
      BY <3>1, UploadAssumption, RemoteFileAssumption
    <3>3. Token("len", n, sent[p]) \in Tokens
      BY <3>2 DEF Token, Tokens
    <3>4. header \in Seq(Tokens) /\ Units(sent[p], n) \in Seq(Tokens)
      BY <3>2, <3>3, UnitsType
    <3>5. wire[p] \in Seq(Tokens)
      OBVIOUS
    <3> HIDE DEF header
    <3>6. wire[p] \o header \o Units(sent[p], n) \in Seq(Tokens)
      BY <3>4, <3>5
    <3>7. wire' \in [Putters -> Seq(Tokens)]
      BY <3>1, <3>6 DEF header
    <3>8. sent' \in [Putters -> 0 .. MaxLen]
      BY <3>1, <3>2, RemoteFileAssumption
    <3>9. QED
      BY <2>3, <3>7, <3>8 DEF RxSend
  <2>4. CASE RxEnd(p)
    BY SMTT(30), <2>4 DEF RxEnd, Token, Tokens
  <2>5. CASE RxSourceFails(p)
    BY <2>5 DEF RxSourceFails
  <2>6. CASE RxPipeBroken(p)
    BY <2>6 DEF RxPipeBroken
  <2>7. CASE RxAnswer(p)
    BY <2>7 DEF RxAnswer
  <2>8. QED
    BY <1>1, <2>1, <2>2, <2>3, <2>4, <2>5, <2>6, <2>7 DEF RxPut
<1>2. CASE RxdPut(p)
  <2> USE DEF RxdGoto, Answer, Reject, Fails, RemoveTemp
  <2>1. CASE RxdRequest(p)
    <3>1. /\ Head(wire[p]).n \in Nat
          /\ wire' = [wire EXCEPT ![p] = Tail(@)]
          /\ wire' \in [Putters -> Seq(Tokens)]
      BY <2>1, ReceiveType DEF RxdRequest, Receive
    <3>3. FileTypeOK'
      BY <2>1, <3>1 DEF RxdRequest, FileTypeOK
    <3>4. PutTypeOK'
      BY <2>1, <3>1 DEF RxdRequest, PutTypeOK
    <3>5. QED
      BY <3>3, <3>4
  <2>2. CASE RxdNoRequest(p)
    <3>1. FileTypeOK'
      BY <2>2 DEF RxdNoRequest, FileTypeOK
    <3>2. PutTypeOK'
      BY <2>2 DEF RxdNoRequest, PutTypeOK
    <3>3. QED
      BY <3>1, <3>2
  <2>3. CASE RxdCreate(p)
    <3>1. FileTypeOK'
      BY <2>3 DEF RxdCreate, CreateTemp, FileTypeOK
    <3>2. PutTypeOK'
      BY <2>3 DEF RxdCreate, CreateTemp, PutTypeOK
    <3>3. QED
      BY <3>1, <3>2
  <2>4. CASE RxdCopy(p)
    <3>1. /\ Head(wire[p]).n \in Nat
          /\ wire' = [wire EXCEPT ![p] = Tail(@)]
          /\ wire' \in [Putters -> Seq(Tokens)]
      BY <2>4, ReceiveType DEF RxdCopy, Receive
    <3>2. [data EXCEPT ![p] = Append(@, Head(wire[p]).n)] \in [Files -> Seq(Nat)]
      BY <3>1, WriteType
    <3>3. FileTypeOK'
      BY <2>4, <3>1, <3>2 DEF RxdCopy, WriteTemp, FileTypeOK
    <3>4. PutTypeOK'
      BY <2>4, <3>1 DEF RxdCopy, WriteTemp, PutTypeOK
    <3>5. QED
      BY <3>3, <3>4
  <2>5. CASE RxdCopyEnd(p)
    <3>1. FileTypeOK'
      BY <2>5 DEF RxdCopyEnd, BodyComplete, FileTypeOK
    <3>2. PutTypeOK'
      BY ZenonT(60), <2>5 DEF RxdCopyEnd, BodyComplete, PutTypeOK
    <3>3. QED
      BY <3>1, <3>2
  <2>6. CASE FramedHeader(p)
    <3>1. /\ Head(wire[p]).n \in Nat
          /\ wire' = [wire EXCEPT ![p] = Tail(@)]
          /\ wire' \in [Putters -> Seq(Tokens)]
      BY <2>6, ReceiveType DEF FramedHeader, Receive
    <3>3. FileTypeOK'
      BY <2>6, <3>1 DEF FramedHeader, FileTypeOK
    <3>4. PutTypeOK'
      BY ZenonT(60), <2>6, <3>1 DEF FramedHeader, PutTypeOK
    <3>5. QED
      BY <3>3, <3>4
  <2>7. CASE FramedPayload(p)
    <3>1. /\ Head(wire[p]).n \in Nat
          /\ wire' = [wire EXCEPT ![p] = Tail(@)]
          /\ wire' \in [Putters -> Seq(Tokens)]
      BY <2>7, ReceiveType DEF FramedPayload, Receive
    <3>2. [data EXCEPT ![p] = Append(@, Head(wire[p]).n)] \in [Files -> Seq(Nat)]
      BY <3>1, WriteType
    <3>3. FileTypeOK'
      BY <2>7, <3>1, <3>2 DEF FramedPayload, WriteTemp, FileTypeOK
    <3>4. remaining' \in [Putters -> Nat]
      <4>1. \/ remaining' = [remaining EXCEPT ![p] = @ - 1] /\ remaining[p] > 0
            \/ remaining' = remaining
        BY <2>7 DEF FramedPayload
      <4>2. remaining \in [Putters -> Nat]
        BY DEF PutTypeOK
      <4>3. QED
        BY <4>1, <4>2
    <3>5. PutTypeOK'
      BY <2>7, <3>1, <3>4 DEF FramedPayload, PutTypeOK
    <3>6. QED
      BY <3>3, <3>5
  <2>8. CASE FramedTrailer(p)
    <3>1. /\ Head(wire[p]).n \in Nat
          /\ wire' = [wire EXCEPT ![p] = Tail(@)]
          /\ wire' \in [Putters -> Seq(Tokens)]
      BY <2>8, ReceiveType DEF FramedTrailer, Receive
    <3>3. FileTypeOK'
      BY <2>8, <3>1 DEF FramedTrailer, BodyComplete, FileTypeOK
    <3>4. PutTypeOK'
      BY ZenonT(60), <2>8, <3>1 DEF FramedTrailer, BodyComplete, PutTypeOK
    <3>5. QED
      BY <3>3, <3>4
  <2>9. CASE FramedEof(p)
    <3>1. FileTypeOK'
      BY <2>9 DEF FramedEof, FileTypeOK
    <3>2. PutTypeOK'
      BY <2>9 DEF FramedEof, PutTypeOK
    <3>3. QED
      BY <3>1, <3>2
  <2>10. CASE RxdSync(p)
    <3>1. FileTypeOK'
      BY <2>10 DEF RxdSync, SyncTemp, FileTypeOK
    <3>2. PutTypeOK'
      BY <2>10 DEF RxdSync, SyncTemp, PutTypeOK
    <3>3. QED
      BY <3>1, <3>2
  <2>11. CASE RxdChmod(p)
    <3>1. FileTypeOK'
      BY <2>11 DEF RxdChmod, Grant, FileTypeOK
    <3>2. PutTypeOK'
      BY <2>11 DEF RxdChmod, Grant, PutTypeOK
    <3>3. QED
      BY <3>1, <3>2
  <2>12. CASE RxdChown(p)
    <3>1. FileTypeOK'
      <4>1. CASE Grant(p, "owner")
        BY <4>1 DEF Grant, FileTypeOK
      <4>2. CASE RemoveTemp(p) \/ UNCHANGED fileVars
        BY <4>2 DEF FileTypeOK
      <4>3. QED
        BY <2>12, <4>1, <4>2 DEF RxdChown
    <3>2. PutTypeOK'
      BY <2>12 DEF RxdChown, Grant, PutTypeOK
    <3>3. QED
      BY <3>1, <3>2
  <2>13. CASE RxdRename(p)
    <3>1. FileTypeOK'
      <4>1. CASE RenameTemp(p)
        <5>1. history' \in Seq(Files) /\ Len(history') = Len(history) + 1
          BY <4>1 DEF RenameTemp, FileTypeOK
        <5>2. QED
          BY <4>1, <5>1 DEF RenameTemp, FileTypeOK
      <4>2. CASE RemoveTemp(p)
        BY <4>2 DEF FileTypeOK
      <4>3. QED
        BY <2>13, <4>1, <4>2 DEF RxdRename
    <3>2. PutTypeOK'
      BY <2>13 DEF RxdRename, RenameTemp, PutTypeOK
    <3>3. QED
      BY <3>1, <3>2
  <2>14. CASE RxdSyncDirectory(p)
    <3>1. FileTypeOK'
      BY <2>14 DEF RxdSyncDirectory, SyncDirectory, FileTypeOK
    <3>2. PutTypeOK'
      BY <2>14 DEF RxdSyncDirectory, SyncDirectory, PutTypeOK
    <3>3. QED
      BY <3>1, <3>2
  <2>15. QED
    BY <1>2, <2>1, <2>2, <2>3, <2>4, <2>5, <2>6, <2>7, <2>8, <2>9, <2>10, <2>11, <2>12, <2>13,
       <2>14 DEF RxdPut
<1>3. CASE Cut(p)
  <2> USE DEF FileTypeOK, PutTypeOK
  <2>1. \A n \in 0 .. Len(wire[p]) : Keep(wire[p], n) \in Seq(Tokens)
    BY KeepPrefix
  <2>2. QED
    BY SMTT(30), <1>3, <2>1 DEF Cut
<1>4. CASE RxdKilled(p)
  BY <1>4 DEF RxdKilled, RxdGoto, FileTypeOK, PutTypeOK
<1>5. QED
  BY <1>0, <1>1, <1>2, <1>3, <1>4

\* Every step of a get, and every edit of the file, keeps the types.
LEMMA GetType ==
    ASSUME TypeOK, GetNext
    PROVE  FileTypeOK' /\ GetTypeOK'
<1> USE DEF TypeOK, FileTypeOK, GetTypeOK, Exit, Put, Goto, Tell, Take, Has, Message, Messages,
            LocalFailure
<1>1. ASSUME NEW g \in Getters, ServerGet(g)
      PROVE  FileTypeOK' /\ GetTypeOK'
  <2>0. Target \in Files
    BY DEF Target, Last
  <2>1. CASE ServerOpen(g)
    <3>1. Len(data[Target]) \in Nat
      BY <2>0
    <3>2. \A m \in Messages : [pipe EXCEPT ![g] = Append(@, m)] \in [Getters -> Seq(Messages)]
      BY PipeType
    <3>3. Message("size", Len(data[Target])) \in Messages /\ Message("error", 0) \in Messages
      BY <3>1, MessageType
    <3>4. FileTypeOK'
      BY <2>1 DEF ServerOpen
    <3>5. pipe' \in [Getters -> Seq(Messages)]
      <4>1. \/ pipe' = [pipe EXCEPT ![g] = Append(@, Message("size", Len(data[Target])))]
            \/ pipe' = [pipe EXCEPT ![g] = Append(@, Message("error", 0))]
        BY <2>1 DEF ServerOpen
      <4>2. [pipe EXCEPT ![g] = Append(@, Message("size", Len(data[Target])))]
              \in [Getters -> Seq(Messages)]
        BY ONLY <3>2, <3>3
      <4>3. [pipe EXCEPT ![g] = Append(@, Message("error", 0))] \in [Getters -> Seq(Messages)]
        BY ONLY <3>2, <3>3
      <4>4. QED
        BY ONLY <4>1, <4>2, <4>3
    <3>6. GetTypeOK'
      <4>1. CASE /\ opened' = [opened EXCEPT ![g] = Target]
                 /\ length' = [length EXCEPT ![g] = Len(data[Target])]
                 /\ server' = [server EXCEPT ![g] = "send"]
                 /\ UNCHANGED <<exit, pos>>
        BY <2>1, <2>0, <3>1, <3>5, <4>1 DEF ServerOpen
      <4>2. CASE Exit(g, "success") /\ UNCHANGED <<opened, length, pos>>
        BY <2>1, <3>5, <4>2 DEF ServerOpen
      <4>3. QED
        BY <2>1, <4>1, <4>2 DEF ServerOpen
    <3>7. QED
      BY <3>4, <3>6
  <2>2. CASE ServerSend(g)
    <3>1. data[opened[g]] \in Seq(Nat) /\ pos[g] \in Nat
      OBVIOUS
    <3>2. data[opened[g]][pos[g] + 1] \in Nat
      BY SMTT(30), <2>2, <3>1 DEF ServerSend, More
    <3>3. pipe' \in [Getters -> Seq(Messages)]
      BY <2>2, <3>2, PipeType, MessageType DEF ServerSend
    <3>4. pos' \in [Getters -> Nat]
      BY SMTT(30), <2>2 DEF ServerSend
    <3>5. QED
      BY <2>2, <3>3, <3>4 DEF ServerSend
  <2>3. CASE ServerSent(g)
    BY <2>3 DEF ServerSent
  <2>4. CASE ServerRestat(g)
    BY <2>4 DEF ServerRestat
  <2>5. CASE ServerBroken(g)
    BY <2>5 DEF ServerBroken
  <2>6. QED
    BY <1>1, <2>1, <2>2, <2>3, <2>4, <2>5 DEF ServerGet
<1>2. ASSUME NEW g \in Getters, RxGet(g)
      PROVE  FileTypeOK' /\ GetTypeOK'
  <2>1. CASE GetRequest(g)
    BY <2>1 DEF GetRequest
  <2>2. CASE GetHeader(g)
    <3>1. \A what : Has(g, what) =>
            /\ Head(pipe[g]).n \in Nat
            /\ [pipe EXCEPT ![g] = Tail(@)] \in [Getters -> Seq(Messages)]
      BY PipeType
    <3>2. CASE /\ Has(g, "size")
               /\ Take(g)
               /\ declared' = [declared EXCEPT ![g] = Head(pipe[g]).n]
               /\ Goto(g, "stage")
               /\ UNCHANGED outcome
      <4>1. declared' \in [Getters -> Nat] /\ pipe' \in [Getters -> Seq(Messages)]
        BY <3>1, <3>2
      <4>2. QED
        BY <2>2, <3>2, <4>1 DEF GetHeader
    <3>3. CASE Has(g, "error") /\ Take(g) /\ Tell(g, "typed_error") /\ UNCHANGED declared
      <4>1. pipe' \in [Getters -> Seq(Messages)]
        BY <3>1, <3>3
      <4>2. QED
        BY <2>2, <3>3, <4>1 DEF GetHeader
    <3>4. CASE Tell(g, "transport") /\ UNCHANGED <<pipe, declared>>
      BY <2>2, <3>4 DEF GetHeader
    <3>5. QED
      BY <2>2, <3>2, <3>3, <3>4 DEF GetHeader
  <2>3. CASE GetStage(g)
    BY <2>3 DEF GetStage
  <2>4. CASE GetReceive(g)
    <3>1. /\ Head(pipe[g]).n \in Nat
          /\ [pipe EXCEPT ![g] = Tail(@)] \in [Getters -> Seq(Messages)]
      BY <2>4, PipeType DEF GetReceive
    <3>2. CASE LocalFailure(g)
      BY <2>4, <3>2 DEF GetReceive
    <3>3. CASE /\ Take(g)
               /\ staged' = [staged EXCEPT ![g] = Append(@, Head(pipe[g]).n)]
               /\ UNCHANGED <<getter, declared, local, dest, outcome>>
      <4>1. staged' \in [Getters -> Seq(Nat)] /\ pipe' \in [Getters -> Seq(Messages)]
        <5>1. Append(staged[g], Head(pipe[g]).n) \in Seq(Nat)
          BY <3>1
        <5>2. QED
          BY <3>1, <3>3, <5>1
      <4>2. QED
        BY <2>4, <3>3, <4>1 DEF GetReceive
    <3>4. QED
      BY <2>4, <3>2, <3>3 DEF GetReceive
  <2>5. CASE GetShort(g)
    BY <2>5 DEF GetShort
  <2>6. CASE GetComplete(g)
    BY <2>6 DEF GetComplete
  <2>7. CASE GetVerify(g)
    <3>1. pipe' \in [Getters -> Seq(Messages)]
      <4>1. <<>> \in Seq(Messages)
        OBVIOUS
      <4>2. QED
        BY <2>7, <4>1 DEF GetVerify
    <3>2. CASE Goto(g, "commit") /\ UNCHANGED <<local, outcome>>
      BY <2>7, <3>1, <3>2 DEF GetVerify
    <3>3. CASE local' = local \ {g} /\ Tell(g, "file_changed")
      BY <2>7, <3>1, <3>3 DEF GetVerify
    <3>4. QED
      BY <2>7, <3>2, <3>3 DEF GetVerify
  <2>8. CASE GetCommit(g)
    <3>1. CASE dest' = [dest EXCEPT ![g] = @ \cup {staged[g]}] /\ Tell(g, "got")
      <4>1. dest' \in [Getters -> SUBSET Seq(Nat)]
        BY <3>1
      <4>2. QED
        BY <2>8, <3>1, <4>1 DEF GetCommit
    <3>2. CASE Tell(g, "local_error") /\ UNCHANGED dest
      BY <2>8, <3>2 DEF GetCommit
    <3>3. QED
      BY <2>8, <3>1, <3>2 DEF GetCommit
  <2>9. CASE GetReap(g)
    BY <2>9 DEF GetReap
  <2>10. QED
    BY <1>2, <2>1, <2>2, <2>3, <2>4, <2>5, <2>6, <2>7, <2>8, <2>9 DEF RxGet
<1>3. ASSUME NEW g \in Getters, GetCut(g)
      PROVE  FileTypeOK' /\ GetTypeOK'
  <2>1. \A n \in 0 .. Len(pipe[g]) : Keep(pipe[g], n) \in Seq(Messages)
    BY KeepPrefix
  <2>2. QED
    BY SMTT(30), <1>3, <2>1 DEF GetCut
<1>4. ASSUME NEW g \in Getters, ServerKilled(g)
      PROVE  FileTypeOK' /\ GetTypeOK'
  BY <1>4 DEF ServerKilled
<1>5. CASE Edit
  <2> DEFINE old == data[Original]
  <2>1. old \in Seq(Nat) /\ edits + 1 \in Nat
    BY DownloadAssumption
  <2>2. Append(old, edits + 1) \in Seq(Nat)
    BY <2>1
  <2>3. ASSUME old # <<>> PROVE Front(old) \in Seq(Nat)
    BY <2>1, <2>3 DEF Front
  <2>4. [k \in DOMAIN old |-> edits + 1] \in Seq(Nat)
    <3>1. \A s \in Seq(Nat), n \in Nat : [k \in DOMAIN s |-> n] \in Seq(Nat)
      BY ONLY TRUE
    <3>2. QED
      BY ONLY <2>1, <3>1
  <2>5. data' \in [Files -> Seq(Nat)]
    <3>1. writer \in {"append", "truncate", "overwrite"}
      BY DownloadAssumption
    <3>2. CASE writer = "append"
      BY <1>5, <2>2, <3>2 DEF Edit, EditFile
    <3>3. CASE writer = "truncate"
      BY <1>5, <2>3, <3>3 DEF Edit, EditFile
    <3>4. CASE writer = "overwrite"
      BY <1>5, <2>4, <3>4 DEF Edit, EditFile
    <3>5. QED
      BY <3>1, <3>2, <3>3, <3>4
  <2>6. FileTypeOK'
    BY <1>5, <2>5 DEF Edit, EditFile
  <2>7. GetTypeOK'
    BY <1>5, DownloadAssumption DEF Edit
  <2>8. QED
    BY <2>6, <2>7
<1>6. QED
  BY <1>1, <1>2, <1>3, <1>4, <1>5 DEF GetNext

\* A loss of power keeps the types.
LEMMA PowerType == TypeOK /\ PowerLoss => TypeOK'
<1> SUFFICES ASSUME TypeOK, PowerLoss PROVE TypeOK'
  OBVIOUS
<1> USE DEF TypeOK, PowerLoss
<1>1. FileTypeOK'
  <2>1. PICK n \in flushed .. Len(history), kept \in 0 .. MaxLen :
          /\ history' = Keep(history, n)
          /\ flushed' = n
          /\ data' = [f \in Files |-> IF f \in synced THEN data[f] ELSE Keep(data[f], kept)]
          /\ UNCHANGED <<temps, perms, synced>>
    BY DEF LosePower
  <2>2. history' \in Seq(Files) /\ Len(history') = n /\ n \in Nat \ {0}
    BY <2>1, KeepPrefix DEF FileTypeOK
  <2>3. \A f \in Files : Keep(data[f], kept) \in Seq(Nat)
    <3>1. kept \in Nat /\ \A f \in Files : data[f] \in Seq(Nat)
      BY RemoteFileAssumption DEF FileTypeOK
    <3>2. QED
      BY <3>1, KeepPrefix
  <2>4. QED
    BY <2>1, <2>2, <2>3 DEF FileTypeOK
<1>2. PutTypeOK'
  BY DEF PutLosePower, PutTypeOK
<1>3. GetTypeOK'
  BY DEF GetLosePower, GetTypeOK
<1>4. QED
  BY <1>1, <1>2, <1>3

\* Every reachable state is typed, whatever the puts, gets and faults.
THEOREM TypeCorrect == Spec => []TypeOK
<1>1. TypeOK /\ [Next]_vars => TypeOK'
  <2> SUFFICES ASSUME TypeOK, [Next]_vars PROVE TypeOK'
    OBVIOUS
  <2>1. CASE PutNext /\ UNCHANGED <<getVars, power>>
    BY <2>1, PutType DEF TypeOK, GetTypeOK
  <2>2. CASE GetNext /\ UNCHANGED <<putVars, power>>
    BY <2>2, GetType DEF TypeOK, PutTypeOK
  <2>3. CASE PowerLoss
    BY <2>3, PowerType
  <2>4. CASE UNCHANGED vars
    BY <2>4 DEF TypeOK, FileTypeOK, PutTypeOK, GetTypeOK
  <2>5. QED
    BY <2>1, <2>2, <2>3, <2>4 DEF Next, Finished
<1>2. QED
  BY <1>1, InitType, PTL DEF Spec
=============================================================================
