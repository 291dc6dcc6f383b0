---------------------------- MODULE UploadProofs ----------------------------
(***************************************************************************)
(* What rx put promises, proved for any number of puts to the path, any    *)
(* requests, faults, chunk and pipe sizes, with gets and other programs    *)
(* beside them and with losses of power.                                   *)
(***************************************************************************)
EXTENDS TransferProofs

\* The frames, and the names of the parts of a step, are always expanded.
USE DEF fileVars, rxVars, rxdVars, putVars, getterVars, serverVars, writerVars,
        getVars, vars, Files

-----------------------------------------------------------------------------
(* The inductive invariant *)

\* rxd reads the stream; it has the whole of it and installs it.
Reading == {"request", "create", "fill", "trailer"}
Late    == {"sync", "chmod", "chown", "rename", "syncdir"}

\* The place in the source behind a token.
After(t) == IF t.what = "unit" THEN t.at + 1 ELSE t.at

\* The tokens of w follow each other in the source, from a place on.
Chain(w, from) ==
    \A i \in 1 .. Len(w) : w[i].at = IF i = 1 THEN from ELSE After(w[i - 1])

\* The place in the source behind w.
EndOf(w, from) == IF w = <<>> THEN from ELSE After(w[Len(w)])

\* The path names p's file; it does so on the disk too.
OnPath(p)  == p \in ToSet(history)
Durable(p) == p \in ToSet(Keep(history, flushed))

\* What InstalledIsWhole asks of the content of a file.
Whole(p) ==
    /\ ask[p].kind = "put" => Len(data[p]) = size[p]
    /\ ask[p].kind = "put_stream" =>
        /\ p \in ended /\ Len(data[p]) = sent[p]
        /\ sent[p] = 0 => ask[p].empty

\* Nothing has happened before rx starts.
Before(p) == rx[p] = "idle" =>
    rxd[p] = "idle" /\ wire[p] = <<>> /\ data[p] = <<>> /\ sent[p] = 0

\* The file is a prefix of the source, and what is under way goes on from
\* there, up to where rx is unless the connection was cut.
InOrder(p) ==
    /\ \A k \in 1 .. Len(data[p]) : data[p][k] = k
    /\ \A i \in 1 .. Len(wire[p]) :
        /\ wire[p][i].what = "unit" => wire[p][i].n = wire[p][i].at + 1
        /\ wire[p][i].what = "total" => p \in ended /\ wire[p][i].n = sent[p]
    /\ rxd[p] \in Reading =>
        /\ Chain(wire[p], Len(data[p]))
        /\ link[p] = "up" => EndOf(wire[p], Len(data[p])) = sent[p]

\* rx sends no more once it has ended its source, or rxd has left the stream.
Quiet(p) ==
    /\ p \in ended => rx[p] \in {"wait", "done"}
    /\ rxd[p] \in Late => link[p] = "cut" \/ rx[p] \in {"wait", "done"}

\* What install_file has established before each of its steps.
Staged(p) ==
    /\ rxd[p] \in Late => Whole(p)
    /\ rxd[p] \in Late \ {"sync"} => p \in synced \cup unsynced
    /\ rxd[p] = "chown" => ask[p].rights \ {"owner"} \subseteq perms[p]
    /\ rxd[p] \in {"rename", "syncdir"} => ask[p].rights \subseteq perms[p]
    /\ rxd[p] = "syncdir" => OnPath(p) /\ p \notin temps
    /\ rxd[p] \in {"idle", "request"} => p \notin temps

\* What is true of a file that the path names, or named once.
Placed(p) ==
    /\ Installed(p) => rxd[p] \in {"syncdir", "gone"}
    /\ OnPath(p) => Installed(p)
    /\ OnPath(p) /\ p \notin unsynced =>
        p \in synced /\ Whole(p) /\ ask[p].rights \subseteq perms[p]

\* What is true when rxd has answered, and when rx has reported.
Answered(p) ==
    /\ answer[p] # "none" => rxd[p] = "gone" /\ p \notin temps
    /\ answer[p] = "copied" => Installed(p) /\ (p \in unsynced \/ Durable(p))
    /\ answer[p] \notin {"none", "copied"} => ~Installed(p)
    /\ result[p] = "refused" => ~Installed(p) /\ p \notin temps /\ rxd[p] \in {"idle", "gone"}
    /\ \/ result[p] \in {"none", "transport", "refused"}
       \/ answer[p] # "none" /\ result[p] = answer[p]
       \/ answer[p] = "copied" /\ result[p] = "io"

PutOK(p) == Before(p) /\ InOrder(p) /\ Quiet(p) /\ Staged(p) /\ Placed(p) /\ Answered(p)

\* The inductive invariant.
PutsOK == TypeOK /\ \A p \in Putters : PutOK(p)

-----------------------------------------------------------------------------
(* Streams of tokens *)

LEMMA TokenType ==
    ASSUME NEW t \in Tokens
    PROVE  /\ t.n \in Nat /\ t.at \in Nat /\ After(t) \in Nat
           /\ t.what = "unit" => After(t) = t.at + 1
           /\ t.what # "unit" => After(t) = t.at
  BY DEF Tokens, After

\* What is left of a stream begins where its first token ended.
LEMMA ChainTail ==
    ASSUME NEW w \in Seq(Tokens), NEW from \in Nat, Chain(w, from), w # <<>>
    PROVE  /\ Head(w).at = from
           /\ Chain(Tail(w), After(Head(w)))
           /\ EndOf(Tail(w), After(Head(w))) = EndOf(w, from)
<1>1. /\ Head(w) = w[1] /\ Len(w) \in Nat \ {0}
      /\ Len(Tail(w)) = Len(w) - 1
      /\ \A i \in 1 .. Len(w) - 1 : Tail(w)[i] = w[i + 1]
      /\ Tail(w) = <<>> <=> Len(w) = 1
  <2>1. Head(w) = w[1] /\ Len(w) \in Nat \ {0} /\ Len(Tail(w)) = Len(w) - 1
    OBVIOUS
  <2>2. \A i \in 1 .. Len(w) - 1 : Tail(w)[i] = w[i + 1]
    OBVIOUS
  <2>3. Tail(w) \in Seq(Tokens)
    OBVIOUS
  <2>4. \A v \in Seq(Tokens) : v = <<>> <=> Len(v) = 0
    OBVIOUS
  <2>5. Tail(w) = <<>> <=> Len(Tail(w)) = 0
    BY ONLY <2>3, <2>4
  <2>6. QED
    BY <2>1, <2>2, <2>5
<1>2. Head(w).at = from
  BY <1>1 DEF Chain
<1>3. Chain(Tail(w), After(Head(w)))
  <2> SUFFICES ASSUME NEW i \in 1 .. Len(Tail(w))
               PROVE  Tail(w)[i].at = IF i = 1 THEN After(Head(w)) ELSE After(Tail(w)[i - 1])
    BY DEF Chain
  <2>1. Tail(w)[i] = w[i + 1] /\ i + 1 \in 1 .. Len(w) /\ i + 1 # 1 /\ (i + 1) - 1 = i
    BY <1>1
  <2>2. w[i + 1].at = After(w[i])
    BY <2>1 DEF Chain
  <2>3. i # 1 => Tail(w)[i - 1] = w[i]
    BY <1>1
  <2>4. QED
    BY <1>1, <2>1, <2>2, <2>3
<1>4. EndOf(Tail(w), After(Head(w))) = EndOf(w, from)
  BY <1>1 DEF EndOf
<1>5. QED
  BY <1>2, <1>3, <1>4

\* A stream goes on where it ended.
LEMMA ChainConcat ==
    ASSUME NEW w \in Seq(Tokens), NEW v \in Seq(Tokens), NEW from \in Nat,
           Chain(w, from), Chain(v, EndOf(w, from))
    PROVE  /\ Chain(w \o v, from)
           /\ EndOf(w \o v, from) = EndOf(v, EndOf(w, from))
<1> DEFINE both == w \o v
<1>1. /\ Len(w) \in Nat /\ Len(v) \in Nat /\ Len(both) = Len(w) + Len(v)
      /\ \A i \in 1 .. Len(both) : both[i] = IF i <= Len(w) THEN w[i] ELSE v[i - Len(w)]
      /\ w = <<>> <=> Len(w) = 0
      /\ v = <<>> <=> Len(v) = 0
      /\ both = <<>> <=> Len(both) = 0
  OBVIOUS
<1> HIDE DEF both
<1>2. Chain(both, from)
  <2> SUFFICES ASSUME NEW i \in 1 .. Len(both)
               PROVE  both[i].at = IF i = 1 THEN from ELSE After(both[i - 1])
    BY DEF Chain
  <2>1. CASE i <= Len(w)
    <3>1. w[i].at = IF i = 1 THEN from ELSE After(w[i - 1])
      BY <2>1, <1>1 DEF Chain
    <3>2. QED
      BY <3>1, <2>1, <1>1
  <2>2. CASE i = Len(w) + 1
    <3>1. v[1].at = EndOf(w, from)
      BY <2>2, <1>1 DEF Chain
    <3>2. both[i] = v[1]
      BY <2>2, <1>1
    <3>3. CASE w = <<>>
      BY <3>1, <3>2, <3>3, <2>2, <1>1 DEF EndOf
    <3>4. CASE w # <<>>
      <4>1. both[i - 1] = w[Len(w)] /\ i # 1
        BY <3>4, <2>2, <1>1
      <4>2. QED
        BY <3>1, <3>2, <3>4, <4>1 DEF EndOf
    <3>5. QED
      BY <3>3, <3>4
  <2>3. CASE i > Len(w) + 1
    <3>1. i - Len(w) \in 1 .. Len(v) /\ i - Len(w) # 1 /\ i # 1
      BY <2>3, <1>1
    <3>2. v[i - Len(w)].at = After(v[i - Len(w) - 1])
      BY <3>1 DEF Chain
    <3>3. both[i] = v[i - Len(w)] /\ both[i - 1] = v[i - Len(w) - 1]
      BY <2>3, <1>1
    <3>4. QED
      BY <3>1, <3>2, <3>3
  <2>4. QED
    BY <2>1, <2>2, <2>3, <1>1
<1>3. EndOf(both, from) = EndOf(v, EndOf(w, from))
  BY <1>1 DEF EndOf
<1>4. QED
  BY <1>2, <1>3 DEF both

LEMMA ConcatAssociates ==
    \A a, b, c \in Seq(Tokens) : a \o b \o c = a \o (b \o c)
  OBVIOUS

\* A cut leaves a stream that begins where the whole did.
LEMMA ChainKeep ==
    ASSUME NEW w \in Seq(Tokens), NEW from \in Nat, NEW n \in Nat, Chain(w, from)
    PROVE  Chain(Keep(w, n), from)
<1> DEFINE kept == Keep(w, n)
<1>1. /\ kept \in Seq(Tokens) /\ Len(kept) \in Nat /\ Len(kept) <= Len(w)
      /\ \A i \in 1 .. Len(kept) : kept[i] = w[i]
  <2>1. /\ kept \in Seq(Tokens) /\ Len(kept) <= Len(w)
        /\ \A i \in 1 .. Len(kept) : kept[i] = w[i]
    BY ZenonT(60), KeepPrefix
  <2> HIDE DEF kept
  <2>2. QED
    BY <2>1
<1> HIDE DEF kept
<1>2. Chain(kept, from)
  <2> SUFFICES ASSUME NEW i \in 1 .. Len(kept)
               PROVE  kept[i].at = IF i = 1 THEN from ELSE After(kept[i - 1])
    BY DEF Chain
  <2>1. i \in 1 .. Len(w) /\ kept[i] = w[i] /\ (i # 1 => kept[i - 1] = w[i - 1])
    BY <1>1
  <2>2. w[i].at = IF i = 1 THEN from ELSE After(w[i - 1])
    BY <2>1 DEF Chain
  <2>3. QED
    BY <2>1, <2>2
<1>3. QED
  BY <1>2 DEF kept

LEMMA ChainOne ==
    ASSUME NEW t \in Tokens
    PROVE  Chain(<<t>>, t.at) /\ EndOf(<<t>>, t.at) = After(t)
  BY DEF Chain, EndOf

\* The units of one read follow each other.
LEMMA ChainUnits ==
    ASSUME NEW f \in Nat, NEW n \in Nat \ {0}
    PROVE  Chain(Units(f, n), f) /\ EndOf(Units(f, n), f) = f + n
<1>1. /\ Len(Units(f, n)) = n
      /\ \A i \in 1 .. n : /\ Units(f, n)[i].at = f + i - 1
                           /\ After(Units(f, n)[i]) = f + i
  <2>1. Len(Units(f, n)) = n /\ \A i \in 1 .. n : Units(f, n)[i] = Token("unit", f + i, f + i - 1)
    BY UnitsType
  <2>2. \A i \in 1 .. n : /\ Token("unit", f + i, f + i - 1).at = f + i - 1
                          /\ After(Token("unit", f + i, f + i - 1)) = f + i
    BY DEF Token, After
  <2>3. QED
    BY <2>1, <2>2
<1>2. Chain(Units(f, n), f)
  BY <1>1 DEF Chain
<1>3. QED
  BY <1>1, <1>2 DEF EndOf

-----------------------------------------------------------------------------
(* The path and what it has named *)

LEMMA AppendNames ==
    ASSUME NEW S, NEW s \in Seq(S), NEW e \in S
    PROVE  ToSet(Append(s, e)) = ToSet(s) \cup {e}
<1>1. /\ DOMAIN s = 1 .. Len(s) /\ Len(s) \in Nat
      /\ DOMAIN Append(s, e) = 1 .. Len(s) + 1
      /\ \A i \in 1 .. Len(s) : Append(s, e)[i] = s[i]
      /\ Append(s, e)[Len(s) + 1] = e
  OBVIOUS
<1>2. QED
  BY <1>1 DEF ToSet

LEMMA KeepNames ==
    ASSUME NEW S, NEW s \in Seq(S), NEW n \in Nat
    PROVE  ToSet(Keep(s, n)) = {s[i] : i \in {j \in 1 .. Len(s) : j <= n}}
<1> DEFINE kept == Keep(s, n)
<1>1. /\ kept \in Seq(S) /\ Len(kept) <= Len(s) /\ Len(kept) <= n
      /\ n <= Len(s) => Len(kept) = n
      /\ \A i \in 1 .. Len(kept) : kept[i] = s[i]
  BY ZenonT(60), KeepPrefix
<1>2. Len(s) < n => kept = s
  BY DEF Keep
<1> HIDE DEF kept
<1>3. DOMAIN kept = 1 .. Len(kept) /\ Len(kept) \in Nat /\ Len(s) \in Nat
  BY <1>1
<1>4. 1 .. Len(kept) = {j \in 1 .. Len(s) : j <= n}
  <2>1. CASE n <= Len(s)
    BY <2>1, <1>1, <1>3
  <2>2. CASE Len(s) < n
    BY <2>2, <1>2, <1>3
  <2>3. QED
    BY <2>1, <2>2, <1>3
<1>5. ToSet(kept) = {s[i] : i \in {j \in 1 .. Len(s) : j <= n}}
  BY <1>1, <1>3, <1>4 DEF ToSet
<1>6. QED
  BY <1>5 DEF kept

\* A rename adds the file, and takes nothing away.
LEMMA RenameNames ==
    ASSUME FileTypeOK, NEW q \in Putters, NEW p \in Putters, RenameTemp(q)
    PROVE  /\ OnPath(p)' <=> OnPath(p) \/ p = q
           /\ Installed(p)' <=> Installed(p) \/ p = q
           /\ Durable(p) => Durable(p)'
<1>1. history \in Seq(Files) /\ flushed \in Nat /\ q \in Files
  BY DEF FileTypeOK
<1>2. ToSet(history') = ToSet(history) \cup {q}
  BY <1>1, AppendNames DEF RenameTemp
<1>3. Installed(p)' <=> Installed(p) \/ p = q
  <2>1. contents' = contents \cup {<<q, data[q]>>}
    BY DEF RenameTemp
  <2>2. <<q, data[q]>>[1] = q
    OBVIOUS
  <2>3. QED
    BY <2>1, <2>2 DEF Installed
<1>4. Durable(p) => Durable(p)'
  <2>1. ToSet(Keep(history, flushed)) = {history[i] : i \in {j \in 1 .. Len(history) : j <= flushed}}
    BY <1>1, KeepNames
  <2>2. history' \in Seq(Files) /\ flushed' \in Nat
    BY <1>1 DEF RenameTemp
  <2>3. ToSet(Keep(history', flushed'))
          = {history'[i] : i \in {j \in 1 .. Len(history') : j <= flushed'}}
    BY <2>2, KeepNames
  <2>4. /\ Len(history') = Len(history) + 1 /\ flushed' = flushed
        /\ \A i \in 1 .. Len(history) : history'[i] = history[i]
    BY <1>1 DEF RenameTemp
  <2>5. \A i \in 1 .. Len(history) : i \in 1 .. Len(history')
    BY <1>1, <2>4
  <2>6. QED
    BY <2>1, <2>3, <2>4, <2>5 DEF Durable
<1>5. QED
  BY <1>2, <1>3, <1>4 DEF OnPath

\* When the directory is synced, everything the path names is durable.
LEMMA SyncNames ==
    ASSUME FileTypeOK, NEW p \in Putters, SyncDirectory
    PROVE  /\ OnPath(p)' <=> OnPath(p)
           /\ Installed(p)' <=> Installed(p)
           /\ Durable(p) => Durable(p)'
           /\ OnPath(p) => Durable(p)'
<1>1. history \in Seq(Files) /\ flushed \in Nat
  BY DEF FileTypeOK
<1>2. ToSet(Keep(history, flushed)) = {history[i] : i \in {j \in 1 .. Len(history) : j <= flushed}}
  BY <1>1, KeepNames
<1>3. Keep(history', flushed') = history
  BY DEF SyncDirectory, Keep
<1>4. ToSet(history) = {history[i] : i \in 1 .. Len(history)}
  BY <1>1 DEF ToSet
<1>5. QED
  BY <1>2, <1>3, <1>4 DEF SyncDirectory, OnPath, Durable, Installed

\* A loss of power takes back only renames that were not durable.
LEMMA PowerNames ==
    ASSUME FileTypeOK, NEW p \in Putters, LosePower
    PROVE  /\ OnPath(p)' => OnPath(p)
           /\ Installed(p) => Installed(p)'
           /\ Installed(p)' => Installed(p) \/ OnPath(p)
           /\ Durable(p) => Durable(p)'
<1>1. history \in Seq(Files) /\ flushed \in Nat \ {0} /\ Len(history) \in Nat \ {0}
  BY DEF FileTypeOK
<1>2. PICK n \in flushed .. Len(history) :
        /\ history' = Keep(history, n)
        /\ flushed' = n
        /\ contents' = contents \cup {<<Target', data'[Target']>>}
  BY DEF LosePower
<1>3. n \in Nat \ {0} /\ flushed <= n /\ n <= Len(history)
  BY <1>1, <1>2
<1>4. /\ ToSet(Keep(history, flushed)) = {history[i] : i \in {j \in 1 .. Len(history) : j <= flushed}}
      /\ ToSet(Keep(history, n)) = {history[i] : i \in {j \in 1 .. Len(history) : j <= n}}
  BY <1>1, <1>3, KeepNames
<1>5. /\ history' \in Seq(Files) /\ Len(history') = n
      /\ \A i \in 1 .. n : history'[i] = history[i]
  BY <1>1, <1>2, <1>3, KeepPrefix
<1>6. Keep(history', flushed') = history'
  BY <1>2, <1>3, <1>5 DEF Keep
<1>7. ToSet(history) = {history[i] : i \in 1 .. Len(history)}
  BY <1>1 DEF ToSet
<1>8. Target' \in ToSet(history)
  BY <1>1, <1>3, <1>5, <1>7 DEF Target, Last
<1>9. (OnPath(p)' => OnPath(p)) /\ (Durable(p) => Durable(p)')
  <2>1. ToSet(history') \subseteq ToSet(history)
    BY <1>2, <1>4, <1>7
  <2>2. ToSet(Keep(history, flushed)) \subseteq ToSet(history')
    <3>1. {j \in 1 .. Len(history) : j <= flushed} \subseteq {j \in 1 .. Len(history) : j <= n}
      BY <1>1, <1>3
    <3>2. QED
      BY <1>2, <1>4, <3>1
  <2>3. QED
    BY <1>6, <2>1, <2>2 DEF OnPath, Durable
<1>10. (Installed(p) => Installed(p)') /\ (Installed(p)' => Installed(p) \/ OnPath(p))
  BY <1>2, <1>8 DEF Installed, OnPath
<1>11. QED
  BY <1>9, <1>10

-----------------------------------------------------------------------------
(* The puts do not disturb each other *)

\* Nothing that PutOK(p) speaks of changes, except that its rename may become
\* durable.
Undisturbed(p) ==
    /\ data'[p] = data[p] /\ perms'[p] = perms[p]
    /\ ask'[p] = ask[p] /\ rx'[p] = rx[p] /\ size'[p] = size[p] /\ sent'[p] = sent[p]
    /\ wire'[p] = wire[p] /\ link'[p] = link[p]
    /\ rxd'[p] = rxd[p] /\ answer'[p] = answer[p] /\ result'[p] = result[p]
    /\ p \in temps' <=> p \in temps
    /\ p \in synced' <=> p \in synced
    /\ p \in unsynced' <=> p \in unsynced
    /\ p \in ended' <=> p \in ended
    /\ OnPath(p)' <=> OnPath(p)
    /\ Installed(p)' <=> Installed(p)
    /\ Durable(p) => Durable(p)'

LEMMA UndisturbedStays ==
    ASSUME NEW p, PutOK(p), Undisturbed(p)
    PROVE  PutOK(p)'
<1> USE DEF PutOK, Undisturbed
<1>1. Before(p)'
  BY DEF Before
<1>2. InOrder(p)'
  BY DEF InOrder, Chain, EndOf
<1>3. Quiet(p)'
  BY DEF Quiet
<1>4. Whole(p)' <=> Whole(p)
  BY DEF Whole
<1>5. Staged(p)'
  BY <1>4 DEF Staged
<1>6. Placed(p)'
  BY <1>4 DEF Placed
<1>7. Answered(p)'
  BY DEF Answered
<1>8. QED
  BY <1>1, <1>2, <1>3, <1>5, <1>6, <1>7

\* Where the path stays as it is, so do the names.
LEMMA SameNames ==
    ASSUME NEW p, UNCHANGED <<history, flushed, contents>>
    PROVE  /\ OnPath(p)' <=> OnPath(p)
           /\ Installed(p)' <=> Installed(p)
           /\ Durable(p)' <=> Durable(p)
  BY DEF OnPath, Installed, Durable

\* A step of one put leaves the others alone.
LEMMA OthersUndisturbed ==
    ASSUME TypeOK, NEW q \in Putters, NEW p \in Putters, p # q,
           RxPut(q) \/ RxdPut(q) \/ Cut(q) \/ RxdKilled(q)
    PROVE  Undisturbed(p)
<1> USE DEF Undisturbed
<1>0. FileTypeOK /\ PutTypeOK /\ p \in Files /\ q \in Files
  BY DEF TypeOK
<1> USE DEF FileTypeOK, PutTypeOK
<1>1. CASE RxPut(q)
  <2>1. UNCHANGED fileVars
    BY <1>1 DEF RxPut, RxRefuse, RxRequest, RxSend, RxEnd, RxSourceFails, RxPipeBroken, RxAnswer
  <2>2. UNCHANGED <<answer, unsynced, link, ask>> /\ rxd'[p] = rxd[p] /\ wire'[p] = wire[p]
    <3>1. UNCHANGED <<answer, unsynced, link>> /\ rxd'[p] = rxd[p]
      BY SMTT(30), <1>1, <1>0 DEF RxPut, RxRefuse, RxRequest, RxSend, RxEnd, RxSourceFails, RxPipeBroken, RxAnswer
    <3>2. UNCHANGED ask
      BY <1>1 DEF RxPut, RxRefuse, RxRequest, RxSend, RxEnd, RxSourceFails, RxPipeBroken,
                  RxAnswer, Report
    <3>3. wire'[p] = wire[p]
      <4>1. CASE RxSend(q)
        <5>1. PICK n \in 1 .. Chunk : wire' =
                [wire EXCEPT ![q] = @ \o (IF ask[q].kind = "put_stream"
                                         THEN <<Token("len", n, sent[q])>> ELSE <<>>)
                                    \o Units(sent[q], n)]
          BY <4>1 DEF RxSend
        <5>2. QED
          BY <5>1, <1>0
      <4>2. CASE RxEnd(q)
        BY <4>2, <1>0 DEF RxEnd
      <4>3. CASE RxRequest(q)
        BY <4>3, <1>0 DEF RxRequest
      <4>4. QED
        BY <1>1, <4>1, <4>2, <4>3 DEF RxPut, RxRefuse, RxSourceFails, RxPipeBroken, RxAnswer
    <3>4. QED
      BY <3>1, <3>2, <3>3
  <2>3. /\ rx'[p] = rx[p] /\ size'[p] = size[p] /\ sent'[p] = sent[p] /\ result'[p] = result[p]
        /\ p \in ended' <=> p \in ended
    BY ZenonT(60), <1>1, <1>0 DEF RxPut, RxRefuse, RxRequest, RxSend, RxEnd, RxSourceFails, RxPipeBroken,
                      RxAnswer, Report
  <2>4. QED
    BY <2>1, <2>2, <2>3, SameNames
<1>2. CASE RxdPut(q)
  <2>1. UNCHANGED <<rxVars, link>>
    BY <1>2 DEF RxdPut, RxdRequest, RxdNoRequest, RxdCreate, RxdCopy, RxdCopyEnd, FramedHeader,
                FramedPayload, FramedTrailer, FramedEof, RxdSync, RxdChmod, RxdChown, RxdRename,
                RxdSyncDirectory
  <2>2. wire'[p] = wire[p]
    BY <1>2, <1>0 DEF RxdPut, RxdRequest, RxdNoRequest, RxdCreate, RxdCopy, RxdCopyEnd, FramedHeader,
                FramedPayload, FramedTrailer, FramedEof, RxdSync, RxdChmod, RxdChown, RxdRename,
                RxdSyncDirectory, Receive
  <2>3. /\ rxd'[p] = rxd[p] /\ answer'[p] = answer[p]
        /\ p \in unsynced' <=> p \in unsynced
    BY SMTT(30), <1>2, <1>0 DEF RxdPut, RxdRequest, RxdNoRequest, RxdCreate, RxdCopy, RxdCopyEnd, FramedHeader,
                FramedPayload, FramedTrailer, FramedEof, RxdSync, RxdChmod, RxdChown, RxdRename,
                RxdSyncDirectory, RxdGoto, Answer, Reject, Fails, BodyComplete
  <2>4. \/ UNCHANGED fileVars
        \/ CreateTemp(q)
        \/ \E n \in Nat : WriteTemp(q, n)
        \/ SyncTemp(q)
        \/ \E right \in {"mode", "owner"} : Grant(q, right)
        \/ RenameTemp(q)
        \/ RemoveTemp(q)
        \/ SyncDirectory
    <3>1. \A what : HasToken(q, what) => Head(wire[q]).n \in Nat
      BY <1>0, ReceiveType
    <3>2. QED
      BY <1>2, <3>1 DEF RxdPut, RxdRequest, RxdNoRequest, RxdCreate, RxdCopy, RxdCopyEnd,
                FramedHeader, FramedPayload, FramedTrailer, FramedEof, RxdSync, RxdChmod, RxdChown,
                RxdRename, RxdSyncDirectory, Reject, Fails, BodyComplete
  <2>5. /\ data'[p] = data[p] /\ perms'[p] = perms[p]
        /\ p \in temps' <=> p \in temps
        /\ p \in synced' <=> p \in synced
    BY <2>4, <1>0 DEF CreateTemp, WriteTemp, SyncTemp, Grant, RenameTemp, RemoveTemp, SyncDirectory
  <2>6. /\ OnPath(p)' <=> OnPath(p)
        /\ Installed(p)' <=> Installed(p)
        /\ Durable(p) => Durable(p)'
    <3>1. CASE RenameTemp(q)
      BY <3>1, <1>0, RenameNames
    <3>2. CASE SyncDirectory
      BY <3>2, <1>0, SyncNames
    <3>3. CASE UNCHANGED <<history, flushed, contents>>
      BY <3>3, SameNames
    <3>4. QED
      BY <2>4, <3>1, <3>2, <3>3 DEF CreateTemp, WriteTemp, SyncTemp, Grant, RemoveTemp
  <2>7. QED
    BY <2>1, <2>2, <2>3, <2>5, <2>6
<1>3. CASE Cut(q)
  BY <1>3, <1>0, SameNames DEF Cut
<1>4. CASE RxdKilled(q)
  BY <1>4, <1>0, SameNames DEF RxdKilled, RxdGoto
<1>5. QED
  BY <1>1, <1>2, <1>3, <1>4

-----------------------------------------------------------------------------
(* What the steps of rx preserve *)

\* Before rx starts nothing is under way.
LEMMA InitPuts == Init => PutsOK
<1> SUFFICES ASSUME Init PROVE PutsOK
  OBVIOUS
<1>1. TypeOK
  BY InitType
<1>2. ASSUME NEW p \in Putters PROVE PutOK(p)
  <2>1. /\ p \in Files /\ p # Original /\ data[p] = <<>> /\ wire[p] = <<>>
        /\ rx[p] = "idle" /\ rxd[p] = "idle" /\ sent[p] = 0
        /\ answer[p] = "none" /\ result[p] = "none"
        /\ p \notin ended /\ p \notin temps
    BY RemoteFileAssumption DEF Init, FileInit, PutInit
  <2>2. ~OnPath(p) /\ ~Installed(p)
    BY <2>1 DEF OnPath, Installed, ToSet, Init, FileInit
  <2>3. Before(p) /\ InOrder(p) /\ Quiet(p)
    BY <2>1 DEF Before, InOrder, Quiet, Reading, Late
  <2>4. Staged(p) /\ Placed(p) /\ Answered(p)
    BY <2>1, <2>2 DEF Staged, Placed, Answered, Late
  <2>5. QED
    BY <2>3, <2>4 DEF PutOK
<1>3. QED
  BY <1>1, <1>2 DEF PutsOK

\* A step of rx leaves the files, and what rxd has done, alone.
LEMMA RxPreserves ==
    ASSUME TypeOK, TypeOK', NEW p \in Putters, PutOK(p), RxPut(p)
    PROVE  PutOK(p)'
<1>0. /\ FileTypeOK /\ PutTypeOK /\ PutTypeOK' /\ p \in Files
      /\ wire[p] \in Seq(Tokens) /\ sent[p] \in Nat /\ Len(data[p]) \in Nat
      /\ ask[p].kind \in {"put", "put_stream"}
  <2>1. FileTypeOK /\ PutTypeOK /\ PutTypeOK' /\ p \in Files
    BY DEF TypeOK
  <2>2. wire[p] \in Seq(Tokens) /\ ask[p] \in Request /\ sent[p] \in 0 .. MaxLen
    BY <2>1 DEF PutTypeOK
  <2>3. data[p] \in Seq(Nat)
    BY <2>1 DEF FileTypeOK
  <2>4. ask[p].kind \in {"put", "put_stream"}
    BY <2>2 DEF Request
  <2>5. QED
    BY <2>1, <2>2, <2>3, <2>4, RemoteFileAssumption
<1> USE DEF PutOK
<1>1. UNCHANGED fileVars /\ UNCHANGED <<answer, unsynced, link, ask>>
  BY DEF RxPut, RxRefuse, RxRequest, RxSend, RxEnd, RxSourceFails, RxPipeBroken, RxAnswer, Report
<1>2. /\ OnPath(p)' <=> OnPath(p)
      /\ Installed(p)' <=> Installed(p)
      /\ Durable(p)' <=> Durable(p)
  BY <1>1, SameNames
<1>3. CASE RxRefuse(p) \/ RxSourceFails(p) \/ RxPipeBroken(p)
  <2>1. /\ UNCHANGED <<rxd, wire, size, sent, ended>>
        /\ rx[p] # "done" /\ rx'[p] # "idle"
        /\ rx[p] = "send" => rx'[p] = "wait"
        /\ rx[p] = "idle" => rx'[p] = "done"
        /\ rx[p] \in {"idle", "send"}
        /\ result'[p] = IF rx[p] = "idle" THEN "refused" ELSE result[p]
    BY <1>3, <1>0 DEF RxRefuse, RxSourceFails, RxPipeBroken, Report, PutTypeOK
  <2>2. Before(p)' /\ InOrder(p)' /\ Quiet(p)'
    BY <1>1, <2>1 DEF Before, InOrder, Quiet, Reading, Late, Chain, EndOf
  <2>3. Whole(p)' <=> Whole(p)
    BY <1>1, <2>1 DEF Whole
  <2>4. Staged(p)' /\ Placed(p)'
    BY <1>1, <1>2, <2>1, <2>3 DEF Staged, Placed
  <2>5. Answered(p)'
    BY <1>0, <1>1, <1>2, <2>1 DEF Answered, Before, Staged, Placed, PutTypeOK
  <2>6. QED
    BY <2>2, <2>4, <2>5
<1>4. CASE RxAnswer(p)
  <2>1. /\ UNCHANGED <<rxd, wire, size, sent, ended>>
        /\ rx[p] = "wait" /\ rx'[p] = "done"
        /\ result'[p] = IF link[p] = "cut" \/ answer[p] = "none" THEN "transport"
                        ELSE IF answer[p] = "copied" /\ p \notin ended THEN "io"
                        ELSE answer[p]
    BY <1>4, <1>0 DEF RxAnswer, Report, PutTypeOK
  <2>2. Before(p)' /\ InOrder(p)' /\ Quiet(p)'
    BY <1>1, <2>1 DEF Before, InOrder, Quiet, Reading, Late, Chain, EndOf
  <2>3. Whole(p)' <=> Whole(p)
    BY <1>1, <2>1 DEF Whole
  <2>4. Staged(p)' /\ Placed(p)'
    BY <1>1, <1>2, <2>1, <2>3 DEF Staged, Placed
  <2>5. Answered(p)'
    BY <1>0, <1>1, <1>2, <2>1 DEF Answered, PutTypeOK
  <2>6. QED
    BY <2>2, <2>4, <2>5
<1>5. CASE RxRequest(p)
  <2> DEFINE t == Token("request", 0, 0)
  <2>1. /\ UNCHANGED <<sent, ended, result>>
        /\ rx[p] = "idle" /\ rx'[p] = "send" /\ rxd'[p] = "request" /\ wire'[p] = <<t>>
    BY <1>5, <1>0 DEF RxRequest, PutTypeOK
  <2>2. rxd[p] = "idle" /\ data[p] = <<>> /\ sent[p] = 0
    BY <2>1 DEF Before
  <2>3. t \in Tokens /\ t.what = "request" /\ t.at = 0
    BY DEF Token, Tokens
  <2>4. Chain(<<t>>, 0) /\ EndOf(<<t>>, 0) = 0
    BY <2>3, ChainOne, TokenType
  <2>5. Before(p)' /\ Quiet(p)'
    BY <1>1, <2>1 DEF Before, Quiet, Late
  <2>6. InOrder(p)'
    <3>1. Chain(wire[p], Len(data[p]))' /\ EndOf(wire[p], Len(data[p]))' = sent'[p]
      BY <1>1, <2>1, <2>2, <2>4 DEF Chain, EndOf
    <3>2. Len(<<t>>) = 1 /\ <<t>>[1] = t
      OBVIOUS
    <3> HIDE DEF t
    <3>3. QED
      BY <1>1, <2>1, <2>2, <2>3, <3>1, <3>2 DEF InOrder
  <2>7. Staged(p)' /\ Placed(p)'
    BY <1>1, <1>2, <2>1, <2>2 DEF Staged, Placed, Late
  <2>8. Answered(p)'
    BY <1>1, <1>2, <2>1, <2>2, <1>0 DEF Answered, PutTypeOK
  <2>9. QED
    BY <2>5, <2>6, <2>7, <2>8
<1>6. ASSUME NEW v \in Seq(Tokens), Writable(p) \/ v = <<>>,
             wire'[p] = wire[p] \o v, rx[p] = "send", rx'[p] # "idle",
             UNCHANGED <<rxd, size, result>>, p \notin ended,
             rxd[p] \in Late => rx'[p] \in {"wait", "done"} \/ link[p] = "cut",
             p \in ended' => rx'[p] \in {"wait", "done"},
             Chain(v, sent[p]), EndOf(v, sent[p]) = sent'[p],
             \A i \in 1 .. Len(v) :
                /\ v[i].what = "unit" => v[i].n = v[i].at + 1
                /\ v[i].what = "total" => p \in ended' /\ v[i].n = sent'[p]
      PROVE  PutOK(p)'
  <2>1. Before(p)' /\ Quiet(p)'
    BY <1>1, <1>6 DEF Before, Quiet
  <2>2. InOrder(p)'
    <3>1. \A k \in 1 .. Len(data'[p]) : data'[p][k] = k
      BY <1>1 DEF InOrder
    <3>2. ASSUME NEW i \in 1 .. Len(wire'[p])
          PROVE  /\ wire'[p][i].what = "unit" => wire'[p][i].n = wire'[p][i].at + 1
                 /\ wire'[p][i].what = "total" => p \in ended' /\ wire'[p][i].n = sent'[p]
      <4>1. /\ Len(wire'[p]) = Len(wire[p]) + Len(v)
            /\ wire'[p][i] = IF i <= Len(wire[p]) THEN wire[p][i] ELSE v[i - Len(wire[p])]
        BY <1>0, <1>6
      <4>2. CASE i <= Len(wire[p])
        BY <1>0, <1>6, <4>1, <4>2 DEF InOrder
      <4>3. CASE i > Len(wire[p])
        <5>1. i - Len(wire[p]) \in 1 .. Len(v)
          BY <1>0, <1>6, <4>1, <4>3
        <5> DEFINE j == i - Len(wire[p])
        <5>2. wire'[p][i] = v[j]
          BY <1>0, <4>1, <4>3
        <5> HIDE DEF j
        <5>3. j \in 1 .. Len(v)
          BY <5>1 DEF j
        <5>4. QED
          BY <1>6, <5>2, <5>3
      <4>4. QED
        BY <1>0, <4>2, <4>3
    <3>3. ASSUME rxd'[p] \in Reading
          PROVE  /\ Chain(wire'[p], Len(data'[p]))
                 /\ link'[p] = "up" => EndOf(wire'[p], Len(data'[p])) = sent'[p]
      <4>1. Chain(wire[p], Len(data[p])) /\ (link[p] = "up" => EndOf(wire[p], Len(data[p])) = sent[p])
        BY <1>6, <3>3 DEF InOrder
      <4>2. CASE link[p] = "up"
        BY <1>0, <1>1, <1>6, <4>1, <4>2, ChainConcat
      <4>3. CASE link[p] # "up"
        <5>1. v = <<>> /\ wire'[p] = wire[p]
          BY <1>0, <1>6, <4>3 DEF Writable
        <5>2. QED
          BY <1>1, <4>1, <4>3, <5>1
      <4>4. QED
        BY <4>2, <4>3
    <3>4. QED
      BY <3>1, <3>2, <3>3 DEF InOrder, Chain, EndOf
  <2>3. (Whole(p) => Whole(p)')
    BY <1>1, <1>6 DEF Whole
  <2>4. Staged(p)' /\ Placed(p)' /\ Answered(p)'
    BY <1>1, <1>2, <1>6, <2>3 DEF Staged, Placed, Answered
  <2>5. QED
    BY <2>1, <2>2, <2>4
<1>7. CASE RxSend(p)
  <2> DEFINE header(n) == IF ask[p].kind = "put_stream" THEN <<Token("len", n, sent[p])>> ELSE <<>>
  <2>1. PICK n \in 1 .. Chunk : /\ wire' = [wire EXCEPT ![p] = @ \o header(n) \o Units(sent[p], n)]
                                /\ sent' = [sent EXCEPT ![p] = @ + n]
    BY <1>7 DEF RxSend
  <2> DEFINE h == header(n)
             u == Units(sent[p], n)
  <2>2. n \in Nat \ {0}
    BY <2>1, UploadAssumption
  <2>3. Token("len", n, sent[p]) \in Tokens /\ Token("len", n, sent[p]).at = sent[p]
        /\ Token("len", n, sent[p]).what = "len"
    BY <2>2, <1>0 DEF Token, Tokens
  <2>4. h \in Seq(Tokens) /\ Chain(h, sent[p]) /\ EndOf(h, sent[p]) = sent[p]
        /\ \A i \in 1 .. Len(h) : h[i].what = "len"
    <3>1. CASE ask[p].kind = "put_stream"
      <4>1. h = <<Token("len", n, sent[p])>>
        BY <3>1
      <4>2. QED
        BY <2>3, <4>1, ChainOne, TokenType
    <3>2. CASE ask[p].kind # "put_stream"
      <4>1. h = <<>>
        BY <3>2
      <4>2. QED
        BY <4>1 DEF Chain, EndOf
    <3>3. QED
      BY <3>1, <3>2
  <2>5. u \in Seq(Tokens) /\ Chain(u, sent[p]) /\ EndOf(u, sent[p]) = sent[p] + n /\ Len(u) = n
        /\ \A i \in 1 .. n : u[i].what = "unit" /\ u[i].n = u[i].at + 1
    <3>1. \A i \in 1 .. n : u[i].what = "unit" /\ u[i].n = u[i].at + 1
      <4>1. \A i \in 1 .. n : u[i] = Token("unit", sent[p] + i, sent[p] + i - 1)
        BY <2>2, <1>0, UnitsType
      <4>2. \A i \in 1 .. n :
              /\ Token("unit", sent[p] + i, sent[p] + i - 1).what = "unit"
              /\ Token("unit", sent[p] + i, sent[p] + i - 1).n
                   = Token("unit", sent[p] + i, sent[p] + i - 1).at + 1
        BY <2>2, <1>0 DEF Token
      <4> HIDE DEF u
      <4>3. QED
        BY <4>1, <4>2
    <3>2. QED
      BY <2>2, <1>0, <3>1, UnitsType, ChainUnits
  <2> HIDE DEF h, u
  <2>6. /\ h \o u \in Seq(Tokens) /\ wire'[p] = wire[p] \o (h \o u)
        /\ sent'[p] = sent[p] + n
    <3>1. wire'[p] = wire[p] \o h \o u /\ sent'[p] = sent[p] + n
      <4>1. /\ wire'[p] = wire[p] \o header(n) \o Units(sent[p], n)
            /\ sent'[p] = sent[p] + n
        <5> HIDE DEF header
        <5>1. wire \in [Putters -> Seq(Tokens)] /\ sent \in [Putters -> 0 .. MaxLen]
          BY <1>0 DEF PutTypeOK
        <5>2. QED
          BY <2>1, <5>1
      <4>2. QED
        BY <4>1 DEF h, u
    <3>2. wire[p] \o h \o u = wire[p] \o (h \o u)
      <4>1. wire[p] \in Seq(Tokens) /\ h \in Seq(Tokens) /\ u \in Seq(Tokens)
        BY <1>0, <2>4, <2>5
      <4>2. QED
        BY <4>1, ConcatAssociates
    <3>3. QED
      BY <2>4, <2>5, <3>1, <3>2
  <2>7. Chain(h \o u, sent[p]) /\ EndOf(h \o u, sent[p]) = sent'[p]
    BY <1>0, <2>4, <2>5, <2>6, ChainConcat
  <2>8. \A i \in 1 .. Len(h \o u) :
          /\ (h \o u)[i].what = "unit" => (h \o u)[i].n = (h \o u)[i].at + 1
          /\ (h \o u)[i].what # "total"
    <3> SUFFICES ASSUME NEW i \in 1 .. Len(h \o u)
                 PROVE  /\ (h \o u)[i].what = "unit" => (h \o u)[i].n = (h \o u)[i].at + 1
                        /\ (h \o u)[i].what # "total"
      OBVIOUS
    <3>1. Len(h \o u) = Len(h) + n
          /\ (h \o u)[i] = IF i <= Len(h) THEN h[i] ELSE u[i - Len(h)]
      BY <2>4, <2>5
    <3>2. CASE i <= Len(h)
      BY <2>4, <3>1, <3>2
    <3>3. CASE i > Len(h)
      <4>1. i - Len(h) \in 1 .. n
        BY <2>2, <2>4, <3>1, <3>3
      <4>2. QED
        BY <2>4, <2>5, <3>1, <3>3, <4>1
    <3>4. QED
      BY <2>4, <3>2, <3>3
  <2>9. /\ Writable(p) /\ rx[p] = "send" /\ rx' = rx
        /\ UNCHANGED <<rxd, size, result, ended>>
    BY <1>7 DEF RxSend
  <2>10. p \notin ended /\ (rxd[p] \in Late => link[p] = "cut")
    BY <2>9 DEF Quiet
  <2>11. QED
    BY <1>6, <2>6, <2>7, <2>8, <2>9, <2>10
<1>8. CASE RxEnd(p)
  <2>1. /\ rx[p] = "send" /\ rx'[p] = "wait"
        /\ UNCHANGED <<rxd, size, result, sent>> /\ ended' = ended \cup {p}
    BY <1>8, <1>0 DEF RxEnd, PutTypeOK
  <2>2. p \notin ended
    BY <2>1 DEF Quiet
  <2>3. CASE ask[p].kind = "put_stream"
    <3> DEFINE v == <<Token("len", 0, sent[p]), Token("total", sent[p], sent[p])>>
    <3>1. Writable(p) /\ wire'[p] = wire[p] \o v
      BY <1>8, <1>0, <2>3 DEF RxEnd, PutTypeOK
    <3>2. /\ v \in Seq(Tokens) /\ Len(v) = 2
          /\ v[1].what = "len" /\ v[1].at = sent[p]
          /\ v[2].what = "total" /\ v[2].at = sent[p] /\ v[2].n = sent[p]
      <4>1. Token("len", 0, sent[p]) \in Tokens /\ Token("total", sent[p], sent[p]) \in Tokens
        BY <1>0 DEF Token, Tokens
      <4>2. QED
        BY <4>1 DEF Token
    <3> HIDE DEF v
    <3>3. Chain(v, sent[p]) /\ EndOf(v, sent[p]) = sent[p]
      <4>1. After(v[1]) = sent[p] /\ After(v[2]) = sent[p] /\ v # <<>>
        BY DEF v, Token, After
      <4>2. \A i \in 1 .. Len(v) : i = 1 \/ i = 2
        BY <3>2
      <4>3. QED
        BY <3>2, <4>1, <4>2 DEF Chain, EndOf
    <3>4. \A i \in 1 .. Len(v) :
            /\ v[i].what = "unit" => v[i].n = v[i].at + 1
            /\ v[i].what = "total" => p \in ended' /\ v[i].n = sent'[p]
      <4>1. \A i \in 1 .. Len(v) : i = 1 \/ i = 2
        BY <3>2
      <4>2. QED
        BY <3>2, <4>1, <2>1
    <3>5. QED
      BY <1>6, <2>1, <2>2, <3>1, <3>2, <3>3, <3>4
  <2>4. CASE ask[p].kind # "put_stream"
    <3>1. wire'[p] = wire[p] \o <<>> /\ <<>> \in Seq(Tokens)
      BY <1>8, <1>0, <2>4 DEF RxEnd
    <3>2. Chain(<<>>, sent[p]) /\ EndOf(<<>>, sent[p]) = sent[p] /\ Len(<<>>) = 0
      BY DEF Chain, EndOf
    <3>3. \A i \in 1 .. Len(<<>>) :
            /\ <<>>[i].what = "unit" => <<>>[i].n = <<>>[i].at + 1
            /\ <<>>[i].what = "total" => p \in ended' /\ <<>>[i].n = sent'[p]
      BY <3>2
    <3>4. p \in ended' => rx'[p] \in {"wait", "done"}
      BY <2>1
    <3>5. QED
      BY <1>6, <2>1, <2>2, <3>1, <3>2, <3>3, <3>4
  <2>5. QED
    BY <2>3, <2>4
<1>9. QED
  BY <1>3, <1>4, <1>5, <1>7, <1>8 DEF RxPut

-----------------------------------------------------------------------------
(* What the steps of rxd preserve *)

\* What rxd learns from the next token of the stream.
LEMMA NextToken ==
    ASSUME TypeOK, NEW p \in Putters, InOrder(p), NEW what, HasToken(p, what), Receive(p)
    PROVE  /\ wire'[p] = Tail(wire[p])
           /\ \A i \in 1 .. Len(wire'[p]) :
                /\ wire'[p][i].what = "unit" => wire'[p][i].n = wire'[p][i].at + 1
                /\ wire'[p][i].what = "total" => p \in ended /\ wire'[p][i].n = sent[p]
           /\ what = "unit" => Head(wire[p]).n = Head(wire[p]).at + 1
           /\ what = "total" => p \in ended /\ Head(wire[p]).n = sent[p]
           /\ rxd[p] \in Reading =>
                /\ Head(wire[p]).at = Len(data[p])
                /\ Chain(wire'[p], IF what = "unit" THEN Len(data[p]) + 1 ELSE Len(data[p]))
                /\ link[p] = "up" =>
                     EndOf(wire'[p], IF what = "unit" THEN Len(data[p]) + 1 ELSE Len(data[p]))
                       = sent[p]
<1>1. /\ wire \in [Putters -> Seq(Tokens)] /\ data[p] \in Seq(Nat) /\ p \in Files
      /\ wire[p] \in Seq(Tokens) /\ wire[p] # <<>> /\ Head(wire[p]).what = what
  BY DEF TypeOK, FileTypeOK, PutTypeOK, HasToken
<1>2. wire'[p] = Tail(wire[p])
  BY <1>1 DEF Receive
<1>3. /\ Head(wire[p]) = wire[p][1] /\ Head(wire[p]) \in Tokens /\ Len(wire[p]) \in Nat \ {0}
      /\ Len(Tail(wire[p])) = Len(wire[p]) - 1
  BY <1>1
<1>4. \A i \in 1 .. Len(Tail(wire[p])) :
        Tail(wire[p])[i] = wire[p][i + 1] /\ i + 1 \in 1 .. Len(wire[p])
  BY <1>1
<1>5. \A i \in 1 .. Len(wire'[p]) :
        /\ wire'[p][i].what = "unit" => wire'[p][i].n = wire'[p][i].at + 1
        /\ wire'[p][i].what = "total" => p \in ended /\ wire'[p][i].n = sent[p]
  BY <1>2, <1>4 DEF InOrder
<1>6. /\ what = "unit" => Head(wire[p]).n = Head(wire[p]).at + 1
      /\ what = "total" => p \in ended /\ Head(wire[p]).n = sent[p]
  <2>1. 1 \in 1 .. Len(wire[p])
    BY <1>3
  <2>2. QED
    BY <1>1, <1>3, <2>1 DEF InOrder
<1>7. ASSUME rxd[p] \in Reading
      PROVE  /\ Head(wire[p]).at = Len(data[p])
             /\ Chain(wire'[p], IF what = "unit" THEN Len(data[p]) + 1 ELSE Len(data[p]))
             /\ link[p] = "up" =>
                  EndOf(wire'[p], IF what = "unit" THEN Len(data[p]) + 1 ELSE Len(data[p]))
                    = sent[p]
  <2>1. /\ Len(data[p]) \in Nat /\ Chain(wire[p], Len(data[p]))
        /\ link[p] = "up" => EndOf(wire[p], Len(data[p])) = sent[p]
    BY <1>1, <1>7 DEF InOrder
  <2>2. /\ Head(wire[p]).at = Len(data[p])
        /\ Chain(Tail(wire[p]), After(Head(wire[p])))
        /\ EndOf(Tail(wire[p]), After(Head(wire[p]))) = EndOf(wire[p], Len(data[p]))
    BY <1>1, <2>1, ChainTail
  <2>3. After(Head(wire[p])) = IF what = "unit" THEN Len(data[p]) + 1 ELSE Len(data[p])
    BY <1>1, <2>2 DEF After
  <2>4. QED
    BY <1>2, <2>1, <2>2, <2>3
<1>8. QED
  BY <1>2, <1>5, <1>6, <1>7

\* rxd gives up before the rename: nothing is installed, and nothing stays.
LEMMA RejectPreserves ==
    ASSUME TypeOK, NEW p \in Putters, PutOK(p), NEW what, what \notin {"none", "copied"},
           rxd[p] \in Reading \cup Late, rxd[p] # "syncdir",
           RemoveTemp(p) \/ (UNCHANGED fileVars /\ p \notin temps), Answer(p, what),
           UNCHANGED <<rxVars, link, unsynced>>,
           \A i \in 1 .. Len(wire'[p]) :
             /\ wire'[p][i].what = "unit" => wire'[p][i].n = wire'[p][i].at + 1
             /\ wire'[p][i].what = "total" => p \in ended /\ wire'[p][i].n = sent[p]
    PROVE  PutOK(p)'
<1> USE DEF PutOK
<1>1. rxd'[p] = "gone" /\ answer'[p] = what
  BY DEF Answer, RxdGoto, TypeOK, PutTypeOK
<1>2. UNCHANGED <<data, perms, history, flushed, synced, contents>> /\ p \notin temps'
  BY DEF RemoveTemp
<1>3. /\ OnPath(p)' <=> OnPath(p)
      /\ Installed(p)' <=> Installed(p)
  BY <1>2, SameNames
<1>4. ~Installed(p) /\ ~OnPath(p) /\ answer[p] = "none" /\ result[p] # "refused" /\ rx[p] # "idle"
  BY DEF Placed, Answered, Before, Reading, Late
<1>5. Before(p)' /\ InOrder(p)' /\ Quiet(p)'
  BY <1>1, <1>2, <1>4 DEF Before, InOrder, Quiet, Reading, Late
<1>6. Staged(p)' /\ Placed(p)'
  BY <1>1, <1>2, <1>3, <1>4 DEF Staged, Placed, Late
<1>7. Answered(p)'
  BY <1>1, <1>2, <1>3, <1>4 DEF Answered
<1>8. QED
  BY <1>5, <1>6, <1>7

\* rxd goes on, and the path stays as it is.
LEMMA GoingOnPreserves ==
    ASSUME TypeOK, NEW p \in Putters, PutOK(p),
           rxd[p] \in Reading \cup Late, rxd[p] # "syncdir",
           rxd'[p] \in Reading \cup Late, rxd'[p] # "syncdir",
           UNCHANGED <<history, flushed, contents, rxVars, link, answer>>,
           rxd'[p] \in Late => link[p] = "cut" \/ rx[p] \in {"wait", "done"},
           InOrder(p)', Staged(p)'
    PROVE  PutOK(p)'
<1> USE DEF PutOK
<1>1. /\ OnPath(p)' <=> OnPath(p)
      /\ Installed(p)' <=> Installed(p)
  BY SameNames
<1>2. ~Installed(p) /\ ~OnPath(p) /\ answer[p] = "none" /\ result[p] # "refused" /\ rx[p] # "idle"
  BY DEF Placed, Answered, Before, Reading, Late
<1>3. Before(p)' /\ Quiet(p)'
  BY <1>2 DEF Before, Quiet
<1>4. Placed(p)' /\ Answered(p)'
  BY <1>1, <1>2 DEF Placed, Answered
<1>5. QED
  BY <1>3, <1>4

\* The next unit of the source goes to the end of the file.
LEMMA WritePreserves ==
    ASSUME TypeOK, NEW p \in Putters, PutOK(p), rxd[p] = "fill", HasToken(p, "unit"), Receive(p),
           WriteTemp(p, Head(wire[p]).n), UNCHANGED <<rxVars, link, rxd, answer, unsynced>>
    PROVE  PutOK(p)'
<1>1. p \in Files /\ data \in [Files -> Seq(Nat)] /\ Head(wire[p]).n \in Nat
  BY ReceiveType DEF TypeOK, FileTypeOK
<1>2. InOrder(p) /\ rxd[p] \in Reading
  BY DEF PutOK, Reading
<1>3. /\ \A i \in 1 .. Len(wire'[p]) :
           /\ wire'[p][i].what = "unit" => wire'[p][i].n = wire'[p][i].at + 1
           /\ wire'[p][i].what = "total" => p \in ended /\ wire'[p][i].n = sent[p]
      /\ Head(wire[p]).n = Len(data[p]) + 1
      /\ Chain(wire'[p], Len(data[p]) + 1)
      /\ link[p] = "up" => EndOf(wire'[p], Len(data[p]) + 1) = sent[p]
  BY <1>2, NextToken
<1>4. data'[p] = Append(data[p], Len(data[p]) + 1)
  BY <1>1, <1>3 DEF WriteTemp
<1>5. /\ Len(data'[p]) = Len(data[p]) + 1
      /\ \A k \in 1 .. Len(data[p]) : data'[p][k] = data[p][k]
      /\ data'[p][Len(data[p]) + 1] = Len(data[p]) + 1
      /\ Len(data[p]) \in Nat
  BY <1>1, <1>4
<1>6. \A k \in 1 .. Len(data'[p]) : data'[p][k] = k
  <2> SUFFICES ASSUME NEW k \in 1 .. Len(data'[p]) PROVE data'[p][k] = k
    OBVIOUS
  <2>1. CASE k \in 1 .. Len(data[p])
    BY <1>2, <1>5, <2>1 DEF InOrder
  <2>2. CASE k = Len(data[p]) + 1
    BY <1>5, <2>2
  <2>3. QED
    BY <1>5, <2>1, <2>2
<1>7. InOrder(p)'
  BY <1>2, <1>3, <1>5, <1>6 DEF InOrder, Chain, EndOf
<1>8. Staged(p)'
  BY DEF Staged, Late
<1>9. QED
  BY <1>2, <1>7, <1>8, GoingOnPreserves DEF WriteTemp, Late

\* put and put_stream accept the body, or refuse it.
LEMMA BodyPreserves ==
    ASSUME TypeOK, NEW p \in Putters, PutOK(p), rxd[p] \in Reading, BodyComplete(p),
           UNCHANGED <<rxVars, link>>,
           link[p] = "cut" \/ rx[p] \in {"wait", "done"},
           ask[p].kind = "put_stream" => p \in ended /\ Len(data[p]) = sent[p],
           \A i \in 1 .. Len(wire'[p]) :
             /\ wire'[p][i].what = "unit" => wire'[p][i].n = wire'[p][i].at + 1
             /\ wire'[p][i].what = "total" => p \in ended /\ wire'[p][i].n = sent[p]
    PROVE  PutOK(p)'
<1>0. rxd[p] # "syncdir" /\ InOrder(p) /\ data[p] \in Seq(Nat)
  BY DEF PutOK, Reading, TypeOK, FileTypeOK
<1>1. CASE \E what \in {"incomplete_transfer", "empty_stream"} :
             Reject(p, what) /\ UNCHANGED unsynced
  BY <1>1, <1>0, RejectPreserves DEF Reject
<1>2. CASE /\ RxdGoto(p, "sync")
           /\ UNCHANGED <<fileVars, answer, unsynced>>
           /\ ask[p].kind = "put" => Len(data[p]) = size[p]
           /\ ask[p].kind = "put_stream" => data[p] # <<>> \/ ask[p].empty
  <2>1. rxd'[p] = "sync"
    BY <1>2 DEF RxdGoto, TypeOK, PutTypeOK
  <2>2. InOrder(p)'
    BY <1>2, <1>0, <2>1 DEF InOrder, Reading
  <2>3. Whole(p)'
    <3>1. Len(data[p]) = 0 => data[p] = <<>>
      BY <1>0
    <3>2. QED
      BY <1>2, <3>1 DEF Whole
  <2>4. Staged(p)'
    BY <2>1, <2>3 DEF Staged, Late
  <2>5. QED
    BY <1>2, <1>0, <2>1, <2>2, <2>4, GoingOnPreserves DEF Late
<1>3. QED
  BY <1>1, <1>2 DEF BodyComplete

\* Every step of rxd but the last two.
LEMMA RxdPreserves ==
    ASSUME TypeOK, NEW p \in Putters, PutOK(p),
           RxdPut(p), ~RxdRename(p), ~RxdSyncDirectory(p)
    PROVE  PutOK(p)'
<1>0. /\ FileTypeOK /\ PutTypeOK /\ p \in Files
      /\ InOrder(p) /\ Quiet(p) /\ Staged(p) /\ Before(p)
      /\ data[p] \in Seq(Nat)
      /\ link[p] \in {"up", "cut"} /\ ask[p].rights \subseteq {"mode", "owner"}
  <2>1. ask[p] \in Request /\ p \in Files
    BY DEF TypeOK, PutTypeOK
  <2>2. ask[p].rights \subseteq {"mode", "owner"}
    BY <2>1 DEF Request
  <2>3. QED
    BY <2>1, <2>2 DEF TypeOK, FileTypeOK, PutTypeOK, PutOK
<1>t. \A i \in 1 .. Len(wire[p]) :
        /\ wire[p][i].what = "unit" => wire[p][i].n = wire[p][i].at + 1
        /\ wire[p][i].what = "total" => p \in ended /\ wire[p][i].n = sent[p]
  BY <1>0 DEF InOrder
<1>n. ASSUME NEW what, HasToken(p, what), Receive(p)
      PROVE  /\ wire'[p] = Tail(wire[p])
             /\ \A i \in 1 .. Len(wire'[p]) :
                  /\ wire'[p][i].what = "unit" => wire'[p][i].n = wire'[p][i].at + 1
                  /\ wire'[p][i].what = "total" => p \in ended /\ wire'[p][i].n = sent[p]
             /\ what = "total" => p \in ended /\ Head(wire[p]).n = sent[p]
             /\ rxd[p] \in Reading /\ what # "unit" =>
                  /\ Chain(wire'[p], Len(data[p]))
                  /\ link[p] = "up" => EndOf(wire'[p], Len(data[p])) = sent[p]
  BY <1>0, <1>n, NextToken
<1>1. CASE RxdRequest(p)
  <2>1. /\ rxd[p] = "request" /\ rxd'[p] = "create" /\ HasToken(p, "request") /\ Receive(p)
        /\ UNCHANGED <<fileVars, rxVars, link, answer>>
    BY <1>1, <1>0 DEF RxdRequest, RxdGoto, PutTypeOK
  <2>2. InOrder(p)'
    BY <1>0, <1>n, <2>1 DEF InOrder, Reading, Chain, EndOf
  <2>3. Staged(p)'
    BY <2>1 DEF Staged, Late
  <2>4. QED
    BY <2>1, <2>2, <2>3, GoingOnPreserves DEF Reading, Late
<1>2. CASE RxdNoRequest(p)
  <2>1. p \notin temps /\ rxd[p] = "request"
    BY <1>2, <1>0 DEF RxdNoRequest, Staged
  <2>2. QED
    BY <1>2, <1>t, <2>1, RejectPreserves DEF RxdNoRequest, Reading
<1>3. CASE RxdCreate(p)
  <2>1. CASE Fails(p, "create", "io_error")
    BY <1>3, <1>t, <2>1, RejectPreserves DEF RxdCreate, Fails, Reject, Reading
  <2>2. CASE CreateTemp(p) /\ RxdGoto(p, "fill") /\ UNCHANGED answer
    <3>1. rxd[p] = "create" /\ rxd'[p] = "fill"
      BY <1>3, <2>2, <1>0 DEF RxdCreate, RxdGoto, PutTypeOK
    <3>2. InOrder(p)'
      BY <1>3, <1>0, <2>2, <3>1 DEF RxdCreate, CreateTemp, InOrder, Reading, Chain, EndOf
    <3>3. Staged(p)'
      BY <3>1 DEF Staged, Late
    <3>4. QED
      BY <1>3, <2>2, <3>1, <3>2, <3>3, GoingOnPreserves DEF RxdCreate, CreateTemp, Reading, Late
  <2>3. QED
    BY <1>3, <2>1, <2>2 DEF RxdCreate
<1>4. CASE RxdCopy(p)
  <2>1. CASE Fails(p, "write", "internal")
    BY <1>4, <1>n, <2>1, RejectPreserves DEF RxdCopy, Fails, Reject, Reading
  <2>2. CASE WriteTemp(p, Head(wire[p]).n) /\ UNCHANGED rxdVars
    BY <1>4, <2>2, WritePreserves DEF RxdCopy
  <2>3. QED
    BY <1>4, <2>1, <2>2 DEF RxdCopy
<1>5. CASE RxdCopyEnd(p)
  BY <1>5, <1>t, BodyPreserves DEF RxdCopyEnd, Eof, Reading
<1>6. CASE FramedHeader(p)
  <2>1. HasToken(p, "len") /\ Receive(p) /\ rxd[p] = "fill" /\ UNCHANGED <<rxVars, link>>
    BY <1>6 DEF FramedHeader
  <2>2. CASE Reject(p, "incomplete_transfer") /\ UNCHANGED unsynced
    BY <1>n, <2>1, <2>2, RejectPreserves DEF Reject, Reading
  <2>3. CASE /\ RxdGoto(p, IF Head(wire[p]).n = 0 THEN "trailer" ELSE "fill")
             /\ UNCHANGED <<fileVars, answer, unsynced>>
    <3>1. rxd'[p] \in {"fill", "trailer"}
      BY <2>3, <1>0 DEF RxdGoto, PutTypeOK
    <3>2. InOrder(p)'
      <4>1. rxd[p] \in Reading /\ rxd'[p] \in Reading /\ data' = data
        BY <2>1, <2>3, <3>1 DEF Reading
      <4>2. /\ Chain(wire'[p], Len(data[p]))
            /\ link[p] = "up" => EndOf(wire'[p], Len(data[p])) = sent[p]
        BY <1>n, <2>1, <4>1
      <4>3. \A i \in 1 .. Len(wire'[p]) :
              /\ wire'[p][i].what = "unit" => wire'[p][i].n = wire'[p][i].at + 1
              /\ wire'[p][i].what = "total" => p \in ended /\ wire'[p][i].n = sent[p]
        BY <1>n, <2>1
      <4>4. QED
        BY <1>0, <2>1, <4>1, <4>2, <4>3 DEF InOrder, Chain, EndOf
    <3>3. Staged(p)'
      BY <3>1 DEF Staged, Late
    <3>4. QED
      BY <2>1, <2>3, <3>1, <3>2, <3>3, GoingOnPreserves DEF Reading, Late
  <2>4. QED
    BY <1>6, <2>2, <2>3 DEF FramedHeader
<1>7. CASE FramedPayload(p)
  <2>1. CASE Fails(p, "write", "internal")
    BY <1>7, <1>n, <2>1, RejectPreserves DEF FramedPayload, Fails, Reject, Reading
  <2>2. CASE WriteTemp(p, Head(wire[p]).n) /\ UNCHANGED <<rxd, answer, unsynced>>
    BY <1>7, <2>2, WritePreserves DEF FramedPayload
  <2>3. QED
    BY <1>7, <2>1, <2>2 DEF FramedPayload
<1>8. CASE FramedTrailer(p)
  <2>1. HasToken(p, "total") /\ Receive(p) /\ rxd[p] = "trailer" /\ UNCHANGED <<rxVars, link>>
    BY <1>8 DEF FramedTrailer
  <2>2. p \in ended /\ Head(wire[p]).n = sent[p] /\ rx[p] \in {"wait", "done"}
    BY <1>0, <1>n, <2>1 DEF Quiet
  <2>3. CASE Head(wire[p]).n # Len(data[p])
    BY <1>8, <1>n, <2>1, <2>3, RejectPreserves DEF FramedTrailer, Reject, Reading
  <2>4. CASE Head(wire[p]).n = Len(data[p])
    BY <1>8, <1>n, <2>1, <2>2, <2>4, BodyPreserves DEF FramedTrailer, Reading
  <2>5. QED
    BY <2>3, <2>4
<1>9. CASE FramedEof(p)
  BY <1>9, <1>t, RejectPreserves DEF FramedEof, Reject, Reading
<1>10. ASSUME rxd[p] \in {"sync", "chmod", "chown"}, rxd'[p] \in {"chmod", "chown", "rename"},
              UNCHANGED <<data, history, flushed, contents, rxVars, wire, link, answer>>,
              p \in synced' \cup unsynced',
              rxd'[p] = "chown" => ask[p].rights \ {"owner"} \subseteq perms'[p],
              rxd'[p] = "rename" => ask[p].rights \subseteq perms'[p]
       PROVE  PutOK(p)'
  <2>1. Whole(p)'
    BY <1>0, <1>10 DEF Staged, Late, Whole
  <2>2. InOrder(p)'
    BY <1>0, <1>10 DEF InOrder, Reading
  <2>3. Staged(p)'
    BY <1>10, <2>1 DEF Staged, Late
  <2>4. QED
    BY <1>0, <1>10, <2>2, <2>3, GoingOnPreserves DEF Quiet, Late
<1>11. CASE RxdSync(p)
  <2>1. /\ rxd[p] = "sync" /\ rxd'[p] = "chmod"
        /\ UNCHANGED <<data, history, flushed, contents, rxVars, wire, link, answer>>
    BY <1>11, <1>0 DEF RxdSync, RxdGoto, SyncTemp, PutTypeOK
  <2>2. p \in synced' \cup unsynced'
    BY <1>11 DEF RxdSync, SyncTemp
  <2>3. QED
    BY <1>10, <2>1, <2>2
<1>12. CASE RxdChmod(p)
  <2>1. CASE Fails(p, "chmod", "io_error")
    BY <1>12, <1>t, <2>1, RejectPreserves DEF RxdChmod, Fails, Reject, Late
  <2>2. CASE /\ "mode" \in ask[p].rights => "mode" \in perms'[p]
             /\ RxdGoto(p, "chown")
             /\ UNCHANGED <<data, history, flushed, contents, synced, answer, unsynced>>
    <3>1. rxd[p] = "chmod" /\ rxd'[p] = "chown" /\ UNCHANGED <<rxVars, wire, link>>
      BY <1>12, <2>2, <1>0 DEF RxdChmod, RxdGoto, PutTypeOK
    <3>2. p \in synced' \cup unsynced'
      BY <1>0, <2>2, <3>1 DEF Staged, Late
    <3>3. QED
      BY <1>0, <1>10, <2>2, <3>1, <3>2
  <2>3. "mode" \in (perms[p] \cup {"mode"})
    OBVIOUS
  <2>4. QED
    BY <1>12, <1>0, <2>1, <2>2 DEF RxdChmod, Grant, FileTypeOK
<1>13. CASE RxdChown(p)
  <2>1. CASE Fails(p, "chown", "unsupported")
    BY <1>13, <1>t, <2>1, RejectPreserves DEF RxdChown, Fails, Reject, Late
  <2>2. CASE /\ "owner" \in ask[p].rights => "owner" \in perms'[p]
             /\ perms[p] \subseteq perms'[p]
             /\ RxdGoto(p, "rename")
             /\ UNCHANGED <<data, history, flushed, contents, synced, answer, unsynced>>
    <3>1. rxd[p] = "chown" /\ rxd'[p] = "rename" /\ UNCHANGED <<rxVars, wire, link>>
      BY <1>13, <2>2, <1>0 DEF RxdChown, RxdGoto, PutTypeOK
    <3>2. p \in synced' \cup unsynced'
      BY <1>0, <2>2, <3>1 DEF Staged, Late
    <3>3. ask[p].rights \ {"owner"} \subseteq perms[p]
      BY <1>0, <3>1 DEF Staged
    <3>4. QED
      BY <1>0, <1>10, <2>2, <3>1, <3>2, <3>3
  <2>3. QED
    BY <1>13, <1>0, <2>1, <2>2 DEF RxdChown, Grant, FileTypeOK
<1>14. QED
  BY <1>1, <1>2, <1>3, <1>4, <1>5, <1>6, <1>7, <1>8, <1>9, <1>11, <1>12, <1>13 DEF RxdPut

\* The rename puts a whole file at the path.
LEMMA RenamePreserves ==
    ASSUME TypeOK, NEW p \in Putters, PutOK(p), RxdRename(p)
    PROVE  PutOK(p)'
<1>0. /\ FileTypeOK /\ PutTypeOK /\ rxd[p] = "rename" /\ UNCHANGED <<rxVars, wire, link>>
      /\ InOrder(p) /\ Quiet(p) /\ Staged(p) /\ Before(p) /\ Placed(p) /\ Answered(p)
  BY DEF TypeOK, PutOK, RxdRename
<1>1. CASE Fails(p, "rename", "io_error")
  BY <1>0, <1>1, RejectPreserves DEF Fails, Reject, Late, InOrder
<1>2. CASE RenameTemp(p) /\ RxdGoto(p, "syncdir") /\ UNCHANGED <<answer, unsynced>>
  <2>1. /\ rxd'[p] = "syncdir" /\ UNCHANGED <<data, perms, flushed, synced>> /\ p \notin temps'
    BY <1>0, <1>2 DEF RxdGoto, PutTypeOK, RenameTemp
  <2>2. OnPath(p)' /\ Installed(p)'
    BY <1>0, <1>2, RenameNames
  <2>3. Whole(p)' /\ Whole(p)
    BY <1>0, <2>1 DEF Staged, Late, Whole
  <2>4. answer[p] = "none" /\ result[p] # "refused" /\ rx[p] # "idle"
    BY <1>0 DEF Answered, Before
  <2>5. Before(p)' /\ InOrder(p)' /\ Quiet(p)'
    BY <1>0, <2>1, <2>4 DEF Before, InOrder, Quiet, Reading, Late
  <2>6. Staged(p)' /\ Placed(p)'
    BY <1>0, <1>2, <2>1, <2>2, <2>3 DEF Staged, Placed, Late
  <2>7. Answered(p)'
    BY <1>0, <1>2, <2>4 DEF Answered
  <2>8. QED
    BY <2>5, <2>6, <2>7 DEF PutOK
<1>3. QED
  BY <1>1, <1>2 DEF RxdRename

\* What is answered copied is on the disk, or its fsync failed.
LEMMA SyncDirectoryPreserves ==
    ASSUME TypeOK, NEW p \in Putters, PutOK(p), RxdSyncDirectory(p)
    PROVE  PutOK(p)'
<1>0. /\ FileTypeOK /\ PutTypeOK /\ rxd[p] = "syncdir" /\ UNCHANGED <<rxVars, wire, link>>
      /\ rxd'[p] = "gone" /\ answer'[p] = "copied"
      /\ UNCHANGED <<data, perms, synced, temps, contents>>
      /\ unsynced \subseteq unsynced'
  BY DEF TypeOK, PutTypeOK, RxdSyncDirectory, Answer, RxdGoto, SyncDirectory
<1>1. InOrder(p) /\ Quiet(p) /\ Staged(p) /\ Before(p) /\ Placed(p) /\ Answered(p)
  BY DEF PutOK
<1>2. OnPath(p) /\ Installed(p) /\ p \notin temps
  BY <1>0, <1>1 DEF Staged, Placed
<1>3. OnPath(p)' /\ Installed(p)' /\ (p \in unsynced' \/ Durable(p)')
  <2>1. CASE SyncDirectory
    BY <2>1, <1>0, <1>2, SyncNames
  <2>2. CASE UNCHANGED fileVars /\ unsynced' = unsynced \cup {p}
    BY <2>2, <1>2, SameNames
  <2>3. QED
    BY <2>1, <2>2 DEF RxdSyncDirectory
<1>4. Whole(p)' <=> Whole(p)
  BY <1>0 DEF Whole
<1>5. answer[p] = "none" /\ result[p] # "refused" /\ rx[p] # "idle"
  BY <1>0, <1>1 DEF Answered, Before
<1>6. Before(p)' /\ InOrder(p)' /\ Quiet(p)'
  BY <1>0, <1>1, <1>5 DEF Before, InOrder, Quiet, Reading, Late
<1>7. Staged(p)' /\ Placed(p)'
  BY <1>0, <1>1, <1>2, <1>3, <1>4 DEF Staged, Placed, Late
<1>8. Answered(p)'
  BY <1>0, <1>1, <1>2, <1>3, <1>5 DEF Answered
<1>9. QED
  BY <1>6, <1>7, <1>8 DEF PutOK

\* What is kept of a sequence is a prefix of it.
LEMMA KeptPrefix ==
    ASSUME NEW S, NEW s \in Seq(S), NEW n \in Nat, NEW t, t = Keep(s, n)
    PROVE  /\ t \in Seq(S) /\ Len(t) \in Nat /\ Len(t) <= Len(s)
           /\ \A i \in 1 .. Len(t) : t[i] = s[i]
<1>1. /\ Keep(s, n) \in Seq(S) /\ Len(Keep(s, n)) <= Len(s)
      /\ \A i \in 1 .. Len(Keep(s, n)) : Keep(s, n)[i] = s[i]
  BY ZenonT(60), KeepPrefix
<1>2. \A u \in Seq(S) : Len(u) \in Nat
  OBVIOUS
<1>3. Len(Keep(s, n)) \in Nat
  BY <1>1, <1>2, Zenon
<1>4. QED
  BY <1>1, <1>3, Zenon

\* A cut leaves a prefix of what was under way.
LEMMA CutPreserves ==
    ASSUME TypeOK, NEW p \in Putters, PutOK(p), Cut(p)
    PROVE  PutOK(p)'
<1>0. /\ PutTypeOK /\ wire[p] \in Seq(Tokens) /\ data[p] \in Seq(Nat) /\ p \in Files
      /\ UNCHANGED <<fileVars, rxVars, rxdVars>> /\ link'[p] = "cut"
      /\ rx[p] # "idle"
  BY DEF TypeOK, FileTypeOK, PutTypeOK, Cut
<1>1. InOrder(p) /\ Quiet(p) /\ Staged(p) /\ Before(p) /\ Placed(p) /\ Answered(p)
  BY DEF PutOK
<1>2. PICK n \in 0 .. Len(wire[p]) : wire'[p] = Keep(wire[p], n)
  BY <1>0 DEF Cut, PutTypeOK
<1>3. /\ OnPath(p)' <=> OnPath(p)
      /\ Installed(p)' <=> Installed(p)
      /\ Durable(p)' <=> Durable(p)
  BY <1>0, SameNames
<1>4. InOrder(p)'
  <2>1. /\ Len(wire'[p]) \in Nat /\ Len(wire'[p]) <= Len(wire[p])
        /\ \A i \in 1 .. Len(wire'[p]) : wire'[p][i] = wire[p][i]
    <3>1. n \in Nat
      BY <1>0, <1>2
    <3>2. QED
      BY <1>0, <1>2, <3>1, KeptPrefix
  <2>2. \A i \in 1 .. Len(wire'[p]) : i \in 1 .. Len(wire[p])
    BY <2>1, <1>0
  <2>3. rxd[p] \in Reading => Chain(wire'[p], Len(data[p]))
    BY <1>0, <1>1, <1>2, ChainKeep DEF InOrder
  <2>4. QED
    BY <1>0, <1>1, <2>1, <2>2, <2>3 DEF InOrder, Chain
<1>5. Whole(p)' <=> Whole(p)
  BY <1>0 DEF Whole
<1>6. Before(p)' /\ Quiet(p)' /\ Staged(p)' /\ Placed(p)' /\ Answered(p)'
  BY <1>0, <1>1, <1>3, <1>5 DEF Before, Quiet, Staged, Placed, Answered
<1>7. QED
  BY <1>4, <1>6 DEF PutOK

\* A killed rxd never answers.
LEMMA KillPreserves ==
    ASSUME TypeOK, NEW p \in Putters, PutOK(p), RxdKilled(p)
    PROVE  PutOK(p)'
<1>0. /\ UNCHANGED <<fileVars, rxVars, wire, link, answer, unsynced>>
      /\ rxd'[p] = "gone" /\ rxd[p] \notin {"idle", "gone"}
  BY DEF TypeOK, PutTypeOK, RxdKilled, RxdGoto
<1>1. InOrder(p) /\ Quiet(p) /\ Staged(p) /\ Before(p) /\ Placed(p) /\ Answered(p)
  BY DEF PutOK
<1>2. /\ OnPath(p)' <=> OnPath(p)
      /\ Installed(p)' <=> Installed(p)
      /\ Durable(p)' <=> Durable(p)
  BY <1>0, SameNames
<1>3. Whole(p)' <=> Whole(p)
  BY <1>0 DEF Whole
<1>4. Before(p)' /\ InOrder(p)' /\ Quiet(p)'
  BY <1>0, <1>1 DEF Before, InOrder, Quiet, Reading, Late
<1>5. Staged(p)' /\ Placed(p)' /\ Answered(p)'
  BY <1>0, <1>1, <1>2, <1>3 DEF Staged, Placed, Answered, Late
<1>6. QED
  BY <1>4, <1>5 DEF PutOK

\* A loss of power cuts files that were not synced, undoes renames that were
\* not durable, and ends every rxd.
LEMMA PowerPreserves ==
    ASSUME TypeOK, NEW p \in Putters, PutOK(p), PowerLoss
    PROVE  PutOK(p)'
<1>0. /\ FileTypeOK /\ p \in Files /\ data[p] \in Seq(Nat)
      /\ UNCHANGED <<rxVars, answer, unsynced, temps, perms, synced>>
      /\ rxd'[p] = (IF rx[p] = "idle" THEN "idle" ELSE "gone")
      /\ wire'[p] = <<>>
      /\ LosePower
  BY DEF TypeOK, FileTypeOK, PowerLoss, PutLosePower, LosePower
<1>1. InOrder(p) /\ Quiet(p) /\ Staged(p) /\ Before(p) /\ Placed(p) /\ Answered(p)
  BY DEF PutOK
<1>2. /\ OnPath(p)' => OnPath(p)
      /\ Installed(p)' <=> Installed(p)
      /\ Durable(p) => Durable(p)'
  BY <1>0, <1>1, PowerNames DEF Placed
<1>3. /\ data'[p] \in Seq(Nat) /\ Len(data'[p]) <= Len(data[p])
      /\ \A k \in 1 .. Len(data'[p]) : data'[p][k] = data[p][k]
      /\ p \in synced => data'[p] = data[p]
  <2>1. PICK kept \in 0 .. MaxLen :
          data' = [f \in Files |-> IF f \in synced THEN data[f] ELSE Keep(data[f], kept)]
    BY <1>0 DEF LosePower
  <2>2. kept \in Nat
    BY RemoteFileAssumption
  <2>3. CASE p \in synced
    BY <1>0, <2>1, <2>3
  <2>4. CASE p \notin synced
    <3>1. data'[p] = Keep(data[p], kept)
      BY <1>0, <2>1, <2>4
    <3>2. QED
      BY <1>0, <2>2, <2>4, <3>1, KeptPrefix
  <2>5. QED
    BY <2>3, <2>4
<1>4. Before(p)'
  <2>1. data[p] = <<>> => data'[p] = <<>>
    BY <1>0, <1>3
  <2>2. QED
    BY <1>0, <1>1, <2>1 DEF Before
<1>5. InOrder(p)'
  <2>1. \A k \in 1 .. Len(data'[p]) : k \in 1 .. Len(data[p])
    BY <1>0, <1>3
  <2>2. Len(wire'[p]) = 0
    BY <1>0
  <2>3. \A k \in 1 .. Len(data'[p]) : data'[p][k] = k
    BY <1>1, <1>3, <2>1 DEF InOrder
  <2>4. QED
    BY <1>0, <2>2, <2>3 DEF InOrder, Reading
<1>6. Quiet(p)'
  BY <1>0, <1>1 DEF Quiet, Late
<1>7. rx[p] = "idle" => rxd[p] = "idle" /\ ~Installed(p)
  BY <1>1 DEF Before, Placed
<1>8. Staged(p)'
  BY <1>0, <1>1, <1>7 DEF Staged, Late
<1>9. Placed(p)'
  <2>1. OnPath(p) /\ p \notin unsynced => Whole(p)'
    BY <1>0, <1>1, <1>3 DEF Placed, Whole
  <2>2. QED
    BY <1>0, <1>1, <1>2, <1>7, <2>1 DEF Placed
<1>10. Answered(p)'
  BY <1>0, <1>1, <1>2, <1>7 DEF Answered
<1>11. QED
  BY <1>4, <1>5, <1>6, <1>8, <1>9, <1>10 DEF PutOK

\* Gets, and other programs on the host, leave the puts alone.
LEMMA GetsDisturbNoPut ==
    ASSUME TypeOK, NEW p \in Putters, PutOK(p), GetNext, UNCHANGED putVars
    PROVE  PutOK(p)'
<1>1. p # Original /\ p \in Files /\ data \in [Files -> Seq(Nat)]
  BY RemoteFileAssumption DEF TypeOK, FileTypeOK
<1>2. CASE Edit
  <2>1. /\ data'[p] = data[p]
        /\ contents' = contents \cup {<<Original, data'[Original]>>}
        /\ UNCHANGED <<temps, perms, history, flushed, synced>>
    BY <1>1, <1>2 DEF Edit, EditFile
  <2>2. Installed(p)' <=> Installed(p)
    <3>1. <<Original, data'[Original]>>[1] = Original
      OBVIOUS
    <3>2. QED
      BY <1>1, <2>1, <3>1 DEF Installed
  <2>3. Undisturbed(p)
    BY <2>1, <2>2 DEF Undisturbed, OnPath, Durable
  <2>4. QED
    BY <2>3, UndisturbedStays
<1>3. CASE UNCHANGED fileVars
  BY <1>3, SameNames, UndisturbedStays DEF Undisturbed
<1>4. GetNext => Edit \/ UNCHANGED fileVars
  BY DEF GetNext, ServerGet, RxGet, ServerOpen, ServerSend, ServerSent, ServerRestat, ServerBroken,
         GetRequest, GetHeader, GetStage, GetReceive, GetShort, GetComplete, GetVerify, GetCommit,
         GetReap, GetCut, ServerKilled
<1>5. QED
  BY <1>2, <1>3, <1>4

-----------------------------------------------------------------------------
(* The theorems *)

\* The invariant is inductive.
LEMMA NextPuts == PutsOK /\ TypeOK' /\ [Next]_vars => PutsOK'
<1> SUFFICES ASSUME PutsOK, TypeOK', [Next]_vars, NEW p \in Putters
             PROVE  PutOK(p)'
  BY DEF PutsOK
<1>0. TypeOK /\ PutOK(p)
  BY DEF PutsOK
<1>1. CASE PutNext
  <2>1. PICK q \in Putters : RxPut(q) \/ RxdPut(q) \/ Cut(q) \/ RxdKilled(q)
    BY <1>1 DEF PutNext
  <2>2. CASE p # q
    BY <1>0, <2>1, <2>2, OthersUndisturbed, UndisturbedStays
  <2>3. CASE p = q
    BY <1>0, <2>1, <2>3, RxPreserves, RxdPreserves, RenamePreserves, SyncDirectoryPreserves,
       CutPreserves, KillPreserves
  <2>4. QED
    BY <2>2, <2>3
<1>2. CASE GetNext /\ UNCHANGED putVars
  BY <1>0, <1>2, GetsDisturbNoPut
<1>3. CASE PowerLoss
  BY <1>0, <1>3, PowerPreserves
<1>4. CASE UNCHANGED vars
  BY <1>0, <1>4, SameNames, UndisturbedStays DEF Undisturbed
<1>5. QED
  BY <1>1, <1>2, <1>3, <1>4 DEF Next, Finished

LEMMA PutsAlwaysOK == Spec => []PutsOK
<1>1. PutsOK /\ [Next]_vars /\ TypeOK' => PutsOK'
  BY NextPuts
<1>2. QED
  BY <1>1, InitPuts, TypeCorrect, PTL DEF Spec

\* Nothing half done is ever at the path: what is installed is whole, also
\* after a cut, a failure at any step, a kill or a loss of power.
THEOREM InstallsWhole == Spec => []InstalledIsWhole
<1>1. PutsOK => InstalledIsWhole
  <2> SUFFICES ASSUME PutsOK, NEW p \in Putters \ unsynced, p \in ToSet(history)
               PROVE  /\ data[p] = [k \in 1 .. Len(data[p]) |-> k]
                      /\ Whole(p) /\ ask[p].rights \subseteq perms[p]
    BY DEF InstalledIsWhole, Whole
  <2>1. Placed(p) /\ InOrder(p) /\ OnPath(p)
    BY DEF PutsOK, PutOK, OnPath
  <2>2. data[p] \in Seq(Nat) /\ \A k \in 1 .. Len(data[p]) : data[p][k] = k
    BY <2>1 DEF PutsOK, TypeOK, FileTypeOK, InOrder
  <2>3. data[p] = [k \in 1 .. Len(data[p]) |-> data[p][k]]
    BY <2>2
  <2>4. QED
    BY <2>1, <2>2, <2>3 DEF Placed
<1>2. QED
  BY <1>1, PutsAlwaysOK, PTL

\* What rx reports of a put is true of the host.
THEOREM ReportsTrue == Spec => []ReportsAreTrue
<1>1. PutsOK => ReportsAreTrue
  <2> SUFFICES ASSUME PutsOK, NEW p \in Putters
               PROVE  /\ result[p] = "copied" => Installed(p)
                      /\ result[p] \notin {"none", "copied", "transport", "io"} => ~Installed(p)
                      /\ result[p] \notin {"none", "transport"} => p \notin temps
    BY DEF ReportsAreTrue
  <2>1. Answered(p)
    BY DEF PutsOK, PutOK
  <2>2. QED
    BY <2>1 DEF Answered
<1>2. QED
  BY <1>1, PutsAlwaysOK, PTL

\* A put that was reported copied is on the disk.
THEOREM CopiedStays == Spec => []CopiedSurvives
<1>1. PutsOK => CopiedSurvives
  <2> SUFFICES ASSUME PutsOK, NEW p \in Putters \ unsynced, result[p] = "copied"
               PROVE  Durable(p)
    BY DEF CopiedSurvives, Durable
  <2>1. Answered(p)
    BY DEF PutsOK, PutOK
  <2>2. QED
    BY <2>1 DEF Answered
<1>2. QED
  BY <1>1, PutsAlwaysOK, PTL
=============================================================================
