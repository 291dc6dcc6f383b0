---------------------------- MODULE DaemonProofs ----------------------------
(***************************************************************************)
(* The local daemon, for any number of calls: types whatever the order of  *)
(* its calls, and what its files say when each call begins after the last  *)
(* has settled, with daemons that are killed at any moment.                *)
(***************************************************************************)
EXTENDS Daemon, TLAPS

USE DEF files, daemons, calls, vars, Goto, Tell, At

-----------------------------------------------------------------------------
(* Types *)

\* A connection more, or one less, in a listener's queue.
LEMMA ConnectType ==
    ASSUME TypeOK, NEW c \in Users \cup {Nobody}, Connect(c)
    PROVE  queue' \in [Users -> Seq(Users \cup {Nobody})]
<1>1. ASSUME NEW d \in Users PROVE queue'[d] \in Seq(Users \cup {Nobody})
  <2>1. queue[d] \in Seq(Users \cup {Nobody})
    BY DEF TypeOK
  <2>2. queue'[d] = queue[d] \/ queue'[d] = Append(queue[d], c)
    BY DEF TypeOK, Connect
  <2>3. QED
    BY <2>1, <2>2
<1>2. queue' = [d \in Users |-> queue'[d]]
  BY DEF TypeOK, Connect
<1>3. QED
  BY <1>1, <1>2

LEMMA ProbeType ==
    ASSUME TypeOK, Probe
    PROVE  queue' \in [Users -> Seq(Users \cup {Nobody})]
  BY ConnectType DEF Probe, TypeOK

LEMMA ResetType ==
    ASSUME TypeOK, NEW us, Reset(us)
    PROVE  conn' \in [Users -> {"none", "open", "sent", "accepted", "read", "wake", "reply",
                                "answered", "reset"}]
  BY DEF TypeOK, Reset

LEMMA EndsType ==
    ASSUME TypeOK, NEW d \in Users, NEW l \in {"gone", "killed"}, Ends(d, l)
    PROVE  TypeOK' \/ promised' \notin BOOLEAN
<1>1. conn' \in [Users -> {"none", "open", "sent", "accepted", "read", "wake", "reply",
                           "answered", "reset"}]
  BY ResetType DEF Ends
<1>2. queue' \in [Users -> Seq(Users \cup {Nobody})]
  BY DEF TypeOK, Ends
<1>3. QED
  BY <1>1, <1>2 DEF TypeOK, Ends, Dead

\* The types are an invariant.
LEMMA TypeStep == TypeOK /\ [Next]_vars => TypeOK'
<1> SUFFICES ASSUME TypeOK, [Next]_vars PROVE TypeOK'
  OBVIOUS
<1>1. ASSUME NEW u \in Users, Begin(u) PROVE TypeOK'
  BY <1>1 DEF TypeOK, Begin
<1>2. ASSUME NEW u \in Users, Start(u) PROVE TypeOK'
  <2>1. CASE StartExists(u)
    BY <2>1 DEF TypeOK, StartExists
  <2>2. CASE StartProbe(u)
    BY <2>2, ProbeType DEF TypeOK, StartProbe
  <2>3. CASE StartUnlink(u)
    BY <2>3 DEF TypeOK, StartUnlink
  <2>4. CASE StartFork(u)
    BY <2>4 DEF TypeOK, StartFork, Starting
  <2>5. CASE StartVerify(u)
    BY <2>5, ProbeType DEF TypeOK, StartVerify, Connects
  <2>6. QED
    BY <1>2, <2>1, <2>2, <2>3, <2>4, <2>5 DEF Start
<1>3. ASSUME NEW u \in Users, Send(u) PROVE TypeOK'
  <2>1. CASE Route(u)
    BY <2>1, ProbeType DEF TypeOK, Route
  <2>2. CASE SendConnect(u)
    BY <2>2, ConnectType DEF TypeOK, SendConnect
  <2>3. CASE SendWrite(u)
    BY <2>3 DEF TypeOK, SendWrite
  <2>4. CASE SendRead(u)
    BY <2>4 DEF TypeOK, SendRead
  <2>5. QED
    BY <1>3, <2>1, <2>2, <2>3, <2>4 DEF Send
<1>4. ASSUME NEW u \in Users, Handle(u) PROVE TypeOK'
  BY <1>4, ProbeType DEF TypeOK, Handle, HandlerAnswer, HandlerStop, HandlerWake, HandlerReply, Handled
<1>5. ASSUME NEW d \in Users, Serve(d) PROVE TypeOK'
  <2>1. CASE DaemonAccept(d)
    <3>1. queue' \in [Users -> Seq(Users \cup {Nobody})]
      BY <2>1 DEF TypeOK, DaemonAccept
    <3>2. conn' \in [Users -> {"none", "open", "sent", "accepted", "read", "wake", "reply",
                               "answered", "reset"}]
      BY <2>1 DEF TypeOK, DaemonAccept, Reset
    <3>3. QED
      BY <2>1, <3>1, <3>2 DEF TypeOK, DaemonAccept, Ending
  <2>2. CASE DaemonClose(d)
    <3>1. conn' \in [Users -> {"none", "open", "sent", "accepted", "read", "wake", "reply",
                               "answered", "reset"}]
      BY <2>2, ResetType DEF DaemonClose
    <3>2. queue' \in [Users -> Seq(Users \cup {Nobody})]
      BY <2>2 DEF TypeOK, DaemonClose
    <3>3. QED
      BY <2>2, <3>1, <3>2 DEF TypeOK, DaemonClose, Ending
  <2>3. CASE DaemonExit(d)
    BY <2>3, EndsType DEF DaemonExit, TypeOK
  <2>4. CASE DaemonWritePid(d) \/ DaemonBind(d) \/ DaemonListen(d) \/ DaemonChmod(d)
             \/ DaemonChmodFailed(d) \/ DaemonUnlinkSock(d) \/ DaemonUnlinkPid(d)
    BY <2>4 DEF TypeOK, DaemonWritePid, DaemonBind, DaemonListen, DaemonChmod,
                DaemonChmodFailed, DaemonUnlinkSock, DaemonUnlinkPid, Starting, Ending
  <2>5. QED
    BY <1>5, <2>1, <2>2, <2>3, <2>4 DEF Serve
<1>6. ASSUME NEW d \in Users, DaemonKilled(d) PROVE TypeOK'
  BY <1>6, EndsType DEF DaemonKilled
<1>7. CASE Finished \/ UNCHANGED vars
  BY <1>7 DEF TypeOK, Finished
<1>8. QED
  BY <1>1, <1>2, <1>3, <1>4, <1>5, <1>6, <1>7 DEF Next

\* Every variable keeps its type, in whatever order calls come.
THEOREM TypeCorrect == Spec => []TypeOK
<1>1. Init => TypeOK
  <2>1. Init => queue \in [Users -> Seq(Users \cup {Nobody})]
    BY DEF Init
  <2>2. Init => /\ daemon \in [Users -> Starting \cup {"accept"} \cup Ending \cup Dead]
                /\ call \in [Users -> {"idle", "exists", "probe", "unlink", "fork", "verify",
                                       "route", "connect", "write", "wait", "done"}]
    BY DEF Init, Dead
  <2>3. Init => /\ conn \in [Users -> {"none", "open", "sent", "accepted", "read", "wake", "reply",
                                       "answered", "reset"}]
                /\ told \in [Users -> {"none", "already", "started", "failed", "direct",
                                       "not_running", "ok", "error"}]
    BY DEF Init
  <2>4. Init => /\ op \in [Users -> Ops \cup {"none"}] /\ stop \in [Users -> BOOLEAN]
                /\ server \in [Users -> Users \cup {Nobody}]
    BY DEF Init
  <2>5. QED
    BY <2>1, <2>2, <2>3, <2>4 DEF Init, TypeOK
<1>2. QED
  BY <1>1, TypeStep, PTL DEF Spec

-----------------------------------------------------------------------------
(* Connections *)

\* Only a call that writes or waits has a connection.
Connected == \A u \in Users : conn[u] # "none" => call[u] \in {"write", "wait"}

\* A connection that a listener holds is that of a call connected to its
\* daemon, which nobody has accepted, and it holds it once.
Held(d) == \A i \in 1 .. Len(queue[d]) : queue[d][i] # Nobody =>
    /\ server[queue[d][i]] = d
    /\ conn[queue[d][i]] \in {"open", "sent"}
    /\ \A j \in 1 .. Len(queue[d]) : queue[d][j] = queue[d][i] => j = i

QueuesOK == Connected /\ \A d \in Users : Held(d)

\* A queue that grows or stays.
LEMMA HeldGrows ==
    ASSUME TypeOK, NEW d \in Users, Held(d), NEW c \in Users \cup {Nobody},
           queue'[d] = queue[d] \/ queue'[d] = Append(queue[d], c),
           c # Nobody /\ queue'[d] # queue[d] =>
              /\ \A i \in 1 .. Len(queue[d]) : queue[d][i] # c
              /\ server'[c] = d /\ conn'[c] \in {"open", "sent"},
           \A i \in 1 .. Len(queue[d]) : queue[d][i] # Nobody =>
              /\ server'[queue[d][i]] = server[queue[d][i]]
              /\ conn[queue[d][i]] \in {"open", "sent"} => conn'[queue[d][i]] \in {"open", "sent"}
    PROVE  Held(d)'
<1> DEFINE old == queue[d]
           new == queue'[d]
           n   == Len(old)
<1>1. old \in Seq(Users \cup {Nobody}) /\ n \in Nat
  BY DEF TypeOK
<1>2. CASE new = old
  BY <1>2 DEF Held
<1>3. CASE new = Append(old, c) /\ new # old
  <2>1. /\ Len(new) = n + 1 /\ new[n + 1] = c
        /\ \A i \in 1 .. n : new[i] = old[i]
    <3> HIDE DEF old, new
    <3>1. QED
      BY ONLY <1>1, <1>3 DEF n
  <2>2. ASSUME NEW i \in 1 .. Len(new), new[i] # Nobody
        PROVE  /\ server'[new[i]] = d
               /\ conn'[new[i]] \in {"open", "sent"}
               /\ \A j \in 1 .. Len(new) : new[j] = new[i] => j = i
    <3>1. CASE i \in 1 .. n
      <4>1. \A j \in 1 .. n : new[j] = new[i] => j = i
        BY <2>1, <2>2, <3>1 DEF Held
      <4>2. c # new[i]
        BY <1>3, <2>1, <2>2, <3>1
      <4>3. server'[new[i]] = d /\ conn'[new[i]] \in {"open", "sent"}
        BY <2>1, <2>2, <3>1 DEF Held
      <4>4. QED
        BY <1>1, <2>1, <4>1, <4>2, <4>3
    <3>2. CASE i = n + 1
      <4>1. \A j \in 1 .. n : new[j] # c
        BY <1>3, <2>1, <2>2, <3>2
      <4>2. QED
        BY <1>1, <1>3, <2>1, <2>2, <3>2, <4>1
    <3>3. QED
      BY <1>1, <2>1, <3>1, <3>2
  <2>3. QED
    BY <2>2 DEF Held
<1>4. QED
  BY <1>2, <1>3

\* A queue that stays, whose calls stay where they are.
LEMMA HeldStays ==
    ASSUME TypeOK, NEW d \in Users, Held(d), queue'[d] = queue[d],
           \A i \in 1 .. Len(queue[d]) : queue[d][i] # Nobody =>
              /\ server'[queue[d][i]] = server[queue[d][i]]
              /\ conn[queue[d][i]] \in {"open", "sent"} => conn'[queue[d][i]] \in {"open", "sent"}
    PROVE  Held(d)'
  BY DEF Held

\* A probe adds nobody's connection.
LEMMA ProbeHeld ==
    ASSUME TypeOK, QueuesOK, Probe, UNCHANGED <<server, conn>>
    PROVE  \A d \in Users : Held(d)'
<1> SUFFICES ASSUME NEW d \in Users PROVE Held(d)'
  OBVIOUS
<1>1. queue'[d] = queue[d] \/ queue'[d] = Append(queue[d], Nobody)
  BY DEF Probe, Connect, TypeOK
<1>2. QED
  BY <1>1, HeldGrows DEF QueuesOK

\* The queues are in order, in whatever order calls come.
LEMMA NextQueues == TypeOK /\ QueuesOK /\ [Next]_vars => QueuesOK'
<1> SUFFICES ASSUME TypeOK, QueuesOK, [Next]_vars PROVE QueuesOK'
  OBVIOUS
<1>0. /\ Connected /\ \A d \in Users : Held(d)
      /\ \A d \in Users : \A i \in 1 .. Len(queue[d]) : queue[d][i] \in Users \cup {Nobody}
  BY DEF QueuesOK, TypeOK
<1>1. ASSUME NEW u \in Users, Begin(u) PROVE QueuesOK'
  <2>1. Connected'
    BY <1>0, <1>1 DEF Begin, Connected, TypeOK
  <2>2. \A d \in Users : Held(d)'
    BY <1>0, <1>1, HeldStays DEF Begin
  <2>3. QED
    BY <2>1, <2>2 DEF QueuesOK
<1>2. ASSUME NEW u \in Users, StartExists(u) \/ StartUnlink(u) \/ StartFork(u) PROVE QueuesOK'
  <2>1. Connected'
    BY <1>0, <1>2 DEF StartExists, StartUnlink, StartFork, Connected, TypeOK
  <2>2. \A d \in Users : Held(d)'
    BY <1>0, <1>2, HeldStays DEF StartExists, StartUnlink, StartFork
  <2>3. QED
    BY <2>1, <2>2 DEF QueuesOK
<1>3. ASSUME NEW u \in Users, StartProbe(u) \/ StartVerify(u) \/ Route(u) PROVE QueuesOK'
  <2>1. Connected'
    BY <1>0, <1>3 DEF StartProbe, StartVerify, Route, Connected, TypeOK
  <2>2. \A d \in Users : Held(d)'
    BY <1>0, <1>3, ProbeHeld DEF StartProbe, StartVerify, Route
  <2>3. QED
    BY <2>1, <2>2 DEF QueuesOK
<1>4. ASSUME NEW u \in Users, SendConnect(u) PROVE QueuesOK'
  <2>1. call[u] = "connect" /\ conn[u] = "none"
    BY <1>0, <1>4 DEF SendConnect, Connected, TypeOK
  <2>2. CASE Connects
    <3>1. /\ queue' = [queue EXCEPT ![sock] = Append(@, u)] /\ server' = [server EXCEPT ![u] = sock]
          /\ conn' = [conn EXCEPT ![u] = "open"] /\ call' = [call EXCEPT ![u] = "write"]
      BY <1>4, <2>2 DEF SendConnect, Connect
    <3>2. Connected'
      BY <1>0, <3>1 DEF Connected, TypeOK
    <3>3. ASSUME NEW d \in Users PROVE Held(d)'
      <4>1. \A i \in 1 .. Len(queue[d]) : queue[d][i] # u
        BY <1>0, <2>1, DaemonAssumption DEF Held
      <4>2. /\ queue'[d] = queue[d] \/ queue'[d] = Append(queue[d], u)
            /\ queue'[d] # queue[d] => d = sock
        BY <3>1 DEF TypeOK
      <4>3. \A i \in 1 .. Len(queue[d]) : queue[d][i] # Nobody =>
               server'[queue[d][i]] = server[queue[d][i]] /\ conn'[queue[d][i]] = conn[queue[d][i]]
        BY <1>0, <3>1, <4>1 DEF TypeOK
      <4>4. queue'[d] # queue[d] => server'[u] = d /\ conn'[u] = "open"
        BY <3>1, <4>2 DEF TypeOK
      <4>5. QED
        BY <1>0, <4>1, <4>2, <4>3, <4>4, HeldGrows
    <3>4. QED
      BY <3>2, <3>3 DEF QueuesOK
  <2>3. CASE ~Connects
    <3>1. Connected'
      BY <1>0, <1>4, <2>3, <2>1 DEF SendConnect, Connected, TypeOK
    <3>2. \A d \in Users : Held(d)'
      BY <1>0, <1>4, <2>3, HeldStays DEF SendConnect
    <3>3. QED
      BY <3>1, <3>2 DEF QueuesOK
  <2>4. QED
    BY <2>2, <2>3
<1>5. ASSUME NEW u \in Users,
             SendWrite(u) \/ SendRead(u) \/ HandlerAnswer(u) \/ HandlerStop(u) \/ HandlerReply(u)
      PROVE  QueuesOK'
  <2>1. Connected'
    BY <1>0, <1>5 DEF SendWrite, SendRead, HandlerAnswer, HandlerStop, HandlerReply, Handled,
                      Connected, TypeOK
  <2>2. /\ queue' = queue
        /\ \A v \in Users : conn[v] \in {"open", "sent"} =>
              conn'[v] \in {"open", "sent"} /\ server'[v] = server[v]
    BY <1>5 DEF SendWrite, SendRead, HandlerAnswer, HandlerStop, HandlerReply, Handled, TypeOK
  <2>3. ASSUME NEW d \in Users PROVE Held(d)'
    <3>1. \A i \in 1 .. Len(queue[d]) : queue[d][i] # Nobody => conn[queue[d][i]] \in {"open", "sent"}
      BY <1>0 DEF Held
    <3>2. QED
      BY <1>0, <2>2, <3>1, HeldStays
  <2>4. QED
    BY <2>1, <2>3 DEF QueuesOK
<1>6. ASSUME NEW u \in Users, HandlerWake(u) PROVE QueuesOK'
  <2>1. Connected'
    BY <1>0, <1>6 DEF HandlerWake, Handled, Connected, TypeOK
  <2>2. conn[u] = "wake" /\ conn' = [conn EXCEPT ![u] = "reply"] /\ Probe /\ UNCHANGED server
    BY <1>6 DEF HandlerWake, Handled
  <2>3. ASSUME NEW d \in Users PROVE Held(d)'
    <3>1. queue'[d] = queue[d] \/ queue'[d] = Append(queue[d], Nobody)
      BY <2>2 DEF Probe, Connect, TypeOK
    <3>2. \A v \in Users : conn[v] # "wake" => conn'[v] = conn[v]
      BY <2>2 DEF TypeOK
    <3>3. \A i \in 1 .. Len(queue[d]) : queue[d][i] # Nobody => conn'[queue[d][i]] = conn[queue[d][i]]
      BY <1>0, <3>2 DEF Held
    <3>4. QED
      BY <1>0, <2>2, <3>1, <3>3, HeldGrows
  <2>4. QED
    BY <2>1, <2>3 DEF QueuesOK
<1>7. ASSUME NEW d \in Users,
             \/ DaemonWritePid(d) \/ DaemonBind(d) \/ DaemonListen(d) \/ DaemonChmod(d)
             \/ DaemonChmodFailed(d) \/ DaemonUnlinkSock(d) \/ DaemonUnlinkPid(d)
      PROVE  QueuesOK'
  <2>1. UNCHANGED <<queue, call, server, conn>>
    BY <1>7 DEF DaemonWritePid, DaemonBind, DaemonListen, DaemonChmod, DaemonChmodFailed,
                DaemonUnlinkSock, DaemonUnlinkPid
  <2>2. \A e \in Users : Held(e)'
    BY <1>0, <2>1, HeldStays
  <2>3. QED
    BY <1>0, <2>1, <2>2 DEF QueuesOK, Connected
\* Connections to d that are reset, and its queue that is dropped.
<1>8. ASSUME NEW d \in Users, queue' = [queue EXCEPT ![d] = <<>>], UNCHANGED <<call, server>>,
             NEW us, Reset(us), \A u \in us \cap Users : server[u] = d
      PROVE  QueuesOK'
  <2>1. \A u \in Users : /\ conn'[u] # "none" => conn[u] # "none"
                         /\ server[u] # d => conn'[u] = conn[u]
    BY <1>8 DEF Reset, TypeOK
  <2>2. ASSUME NEW e \in Users PROVE Held(e)'
    <3>1. CASE e = d
      BY <1>8, <3>1 DEF Held, TypeOK
    <3>2. CASE e # d
      <4>1. queue'[e] = queue[e]
        BY <1>8, <3>2 DEF TypeOK
      <4>2. \A i \in 1 .. Len(queue[e]) : queue[e][i] # Nobody => conn'[queue[e][i]] = conn[queue[e][i]]
        BY <1>0, <2>1, <3>2 DEF Held
      <4>3. QED
        BY <1>0, <1>8, <4>1, <4>2, HeldStays
    <3>3. QED
      BY <3>1, <3>2
  <2>3. QED
    BY <1>0, <1>8, <2>1, <2>2 DEF QueuesOK, Connected
<1>9. ASSUME NEW d \in Users, DaemonClose(d) PROVE QueuesOK'
  <2> DEFINE us == {queue[d][i] : i \in 1 .. Len(queue[d])}
  <2>1. \A u \in us \cap Users : server[u] = d
    BY <1>0, DaemonAssumption DEF Held
  <2>2. QED
    BY <1>8, <1>9, <2>1 DEF DaemonClose
<1>10. ASSUME NEW d \in Users, DaemonExit(d) \/ DaemonKilled(d) PROVE QueuesOK'
  BY <1>8, <1>10 DEF DaemonExit, DaemonKilled, Ends
<1>11. ASSUME NEW d \in Users, DaemonAccept(d) PROVE QueuesOK'
  <2> DEFINE old == queue[d]
             c   == Head(old)
  <2>0. /\ old \in Seq(Users \cup {Nobody}) /\ old # <<>>
        /\ queue' = [queue EXCEPT ![d] = Tail(old)] /\ UNCHANGED <<call, server>>
    BY <1>11 DEF DaemonAccept, TypeOK
  <2>1. \A u \in Users : u # c => conn'[u] = conn[u]
    BY <1>11 DEF DaemonAccept, Reset
  <2>2. /\ Len(Tail(old)) = Len(old) - 1 /\ c = old[1] /\ Len(old) \in Nat /\ Len(old) >= 1
        /\ \A i \in 1 .. Len(Tail(old)) : Tail(old)[i] = old[i + 1]
    <3> HIDE DEF old
    <3>1. old \in Seq(Users \cup {Nobody}) /\ old # <<>>
      BY <2>0
    <3>2. Len(old) \in Nat \ {0} /\ Tail(old) \in Seq(Users \cup {Nobody})
      BY ONLY <3>1
    <3>3. Len(Tail(old)) = Len(old) - 1 /\ c = old[1]
      BY ONLY <3>1
    <3>4. \A i \in 1 .. Len(old) - 1 : Tail(old)[i] = old[i + 1]
      BY ONLY <3>1
    <3>5. QED
      BY <3>2, <3>3, <3>4
  <2>3. c # Nobody => c \in Users /\ server[c] = d /\ conn[c] \in {"open", "sent"}
    BY <1>0, <2>2 DEF Held
  <2>4. Connected'
    BY <1>0, <2>0, <2>1, <2>3, DaemonAssumption DEF Connected
  <2>5. ASSUME NEW e \in Users PROVE Held(e)'
    <3>1. CASE e # d
      <4>1. queue'[e] = queue[e]
        BY <2>0, <3>1 DEF TypeOK
      <4>2. \A i \in 1 .. Len(queue[e]) : queue[e][i] # Nobody => queue[e][i] # c
        BY <1>0, <2>3, <3>1 DEF Held
      <4>3. \A i \in 1 .. Len(queue[e]) : queue[e][i] # Nobody => conn'[queue[e][i]] = conn[queue[e][i]]
        BY <1>0, <2>1, <4>2
      <4>4. QED
        BY <1>0, <2>0, <4>1, <4>3, HeldStays
    <3>2. CASE e = d
      <4>1. queue'[d] = Tail(old)
        BY <2>0 DEF TypeOK
      <4>2. ASSUME NEW i \in 1 .. Len(Tail(old)), Tail(old)[i] # Nobody
            PROVE  /\ server'[Tail(old)[i]] = d
                   /\ conn'[Tail(old)[i]] \in {"open", "sent"}
                   /\ \A j \in 1 .. Len(Tail(old)) : Tail(old)[j] = Tail(old)[i] => j = i
        <5>1. i + 1 \in 1 .. Len(old) /\ 1 \in 1 .. Len(old) /\ i + 1 # 1 /\ Tail(old)[i] = old[i + 1]
          BY <2>2
        <5>2. /\ server[old[i + 1]] = d /\ conn[old[i + 1]] \in {"open", "sent"}
              /\ \A j \in 1 .. Len(old) : old[j] = old[i + 1] => j = i + 1
          BY <1>0, <4>2, <5>1 DEF Held
        <5>3. old[i + 1] # c /\ old[i + 1] \in Users
          BY <1>0, <2>2, <4>2, <5>1, <5>2
        <5>4. \A j \in 1 .. Len(Tail(old)) : Tail(old)[j] = Tail(old)[i] => j = i
          <6>1. ASSUME NEW j \in 1 .. Len(Tail(old)), Tail(old)[j] = Tail(old)[i]
                PROVE  j = i
            <7>1. j + 1 \in 1 .. Len(old) /\ Tail(old)[j] = old[j + 1]
              BY <2>2
            <7>2. j + 1 = i + 1
              BY <5>1, <5>2, <6>1, <7>1
            <7>3. QED
              BY <2>2, <7>2
          <6>2. QED
            BY <6>1
        <5>5. QED
          BY <2>0, <2>1, <5>1, <5>2, <5>3, <5>4
      <4>3. QED
        BY <3>2, <4>1, <4>2 DEF Held
    <3>3. QED
      BY <3>1, <3>2
  <2>6. QED
    BY <2>4, <2>5 DEF QueuesOK
<1>12. CASE Finished \/ UNCHANGED vars
  BY <1>0, <1>12, HeldStays DEF Finished, QueuesOK, Connected
<1>13. QED
  BY <1>1, <1>2, <1>3, <1>4, <1>5, <1>6, <1>7, <1>9, <1>10, <1>11, <1>12
     DEF Next, Start, Send, Handle, Serve

LEMMA AlwaysQueuesOK == Spec => []QueuesOK
<1>1. Init => QueuesOK
  BY DEF Init, QueuesOK, Connected, Held
<1>2. QED
  BY <1>1, NextQueues, TypeCorrect, PTL DEF Spec

-----------------------------------------------------------------------------
(* The inductive invariant of calls that settle *)

Alive(d)  == daemon[d] \notin Dead
Active(u) == call[u] \notin {"idle", "done"}

\* One call at a time, and one daemon.
Alone ==
    /\ \A u, v \in Users : Active(u) /\ Active(v) => u = v
    /\ \A d, e \in Users : Alive(d) /\ Alive(e) => d = e

\* How far a call, its connection and its daemon have got, against each other.
InStep(u) ==
    /\ daemon[u] # "unborn" => call[u] \in {"verify", "done"}
    /\ told[u] # "none" => call[u] = "done"
    /\ stop[u] => call[u] = "done"
    /\ call[u] \in {"exists", "probe", "unlink", "fork", "verify"} => op[u] = "start"
    /\ server[u] # Nobody => server[u] # u /\ daemon[server[u]] # "unborn"

\* What daemons do while a call starts one.
Beside(u) ==
    /\ call[u] \in {"exists", "probe"} => \A d \in Users : Alive(d) => Running(d)
    /\ call[u] \in {"unlink", "fork"} => \A d \in Users : ~Alive(d)
    /\ call[u] = "fork" => sock = Nobody
    /\ call[u] = "verify" => \A d \in Users : Alive(d) => d = u
    /\ call[u] = "verify" /\ daemon[u] \in Ending \cup {"gone"} => "chmod" \in Faults

\* Which daemons the files name, and which they must.
Named(d) ==
    /\ daemon[d] \in {"write_pid", "bind"} => sock = Nobody
    /\ daemon[d] \in {"listen", "chmod", "accept"} => sock = d
    /\ daemon[d] \in {"bind", "listen", "chmod", "accept", "chmod_failed", "close",
                      "unlink_sock", "unlink_pid"} => pidfile = d
    /\ sock = d => daemon[d] \in {"listen", "chmod", "accept", "chmod_failed", "close",
                                  "unlink_sock", "killed"}
    /\ pidfile = d => daemon[d] \in {"bind", "listen", "chmod", "accept", "chmod_failed",
                                     "close", "unlink_sock", "unlink_pid", "killed"}

\* What a start has promised.
Kept ==
    /\ promised => \A u \in Users : op[u] = "stop" => ~Active(u)
    /\ "chmod" \notin Faults /\ promised => sock # Nobody /\ Running(sock)

Replaced(u) == told[u] = "failed" => daemon[u] \in {"unborn", "killed"} \/ "chmod" \in Faults

\* The inductive invariant.
SettledOK == manners = "settled" =>
    /\ Alone
    /\ \A u \in Users : InStep(u) /\ Beside(u) /\ Named(u) /\ Replaced(u)
    /\ Kept

-----------------------------------------------------------------------------
(* Every step keeps it *)

USE DEF Dead, Starting, Ending

LEMMA InitSettled == Init => SettledOK
  BY DaemonAssumption DEF Init, SettledOK, Alone, InStep, Beside, Named, Replaced, Kept, Alive, Active

\* A step of a call that leaves the files and the daemons alone.
LEMMA CallSettled ==
    ASSUME TypeOK, SettledOK, manners = "settled", NEW u \in Users, Active(u),
           UNCHANGED <<manners, sock, pidfile, daemon, stop, op>>,
           \A v \in Users \ {u} :
              /\ call'[v] = call[v] /\ conn'[v] = conn[v]
              /\ told'[v] = told[v] /\ server'[v] = server[v],
           InStep(u)', Beside(u)', Replaced(u)',
           promised' # promised => op[u] = "start" /\
              ("chmod" \notin Faults => sock # Nobody /\ Running(sock))
    PROVE  SettledOK'
<1> USE DEF SettledOK
<1>1. /\ \A v \in Users : Active(v)' => Active(v)
      /\ \A v \in Users : Alive(v)' <=> Alive(v)
      /\ \A v : Running(v)' <=> Running(v)
  BY DEF Active, Alive, Running
<1>2. Alone'
  BY <1>1 DEF Alone
<1>3. ASSUME NEW v \in Users PROVE InStep(v)' /\ Beside(v)' /\ Named(v)' /\ Replaced(v)'
  <2>1. Named(v)'
    BY DEF Named
  <2>2. CASE v # u
    BY <1>1, <2>1, <2>2 DEF InStep, Beside, Replaced
  <2>3. QED
    BY <2>1, <2>2
<1>4. Kept'
  BY <1>1 DEF Kept, Alone
<1>5. QED
  BY <1>2, <1>3, <1>4

\* A step of a daemon.
LEMMA ServeSettled ==
    ASSUME TypeOK, SettledOK, manners = "settled", NEW d \in Users, Alive(d),
           UNCHANGED <<manners, stop, call, op, server, told>>,
           daemon'[d] # "unborn", \A e \in Users \ {d} : daemon'[e] = daemon[e],
           sock' \in {sock, d, Nobody}, pidfile' \in {pidfile, d, Nobody}, Named(d)',
           call[d] = "verify" /\ daemon'[d] \in Ending \cup {"gone"} => "chmod" \in Faults,
           Running(d) => daemon'[d] \in {"accept", "killed"},
           promised' => promised /\ daemon'[d] # "killed"
    PROVE  SettledOK'
<1> USE DEF SettledOK
<1>1. /\ \A u \in Users : Active(u)' <=> Active(u)
      /\ \A e \in Users : Alive(e)' => e = d
      /\ Running(d) => Running(d)' \/ ~Alive(d)'
      /\ \A e \in Users \ {d} : daemon[e] \in Dead
  BY DEF Active, Alive, Running, Alone
<1>2. Alone'
  BY <1>1 DEF Alone
<1>3. ASSUME NEW v \in Users PROVE InStep(v)'
  BY DEF InStep, TypeOK, Alive
<1>4. ASSUME NEW v \in Users PROVE Beside(v)'
  BY <1>1, <1>3 DEF Beside, Alone, Alive
<1>5. ASSUME NEW v \in Users PROVE Named(v)'
  BY <1>1, DaemonAssumption DEF Named
<1>6. ASSUME NEW v \in Users PROVE Replaced(v)'
  BY <1>1 DEF Replaced, Alive
<1>7. Kept'
  <2>1. promised' => \A u \in Users : op[u] = "stop" => ~Active(u)
    BY DEF Kept
  <2>2. ASSUME promised', "chmod" \notin Faults
        PROVE  (sock # Nobody /\ Running(sock))'
    <3>1. sock = d /\ Running(d)
      BY <1>1, <2>2 DEF Kept, TypeOK, Running
    <3>2. daemon'[d] = "accept" /\ stop'[d] = FALSE
      BY <2>2, <3>1 DEF Running, TypeOK
    <3>3. QED
      BY <3>2, DaemonAssumption DEF Named, Running
  <2>3. QED
    BY <1>1, <2>1, <2>2 DEF Kept
<1>8. QED
  BY <1>2, <1>3, <1>4, <1>5, <1>6, <1>7

LEMMA BeginSettled ==
    ASSUME TypeOK, SettledOK, manners = "settled", NEW u \in Users, Begin(u)
    PROVE  SettledOK'
<1>1. /\ call[u] = "idle" /\ \A v \in Users : ~Active(v)
      /\ \A d \in Users : Alive(d) => Running(d)
  BY DEF Begin, Polite, Active, Alive, Running
<1>2. PICK o \in Ops :
        /\ op' = [op EXCEPT ![u] = o]
        /\ call' = [call EXCEPT ![u] = IF o = "start" THEN "exists" ELSE IF o = "request" THEN "route" ELSE "connect"]
        /\ promised' = (promised /\ o # "stop")
  BY DEF Begin
<1>3. UNCHANGED <<manners, sock, pidfile, daemon, stop, queue, server, conn, told>>
  BY DEF Begin
<1>4. Alone'
  BY <1>1, <1>2, <1>3 DEF SettledOK, TypeOK, Alone, Active, Alive
<1>5. ASSUME NEW v \in Users PROVE InStep(v)' /\ Beside(v)' /\ Named(v)' /\ Replaced(v)'
  BY <1>1, <1>2, <1>3 DEF SettledOK, TypeOK, InStep, Beside, Named, Replaced, Alive, Active, Running
<1>6. Kept'
  BY <1>1, <1>2, <1>3 DEF SettledOK, TypeOK, Kept, Active, Running
<1>7. QED
  BY <1>4, <1>5, <1>6 DEF SettledOK

LEMMA CallsSettled ==
    ASSUME TypeOK, SettledOK, manners = "settled", NEW c \in Users,
           Start(c) \/ Send(c) \/ Handle(c), Connected
    PROVE  SettledOK'
<1>1. ASSUME NEW u \in Users, StartExists(u) PROVE SettledOK'
  <2> USE <1>1 DEF StartExists, TypeOK
  <2>1. Active(u)
    BY DEF SettledOK, InStep, Active
  <2>2. InStep(u)' /\ Replaced(u)'
    BY DEF SettledOK, InStep, Named, Beside, Replaced
  <2>3. \A d \in Users : Alive(d) => Running(d) /\ sock = d
    BY DEF SettledOK, Beside, Named, Running
  <2>4. Beside(u)'
    BY <2>3, DaemonAssumption DEF Beside, Alive, Running
  <2>5. QED
    BY <2>1, <2>2, <2>4, CallSettled DEF SettledOK, InStep, Beside, Named, Alive, Running
<1>2. ASSUME NEW u \in Users, StartProbe(u) PROVE SettledOK'
  <2>0. /\ call[u] = "probe" /\ Active(u) /\ op[u] = "start" /\ told[u] = "none"
        /\ UNCHANGED <<manners, files, daemon, stop, op, server, conn>>
    BY <1>2 DEF StartProbe, SettledOK, InStep, Active, TypeOK
  <2>1. \A d \in Users : Alive(d) => Running(d) /\ sock = d
    BY <2>0 DEF SettledOK, Beside, Named, Running
  <2>2. Connects <=> sock \in Users /\ daemon[sock] \in {"chmod", "accept", "chmod_failed", "close"}
    BY DEF Connects, Listening
  <2>3. CASE Connects
    <3>1. /\ call' = [call EXCEPT ![u] = "done"] /\ told' = [told EXCEPT ![u] = "already"]
          /\ promised' = TRUE
      BY <1>2, <2>3 DEF StartProbe
    <3>2. sock # Nobody /\ Running(sock)
      BY <2>1, <2>2, <2>3, DaemonAssumption DEF Alive
    <3>3. InStep(u)' /\ Beside(u)' /\ Replaced(u)'
      BY <2>0, <3>1 DEF SettledOK, TypeOK, InStep, Beside, Replaced
    <3>4. QED
      BY <2>0, <3>1, <3>2, <3>3, CallSettled DEF TypeOK
  <2>4. CASE ~Connects
    <3>1. call' = [call EXCEPT ![u] = "unlink"] /\ UNCHANGED <<told, promised>>
      BY <1>2, <2>4 DEF StartProbe
    <3>2. \A d \in Users : ~Alive(d)
      BY <2>1, <2>2, <2>4 DEF Running
    <3>3. InStep(u)' /\ Replaced(u)'
      BY <2>0, <3>1 DEF SettledOK, TypeOK, InStep, Replaced
    <3>4. Beside(u)'
      BY <2>0, <3>1, <3>2 DEF TypeOK, Beside, Alive
    <3>5. QED
      BY <2>0, <3>1, <3>3, <3>4, CallSettled DEF TypeOK
  <2>5. QED
    BY <2>3, <2>4
<1>3. ASSUME NEW u \in Users, Route(u) PROVE SettledOK'
  <2>0. /\ call[u] = "route" /\ Active(u) /\ daemon[u] = "unborn"
        /\ told[u] = "none" /\ ~stop[u]
        /\ UNCHANGED <<manners, files, daemon, stop, op, server, conn, promised>>
    BY <1>3 DEF Route, SettledOK, InStep, Active, TypeOK
  <2>1. \/ call' = [call EXCEPT ![u] = "connect"] /\ UNCHANGED told
        \/ call' = [call EXCEPT ![u] = "done"] /\ told' = [told EXCEPT ![u] = "direct"]
    BY <1>3 DEF Route
  <2>2. InStep(u)'
    BY <2>0, <2>1 DEF SettledOK, TypeOK, InStep
  <2>3. Beside(u)' /\ Replaced(u)'
    BY <2>0, <2>1 DEF TypeOK, Beside, Replaced
  <2>4. QED
    BY <2>0, <2>1, <2>2, <2>3, CallSettled DEF TypeOK
<1>4. ASSUME NEW u \in Users, SendConnect(u) PROVE SettledOK'
  <2> USE <1>4 DEF SendConnect, TypeOK
  <2>0. Connects <=> sock \in Users /\ daemon[sock] \in {"chmod", "accept", "chmod_failed", "close"}
    BY DEF Connects, Listening
  <2>1. Active(u)
    BY DEF SettledOK, InStep, Active
  <2>2. InStep(u)' /\ Replaced(u)'
    BY <2>0 DEF SettledOK, InStep, Named, Beside, Replaced
  <2>3. Beside(u)'
    BY <2>0 DEF SettledOK, Beside, Named, Alive, Running
  <2>4. QED
    BY <2>0, <2>1, <2>2, <2>3, CallSettled DEF SettledOK, InStep, Beside, Named, Alive, Running
<1>5. ASSUME NEW u \in Users, SendWrite(u) PROVE SettledOK'
  <2> USE <1>5 DEF SendWrite, TypeOK
  <2>1. Active(u)
    BY DEF SettledOK, InStep, Active
  <2>2. InStep(u)' /\ Replaced(u)'
    BY DEF SettledOK, InStep, Named, Beside, Replaced
  <2>3. Beside(u)'
    BY DEF SettledOK, Beside, Named, Alive, Running
  <2>4. QED
    BY <2>1, <2>2, <2>3, CallSettled DEF SettledOK, InStep, Beside, Named, Alive, Running
<1>6. ASSUME NEW u \in Users, SendRead(u) PROVE SettledOK'
  <2> USE <1>6 DEF SendRead, TypeOK
  <2>1. Active(u)
    BY DEF SettledOK, InStep, Active
  <2>2. InStep(u)' /\ Replaced(u)'
    BY DEF SettledOK, InStep, Named, Beside, Replaced
  <2>3. Beside(u)'
    BY DEF SettledOK, Beside, Named, Alive, Running
  <2>4. QED
    BY <2>1, <2>2, <2>3, CallSettled DEF SettledOK, InStep, Beside, Named, Alive, Running
<1>7. ASSUME NEW u \in Users, StartVerify(u) PROVE SettledOK'
  <2>0. /\ call[u] = "verify" /\ Active(u) /\ op[u] = "start" /\ ~stop[u]
        /\ daemon[u] \notin Starting
        /\ UNCHANGED <<manners, files, daemon, stop, op, server, conn>>
        /\ call' = [call EXCEPT ![u] = "done"]
        /\ told' = [told EXCEPT ![u] = IF Connects THEN "started" ELSE "failed"]
        /\ promised' = (promised \/ Connects)
    BY <1>7 DEF StartVerify, SettledOK, InStep, Active, TypeOK
  <2>1. Connects <=> sock \in Users /\ daemon[sock] \in {"chmod", "accept", "chmod_failed", "close"}
    BY DEF Connects, Listening
  <2>2. InStep(u)' /\ Beside(u)'
    BY <2>0 DEF SettledOK, TypeOK, InStep, Beside
  <2>3. daemon[u] = "accept" => Connects
    BY <2>1 DEF SettledOK, Named
  <2>4. daemon[u] \in {"unborn", "accept", "killed"} \/ "chmod" \in Faults
    BY <2>0 DEF SettledOK, TypeOK, Beside
  <2>5. Replaced(u)'
    BY <2>0, <2>3, <2>4 DEF TypeOK, Replaced
  <2>6. Connects => sock = u /\ daemon[u] # "unborn"
    BY <2>0, <2>1 DEF SettledOK, Beside, Alive
  <2>7. "chmod" \notin Faults /\ Connects => sock # Nobody /\ Running(sock)
    BY <2>0, <2>1, <2>4, <2>6, DaemonAssumption DEF Running
  <2>8. QED
    BY <2>0, <2>2, <2>5, <2>7, CallSettled DEF TypeOK
<1>8. ASSUME NEW u \in Users, HandlerAnswer(u) PROVE SettledOK'
  <2> USE <1>8 DEF HandlerAnswer, TypeOK
  <2>1. Active(u)
    BY DEF SettledOK, Connected, Active
  <2>2. InStep(u)' /\ Replaced(u)'
    BY DEF SettledOK, InStep, Named, Beside, Replaced, Handled
  <2>3. Beside(u)'
    BY DEF SettledOK, Beside, Named, Alive, Running, Handled
  <2>4. QED
    BY <2>1, <2>2, <2>3, CallSettled DEF SettledOK, InStep, Beside, Named, Alive, Running, Handled
<1>9. ASSUME NEW u \in Users, HandlerWake(u) PROVE SettledOK'
  <2> USE <1>9 DEF HandlerWake, TypeOK
  <2>1. Active(u)
    BY DEF SettledOK, Connected, Active
  <2>2. InStep(u)' /\ Replaced(u)'
    BY DEF SettledOK, InStep, Named, Beside, Replaced, Handled
  <2>3. Beside(u)'
    BY DEF SettledOK, Beside, Named, Alive, Running, Handled
  <2>4. QED
    BY <2>1, <2>2, <2>3, CallSettled DEF SettledOK, InStep, Beside, Named, Alive, Running, Handled
<1>10. ASSUME NEW u \in Users, HandlerReply(u) PROVE SettledOK'
  <2> USE <1>10 DEF HandlerReply, TypeOK
  <2>1. Active(u)
    BY DEF SettledOK, Connected, Active
  <2>2. InStep(u)' /\ Replaced(u)'
    BY DEF SettledOK, InStep, Named, Beside, Replaced, Handled
  <2>3. Beside(u)'
    BY DEF SettledOK, Beside, Named, Alive, Running, Handled
  <2>4. QED
    BY <2>1, <2>2, <2>3, CallSettled DEF SettledOK, InStep, Beside, Named, Alive, Running, Handled
<1>11. ASSUME NEW u \in Users, StartUnlink(u) PROVE SettledOK'
  <2>0. /\ call[u] = "unlink" /\ sock' = Nobody /\ call' = [call EXCEPT ![u] = "fork"]
        /\ UNCHANGED <<manners, pidfile, daemons, op, server, conn, told, promised>>
        /\ Active(u) /\ \A d \in Users : ~Alive(d)
    BY <1>11 DEF StartUnlink, Active, SettledOK, Beside
  <2>1. Alone'
    BY <2>0 DEF SettledOK, TypeOK, Alone, Active, Alive
  <2>2. ASSUME NEW v \in Users PROVE InStep(v)' /\ Beside(v)' /\ Replaced(v)'
    BY <2>0 DEF SettledOK, TypeOK, InStep, Beside, Replaced, Alive, Running
  <2>3. ASSUME NEW v \in Users PROVE Named(v)'
    BY <2>0, DaemonAssumption DEF SettledOK, Named, Alive
  <2>4. Kept'
    BY <2>0 DEF SettledOK, TypeOK, Kept, Active, Alive, Running
  <2>5. QED
    BY <2>0, <2>1, <2>2, <2>3, <2>4 DEF SettledOK
<1>12. ASSUME NEW u \in Users, StartFork(u) PROVE SettledOK'
  <2>0. /\ call[u] = "fork" /\ daemon[u] = "unborn" /\ sock = Nobody /\ Active(u)
        /\ told[u] = "none" /\ ~stop[u]
        /\ UNCHANGED <<manners, sock, pidfile, stop, queue, op, server, conn, promised>>
    BY <1>12 DEF StartFork, Active, SettledOK, Beside, InStep, TypeOK
  <2>4. \A d \in Users : ~Alive(d) /\ (d # u => ~Active(d))
    BY <2>0 DEF SettledOK, Beside, Alone
  <2>1. CASE daemon' = daemon
    <3>1. /\ call' = [call EXCEPT ![u] = "done"] /\ told' = [told EXCEPT ![u] = "failed"]
      BY <1>12, <2>0, <2>1 DEF StartFork, TypeOK
    <3>2. InStep(u)' /\ Beside(u)' /\ Replaced(u)'
      BY <2>0, <2>1, <3>1 DEF SettledOK, TypeOK, InStep, Beside, Replaced
    <3>3. QED
      BY <2>0, <2>1, <3>1, <3>2, CallSettled DEF TypeOK
  <2>2. CASE daemon' # daemon
    <3>1. /\ call' = [call EXCEPT ![u] = "verify"] /\ daemon' = [daemon EXCEPT ![u] = "write_pid"]
          /\ UNCHANGED told
      BY <1>12, <2>2 DEF StartFork
    <3>2. Alone'
      BY <2>0, <2>4, <3>1 DEF SettledOK, TypeOK, Alone, Active, Alive
    <3>3. ASSUME NEW v \in Users PROVE InStep(v)'
      BY <2>0, <3>1 DEF SettledOK, TypeOK, InStep
    <3>7. ASSUME NEW v \in Users PROVE Beside(v)' /\ Replaced(v)'
      BY <2>0, <2>4, <3>1 DEF SettledOK, TypeOK, Beside, Replaced, Alive, Active
    <3>4. ASSUME NEW v \in Users PROVE Named(v)'
      BY <2>0, <2>4, <3>1, DaemonAssumption DEF SettledOK, TypeOK, Named, Alive
    <3>5. Kept'
      BY <2>0, <2>4, <3>1 DEF SettledOK, TypeOK, Kept, Active, Alive, Running
    <3>6. QED
      BY <2>0, <3>2, <3>3, <3>4, <3>5, <3>7 DEF SettledOK
  <2>3. QED
    BY <2>1, <2>2
<1>13. ASSUME NEW u \in Users, HandlerStop(u) PROVE SettledOK'
  <2>0. /\ conn[u] = "read" /\ op[u] = "stop" /\ call[u] \in {"write", "wait"} /\ Active(u)
        /\ conn' = [conn EXCEPT ![u] = "wake"] /\ stop' = [stop EXCEPT ![server[u]] = TRUE]
        /\ UNCHANGED <<manners, files, daemon, queue, call, op, server, told, promised>>
    BY <1>13 DEF HandlerStop, Handled, Connected, Active
  <2>1. ~promised
    BY <2>0 DEF SettledOK, Kept
  <2>2. server[u] \in Users => call[server[u]] = "done"
    <3> SUFFICES ASSUME server[u] \in Users PROVE call[server[u]] = "done"
      OBVIOUS
    <3>1. server[u] # u /\ daemon[server[u]] # "unborn"
      BY DaemonAssumption DEF SettledOK, InStep
    <3>2. ~Active(server[u])
      BY <2>0, <3>1 DEF SettledOK, Alone
    <3>3. QED
      BY <3>1, <3>2 DEF SettledOK, InStep, Active
  <2>3. Alone'
    BY <2>0 DEF SettledOK, Alone, Active, Alive
  <2>4. ASSUME NEW v \in Users PROVE InStep(v)'
    BY <2>0, <2>2 DEF SettledOK, TypeOK, InStep
  <2>5. ASSUME NEW v \in Users PROVE Beside(v)'
    <3>1. call[v] \in {"exists", "probe", "unlink", "fork", "verify"} => ~Active(u)
      BY <2>0 DEF SettledOK, Alone, Active
    <3>2. QED
      BY <2>0, <3>1 DEF SettledOK, Beside, Alive
  <2>6. ASSUME NEW v \in Users PROVE Named(v)' /\ Replaced(v)'
    BY <2>0 DEF SettledOK, Named, Replaced
  <2>7. Kept'
    BY <2>0, <2>1 DEF Kept
  <2>8. QED
    BY <2>0, <2>3, <2>4, <2>5, <2>6, <2>7 DEF SettledOK
<1>14. QED
  BY <1>1, <1>2, <1>3, <1>4, <1>5, <1>6, <1>7, <1>8, <1>9, <1>10, <1>11, <1>12, <1>13
     DEF Start, Send, Handle

LEMMA ServesSettled ==
    ASSUME TypeOK, SettledOK, manners = "settled", NEW d \in Users, Serve(d) \/ DaemonKilled(d)
    PROVE  SettledOK'
<1>0. Named(d) /\ Beside(d) /\ InStep(d) /\ sock \in Users \cup {Nobody}
  BY DEF SettledOK, TypeOK
<1>1. CASE DaemonWritePid(d)
  <2>1. /\ Alive(d) /\ ~Running(d) /\ daemon'[d] \notin {"unborn", "killed"}
        /\ UNCHANGED <<manners, stop, call, op, server, told, promised>>
        /\ \A e \in Users \ {d} : daemon'[e] = daemon[e]
        /\ sock' \in {sock, d, Nobody} /\ pidfile' \in {pidfile, d, Nobody}
    BY <1>1 DEF DaemonWritePid, TypeOK, Alive, Running
  <2>2. Named(d)'
    BY <1>0, <1>1, DaemonAssumption DEF DaemonWritePid, TypeOK, Named
  <2>3. call[d] = "verify" /\ daemon'[d] \in Ending \cup {"gone"} => "chmod" \in Faults
    BY <1>0, <1>1, DaemonAssumption DEF DaemonWritePid, TypeOK, Named, Beside
  <2>4. QED
    BY <2>1, <2>2, <2>3, ServeSettled
<1>2. CASE DaemonBind(d)
  <2>1. /\ Alive(d) /\ ~Running(d) /\ daemon'[d] \notin {"unborn", "killed"}
        /\ UNCHANGED <<manners, stop, call, op, server, told, promised>>
        /\ \A e \in Users \ {d} : daemon'[e] = daemon[e]
        /\ sock' \in {sock, d, Nobody} /\ pidfile' \in {pidfile, d, Nobody}
    BY <1>2 DEF DaemonBind, TypeOK, Alive, Running
  <2>2. Named(d)'
    BY <1>0, <1>2, DaemonAssumption DEF DaemonBind, TypeOK, Named
  <2>3. call[d] = "verify" /\ daemon'[d] \in Ending \cup {"gone"} => "chmod" \in Faults
    BY <1>0, <1>2, DaemonAssumption DEF DaemonBind, TypeOK, Named, Beside
  <2>4. QED
    BY <2>1, <2>2, <2>3, ServeSettled
<1>3. CASE DaemonListen(d)
  <2>1. /\ Alive(d) /\ ~Running(d) /\ daemon'[d] \notin {"unborn", "killed"}
        /\ UNCHANGED <<manners, stop, call, op, server, told, promised>>
        /\ \A e \in Users \ {d} : daemon'[e] = daemon[e]
        /\ sock' \in {sock, d, Nobody} /\ pidfile' \in {pidfile, d, Nobody}
    BY <1>3 DEF DaemonListen, TypeOK, Alive, Running
  <2>2. Named(d)'
    BY <1>0, <1>3, DaemonAssumption DEF DaemonListen, TypeOK, Named
  <2>3. call[d] = "verify" /\ daemon'[d] \in Ending \cup {"gone"} => "chmod" \in Faults
    BY <1>0, <1>3, DaemonAssumption DEF DaemonListen, TypeOK, Named, Beside
  <2>4. QED
    BY <2>1, <2>2, <2>3, ServeSettled
<1>4. CASE DaemonChmod(d)
  <2>1. /\ Alive(d) /\ ~Running(d) /\ daemon'[d] \notin {"unborn", "killed"}
        /\ UNCHANGED <<manners, stop, call, op, server, told, promised>>
        /\ \A e \in Users \ {d} : daemon'[e] = daemon[e]
        /\ sock' \in {sock, d, Nobody} /\ pidfile' \in {pidfile, d, Nobody}
    BY <1>4 DEF DaemonChmod, TypeOK, Alive, Running
  <2>2. Named(d)'
    BY <1>0, <1>4, DaemonAssumption DEF DaemonChmod, TypeOK, Named
  <2>3. call[d] = "verify" /\ daemon'[d] \in Ending \cup {"gone"} => "chmod" \in Faults
    BY <1>0, <1>4, DaemonAssumption DEF DaemonChmod, TypeOK, Named, Beside
  <2>4. QED
    BY <2>1, <2>2, <2>3, ServeSettled
<1>5. CASE DaemonChmodFailed(d)
  <2>1. /\ Alive(d) /\ ~Running(d) /\ daemon'[d] \notin {"unborn", "killed"}
        /\ UNCHANGED <<manners, stop, call, op, server, told, promised>>
        /\ \A e \in Users \ {d} : daemon'[e] = daemon[e]
        /\ sock' \in {sock, d, Nobody} /\ pidfile' \in {pidfile, d, Nobody}
    BY <1>5 DEF DaemonChmodFailed, TypeOK, Alive, Running
  <2>2. Named(d)'
    BY <1>0, <1>5, DaemonAssumption DEF DaemonChmodFailed, TypeOK, Named
  <2>3. call[d] = "verify" /\ daemon'[d] \in Ending \cup {"gone"} => "chmod" \in Faults
    BY <1>0, <1>5, DaemonAssumption DEF DaemonChmodFailed, TypeOK, Named, Beside
  <2>4. QED
    BY <2>1, <2>2, <2>3, ServeSettled
<1>6. CASE DaemonClose(d)
  <2>1. /\ Alive(d) /\ ~Running(d) /\ daemon'[d] \notin {"unborn", "killed"}
        /\ UNCHANGED <<manners, stop, call, op, server, told, promised>>
        /\ \A e \in Users \ {d} : daemon'[e] = daemon[e]
        /\ sock' \in {sock, d, Nobody} /\ pidfile' \in {pidfile, d, Nobody}
    BY <1>6 DEF DaemonClose, Reset, TypeOK, Alive, Running
  <2>2. Named(d)'
    BY <1>0, <1>6, DaemonAssumption DEF DaemonClose, Reset, TypeOK, Named
  <2>3. call[d] = "verify" /\ daemon'[d] \in Ending \cup {"gone"} => "chmod" \in Faults
    BY <1>0, <1>6, DaemonAssumption DEF DaemonClose, Reset, TypeOK, Named, Beside
  <2>4. QED
    BY <2>1, <2>2, <2>3, ServeSettled
<1>7. CASE DaemonUnlinkSock(d)
  <2>1. /\ Alive(d) /\ ~Running(d) /\ daemon'[d] \notin {"unborn", "killed"}
        /\ UNCHANGED <<manners, stop, call, op, server, told, promised>>
        /\ \A e \in Users \ {d} : daemon'[e] = daemon[e]
        /\ sock' \in {sock, d, Nobody} /\ pidfile' \in {pidfile, d, Nobody}
    BY <1>7 DEF DaemonUnlinkSock, TypeOK, Alive, Running
  <2>2. Named(d)'
    BY <1>0, <1>7, DaemonAssumption DEF DaemonUnlinkSock, TypeOK, Named
  <2>3. call[d] = "verify" /\ daemon'[d] \in Ending \cup {"gone"} => "chmod" \in Faults
    BY <1>0, <1>7, DaemonAssumption DEF DaemonUnlinkSock, TypeOK, Named, Beside
  <2>4. QED
    BY <2>1, <2>2, <2>3, ServeSettled
<1>8. CASE DaemonUnlinkPid(d)
  <2>1. /\ Alive(d) /\ ~Running(d) /\ daemon'[d] \notin {"unborn", "killed"}
        /\ UNCHANGED <<manners, stop, call, op, server, told, promised>>
        /\ \A e \in Users \ {d} : daemon'[e] = daemon[e]
        /\ sock' \in {sock, d, Nobody} /\ pidfile' \in {pidfile, d, Nobody}
    BY <1>8 DEF DaemonUnlinkPid, TypeOK, Alive, Running
  <2>2. Named(d)'
    BY <1>0, <1>8, DaemonAssumption DEF DaemonUnlinkPid, TypeOK, Named
  <2>3. call[d] = "verify" /\ daemon'[d] \in Ending \cup {"gone"} => "chmod" \in Faults
    BY <1>0, <1>8, DaemonAssumption DEF DaemonUnlinkPid, TypeOK, Named, Beside
  <2>4. QED
    BY <2>1, <2>2, <2>3, ServeSettled
<1>9. CASE DaemonExit(d)
  <2>1. /\ Alive(d) /\ ~Running(d) /\ daemon'[d] \notin {"unborn", "killed"}
        /\ UNCHANGED <<manners, stop, call, op, server, told, promised>>
        /\ \A e \in Users \ {d} : daemon'[e] = daemon[e]
        /\ sock' \in {sock, d, Nobody} /\ pidfile' \in {pidfile, d, Nobody}
    BY <1>9 DEF DaemonExit, Ends, Reset, TypeOK, Alive, Running
  <2>2. Named(d)'
    BY <1>0, <1>9, DaemonAssumption DEF DaemonExit, Ends, Reset, TypeOK, Named
  <2>3. call[d] = "verify" /\ daemon'[d] \in Ending \cup {"gone"} => "chmod" \in Faults
    BY <1>0, <1>9, DaemonAssumption DEF DaemonExit, Ends, Reset, TypeOK, Named, Beside
  <2>4. QED
    BY <2>1, <2>2, <2>3, ServeSettled
<1>10. CASE DaemonKilled(d)
  <2>1. /\ Alive(d) /\ daemon'[d] = "killed" /\ ~promised'
        /\ UNCHANGED <<manners, stop, call, op, server, told>>
        /\ \A e \in Users \ {d} : daemon'[e] = daemon[e]
        /\ sock' \in {sock, d, Nobody} /\ pidfile' \in {pidfile, d, Nobody}
    BY <1>10 DEF DaemonKilled, Ends, Reset, TypeOK, Alive, Running
  <2>2. Named(d)'
    BY <1>0, <1>10, DaemonAssumption DEF DaemonKilled, Ends, Reset, TypeOK, Named
  <2>3. call[d] = "verify" /\ daemon'[d] \in Ending \cup {"gone"} => "chmod" \in Faults
    BY <1>0, <1>10, DaemonAssumption DEF DaemonKilled, Ends, Reset, TypeOK, Named, Beside
  <2>4. QED
    BY <2>1, <2>2, <2>3, ServeSettled
<1>11. CASE DaemonAccept(d)
  <2>1. /\ daemon[d] = "accept" /\ sock = d /\ pidfile = d
        /\ UNCHANGED <<manners, sock, pidfile, stop, call, op, server, told, promised>>
        /\ \/ stop[d] /\ daemon' = [daemon EXCEPT ![d] = "close"]
           \/ ~stop[d] /\ UNCHANGED daemon
    BY <1>0, <1>11 DEF DaemonAccept, Named
  <2>3. /\ Alive(d) /\ (Running(d) => daemon'[d] = "accept") /\ daemon'[d] \in {"accept", "close"}
        /\ \A e \in Users \ {d} : daemon'[e] = daemon[e]
    BY <2>1 DEF TypeOK, Alive, Running
  <2>4. Named(d)'
    BY <2>1, <2>3, DaemonAssumption DEF Named
  <2>5. call[d] = "verify" => ~stop[d]
    BY <1>0 DEF InStep
  <2>6. QED
    BY <2>1, <2>3, <2>4, <2>5, ServeSettled DEF TypeOK
<1>12. QED
  BY <1>1, <1>2, <1>3, <1>4, <1>5, <1>6, <1>7, <1>8, <1>9, <1>10, <1>11 DEF Serve

\* The invariant is inductive.
LEMMA NextSettled == TypeOK /\ QueuesOK /\ SettledOK /\ [Next]_vars => SettledOK'
<1> SUFFICES ASSUME TypeOK, QueuesOK, SettledOK, [Next]_vars PROVE SettledOK'
  OBVIOUS
<1>1. manners' = manners
  BY DEF Next, Begin, Start, Send, Serve, Handle, StartExists, StartProbe, StartUnlink, StartFork,
         StartVerify, Route, SendConnect, SendWrite, SendRead, DaemonWritePid, DaemonBind,
         DaemonListen, DaemonChmod, DaemonChmodFailed, DaemonAccept, DaemonClose,
         DaemonUnlinkSock, DaemonUnlinkPid, DaemonExit, DaemonKilled, Ends, HandlerAnswer,
         HandlerStop, HandlerWake, HandlerReply, Finished
<1>2. CASE manners # "settled"
  BY <1>1, <1>2 DEF SettledOK
<1>3. CASE manners = "settled" /\ Next /\ ~Finished
  BY <1>3, BeginSettled, CallsSettled, ServesSettled DEF Next, QueuesOK
<1>4. CASE UNCHANGED vars \/ Finished
  BY <1>4 DEF Finished, SettledOK, Alone, InStep, Beside, Named, Replaced, Kept, Alive, Active, Running
<1>5. QED
  BY <1>2, <1>3, <1>4

LEMMA AlwaysSettledOK == Spec => []SettledOK
<1>1. QED
  BY InitSettled, NextSettled, TypeCorrect, AlwaysQueuesOK, PTL DEF Spec

-----------------------------------------------------------------------------
(* The theorems *)

\* The socket and the pid file are those of the one daemon that serves, and
\* neither outlives it unless it was killed: where each command begins after
\* the one before it has settled.
THEOREM FilesAreTheDaemons == Spec => []FilesNameTheDaemon
<1>1. TypeOK /\ SettledOK => FilesNameTheDaemon
  <2> SUFFICES ASSUME TypeOK, SettledOK, manners = "settled" PROVE FilesNameTheDaemon
    BY DEF FilesNameTheDaemon
  <2>1. \A d \in Users : daemon[d] = "accept" => sock = d /\ pidfile = d
    BY DEF SettledOK, Named
  <2>2. ASSUME Polite, \A d \in Users : daemon[d] # "killed",
               NEW f \in {sock, pidfile}, f # Nobody
        PROVE  Running(f)
    <3>1. f \in Users
      BY <2>2 DEF TypeOK
    <3>2. daemon[f] \notin Dead
      BY <2>2, <3>1 DEF SettledOK, Named
    <3>3. QED
      BY <2>2, <3>1, <3>2 DEF Polite, Running
  <2>3. QED
    BY <2>1, <2>2 DEF FilesNameTheDaemon
<1>2. QED
  BY <1>1, TypeCorrect, AlwaysSettledOK, PTL

\* A start replaces whatever a killed daemon has left: it fails only before
\* the fork, when its own daemon is killed, or when chmod(2) fails.
THEOREM StartSucceeds == Spec => []StaleIsReplaced
<1>1. SettledOK => StaleIsReplaced
  BY DEF SettledOK, Replaced, StaleIsReplaced
<1>2. QED
  BY <1>1, AlwaysSettledOK, PTL

\* When a start has answered that a daemon runs, one does and is found, until
\* somebody asks for a stop or kills one; if chmod(2) of the socket does not
\* fail, which ends a daemon that start has already reported.
THEOREM PromiseHolds ==
    ASSUME "chmod" \notin Faults
    PROVE  Spec => []RunningMeansRunning
<1>1. SettledOK => RunningMeansRunning
  BY DEF SettledOK, Kept, RunningMeansRunning
<1>2. QED
  BY <1>1, AlwaysSettledOK, PTL

=============================================================================
