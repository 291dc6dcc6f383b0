------------------------------ MODULE MCDeploy ------------------------------
(***************************************************************************)
(* Deploy for TLC: two calls, and four builds: one of an older protocol,   *)
(* two of one protocol of which the earlier lacks put_stream, one of a     *)
(* newer protocol.                                                         *)
(***************************************************************************)
EXTENDS Deploy, TLC

MCRank     == [b \in Builds |-> CASE b = "v1" -> 1 [] b = "v2" -> 2 [] b = "v3" -> 3 [] b = "v4" -> 4]
MCProtocol == [b \in Builds |-> CASE b = "v1" -> 1 [] b = "v4" -> 3 [] OTHER -> 2]

\* Calls differ in nothing but their name, and so do pids.
MCSymmetry == Permutations(Clients) \cup Permutations(Pids)

Plain(s) == s.binary = "none" /\ ~s.allow_downgrade /\ ~s.offline

\* Requests of v3 under every policy and of v2 that may deploy; deploy by each
\* build, by v2 also with --allow-downgrade, by v3 with --offline and --binary.
MCSetups ==
    {s \in Setup :
        \/ s.op # "deploy" /\ Plain(s) /\ s.own = "v3"
        \/ s.op \in {"run", "put"} /\ Plain(s) /\ s.own = "v2" /\ s.policy = "local"
        \/ /\ s.op = "deploy" /\ s.policy = "off"
           /\ \/ Plain(s)
              \/ s.own = "v2" /\ s.binary = "none" /\ s.allow_downgrade /\ ~s.offline
              \/ s.own = "v3" /\ s.binary = "none" /\ ~s.allow_downgrade
              \/ s.own = "v3" /\ s.binary \in {"v2", "v4"} /\ ~s.allow_downgrade /\ ~s.offline}
=============================================================================
