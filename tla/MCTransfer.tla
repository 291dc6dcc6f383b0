----------------------------- MODULE MCTransfer -----------------------------
(***************************************************************************)
(* Transfer for TLC.  The puts differ: p1 asks for everything and suffers  *)
(* every fault a run allows, p2 is a plain put of a local file that only   *)
(* competes for the path.                                                  *)
(***************************************************************************)
EXTENDS Transfer

CONSTANTS
    p1, p2,     \* the puts
    Faults,     \* the faults of p1
    Kinds       \* the kinds of p1

Plain == [kind |-> "put", rights |-> {}, empty |-> FALSE]

MCRequests ==
    [p \in Putters |->
        IF p = p1
        THEN {r \in Request : /\ r.kind \in Kinds
                              /\ r.rights = {"mode", "owner"}
                              /\ r.empty => r.kind = "put_stream"}
        ELSE {Plain}]

MCPutFaults == [p \in Putters |-> IF p = p1 THEN Faults ELSE {}]
=============================================================================
