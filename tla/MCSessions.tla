----------------------------- MODULE MCSessions -----------------------------
(* Small instances of Sessions for TLC.                                    *)
EXTENDS Sessions, TLC

\* Terminals opened in the same directory.
SameLabel == [p \in Cbs |-> <<"hwm", "hwm-2", "hwm-3", "hwm-4">>]

Twins == Permutations(Cbs)

\* All cbs but one have gone before they connected, which Sessions may do.
AloneInit ==
  \E q \in Cbs :
    /\ child = [p \in Cbs |-> IF p = q THEN "running" ELSE "exited"]
    /\ proc = [p \in Cbs |-> IF p = q THEN "up" ELSE "gone"]
    /\ link = [p \in Cbs |-> IF p = q THEN "idle" ELSE "down"]
    /\ sock = [p \in Cbs |-> None]
    /\ isReconnect = [p \in Cbs |-> FALSE]
    /\ nextConn = 1
    /\ peer = [c \in Conns |-> NoCb]
    /\ cEnd = [c \in Conns |-> "unused"]
    /\ sEnd = [c \in Conns |-> "unused"]
    /\ toServer = [c \in Conns |-> <<>>]
    /\ toClient = [c \in Conns |-> <<>>]
    /\ bound = [c \in Conns |-> None]
    /\ cbConns = {}
    /\ registry = [p \in Cbs |-> None]
    /\ status = [c \in Conns |-> "none"]
    /\ label = [c \in Conns |-> NoLabel]
    /\ pipe = [c \in Conns |-> None]
    /\ missed = [c \in Conns |-> 0]
    /\ record = [p \in Cbs |-> "none"]

AloneSpec == AloneInit /\ [][Next]_vars /\ Fairness
=============================================================================
