-------------------------------- MODULE Calls --------------------------------
(***************************************************************************)
(* What a client of the daemon may rely on when it makes requests: each is *)
(* carried out at most once, succeeds only if it was carried out, and ends *)
(* for good.  A request that failed may have been carried out, or may      *)
(* still be.                                                               *)
(***************************************************************************)
EXTENDS Naturals

CONSTANT Requests

VARIABLES
  outcome,  \* of a request: "none" (not made), "open", "ok", "failed"
  executed  \* how often the daemon carried it out

callVars == <<outcome, executed>>

Init ==
  /\ outcome = [r \in Requests |-> "none"]
  /\ executed = [r \in Requests |-> 0]

Call(r) ==
  /\ outcome[r] = "none"
  /\ outcome' = [outcome EXCEPT ![r] = "open"]
  /\ UNCHANGED executed

\* Once, and for a request that was made; its caller may have given up.
Execute(r) ==
  /\ outcome[r] # "none"
  /\ executed[r] = 0
  /\ executed' = [executed EXCEPT ![r] = 1]
  /\ UNCHANGED outcome

Succeed(r) ==
  /\ outcome[r] = "open"
  /\ executed[r] = 1
  /\ outcome' = [outcome EXCEPT ![r] = "ok"]
  /\ UNCHANGED executed

\* A lost connection fails all requests on it at once.
Fail(rs) ==
  /\ \A r \in rs : outcome[r] = "open"
  /\ outcome' = [r \in Requests |-> IF r \in rs THEN "failed" ELSE outcome[r]]
  /\ UNCHANGED executed

Next ==
  \/ \E r \in Requests : Call(r) \/ Execute(r) \/ Succeed(r)
  \/ \E rs \in SUBSET Requests : Fail(rs)

Spec == Init /\ [][Next]_callVars
=============================================================================
