------------------------------ MODULE Directory ------------------------------
(***************************************************************************)
(* What masters may rely on when they address terminals by label.  While   *)
(* the child of a terminal runs, its session joins once, under a label     *)
(* that no other entry shows; it is found there until it dies, and what    *)
(* watchers and the history are told of it is true.  Nothing is promised   *)
(* about who is told what of a terminal whose child has exited.            *)
(***************************************************************************)
CONSTANTS
  Terminals,  \* a terminal is a ULID
  Ids,        \* sessions
  Nobody,     \* the entry of a terminal that is not listed
  Names,      \* what an entry may show
  NoName      \* what the entry of a terminal that is not listed shows

VARIABLES
  running,    \* the terminals whose child runs
  entry,      \* the session that is listed for a terminal
  live,       \* the terminals that are listed as alive
  shown,      \* the label of an entry
  told        \* of a terminal, last: "none", "live", "ended"

dirVars == <<running, entry, live, shown, told>>

Listed == {p \in Terminals : entry[p] # Nobody}

Unambiguous == \A p, q \in Listed : p # q => shown[p] # shown[q]

Init ==
  /\ running = Terminals
  /\ entry = [p \in Terminals |-> Nobody]
  /\ live = {}
  /\ shown = [p \in Terminals |-> NoName]
  /\ told = [p \in Terminals |-> "none"]

ChildExits(p) ==
  /\ p \in running
  /\ running' = running \ {p}
  /\ UNCHANGED <<entry, live, shown, told>>

\* A session joins. It replaces no live one of a running child, and whoever is alive
\* keeps the label; a dead entry that shows the new label is renamed.
Joins(p) ==
  /\ p \in live => p \notin running
  /\ live' = live \union {p}
  /\ \E id \in Ids : /\ \A q \in Listed : entry[q] # id
                     /\ entry' = [entry EXCEPT ![p] = id]
  /\ shown' \in [Terminals -> Names]
  /\ \A q \in Terminals \ {p} :
       shown'[q] # shown[q] => q \in Listed \ live /\ shown[q] = shown'[p]
  /\ Unambiguous'
  /\ told' = [told EXCEPT ![p] = "live"]
  /\ UNCHANGED running

\* Sessions die, and everyone is told.
Die(S) ==
  /\ S \subseteq live
  /\ live' = live \ S
  /\ told' = [p \in Terminals |-> IF p \in S THEN "ended" ELSE told[p]]
  /\ UNCHANGED <<running, entry, shown>>

\* A session dies that a successor has replaced in the directory.
DiesUnlisted(p) ==
  /\ p \notin running
  /\ told' = [told EXCEPT ![p] = "ended"]
  /\ UNCHANGED <<running, entry, live, shown>>

\* Entries of the dead are swept.
Forget(S) ==
  /\ S \subseteq Listed \ live
  /\ entry' = [p \in Terminals |-> IF p \in S THEN Nobody ELSE entry[p]]
  /\ shown' = [p \in Terminals |-> IF p \in S THEN NoName ELSE shown[p]]
  /\ UNCHANGED <<running, live, told>>

Next ==
  \/ \E S \in SUBSET Terminals : Die(S) \/ Forget(S)
  \/ \E p \in Terminals : ChildExits(p) \/ Joins(p) \/ DiesUnlisted(p)

Spec == Init /\ [][Next]_dirVars
=============================================================================
