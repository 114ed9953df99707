------------------------------- MODULE Prompt -------------------------------
(***************************************************************************)
(* How the tools of bridge-mcp bring a prompt to a worker: bridge_paste,   *)
(* bridge_send_keys and bridge_send_and_wait, which makes four requests in *)
(* a row (paste, Enter, wait for idle, read the tail), each of which looks *)
(* the name up again, while the user types and other masters send.         *)
(*                                                                         *)
(* One name. Sessions are numbered in the order in which they take it: a   *)
(* new one comes when the last is dead (Sessions, LiveRouteStable). A call *)
(* stands for the text it pastes; 0 stands for the user's keystrokes.      *)
(***************************************************************************)
EXTENDS Naturals, Sequences, SequencesExt

CONSTANTS
  MaxCalls,     \* bound: tool calls
  MaxSessions,  \* bound: sessions that take the name
  MaxTyped      \* bound: pieces the user types

Calls == 1..MaxCalls
Sessions == 1..MaxSessions
None  == 0
User  == 0
Enter == MaxCalls + 1

VARIABLES
  gates,        \* BRIDGE_ALLOW_FORCE: [mcp, daemon], the environments of the two
  tool,         \* the tool of a call, "none" before it is made
  step,         \* its request: "paste", "enter", "idle", "tail", then "done" or "failed"
  force,        \* what pickWriteOpts() made of the call's force
  sendEnter,    \* send_enter
  held,         \* the session for which tryInject() holds the request
  error,        \* why a call failed
  last,         \* the last session that took the name
  alive,        \* Session.status
  open,         \* whether Session.pipeClient is usable
  silent,       \* whether the user has been silent for long enough
  typed,        \* pieces the user has typed
  toPty,        \* inject frames under way to cb
  line,         \* the input line of the terminal
  submitted     \* the calls whose text was submitted

callVars    == <<tool, step, force, sendEnter, held, error>>
sessionVars == <<last, alive, open>>
ptyVars     == <<silent, typed, toPty, line, submitted>>
vars        == <<gates, callVars, sessionVars, ptyVars>>

Init ==
  /\ gates \in [mcp : BOOLEAN, daemon : BOOLEAN]
  /\ tool = [k \in Calls |-> "none"]
  /\ step = [k \in Calls |-> "none"]
  /\ force = [k \in Calls |-> FALSE]
  /\ sendEnter = [k \in Calls |-> FALSE]
  /\ held = [k \in Calls |-> None]
  /\ error = [k \in Calls |-> "none"]
  /\ last = None
  /\ alive = [o \in Sessions |-> FALSE]
  /\ open = [o \in Sessions |-> FALSE]
  /\ silent = [o \in Sessions |-> TRUE]
  /\ typed = 0
  /\ toPty = [o \in Sessions |-> <<>>]
  /\ line = [o \in Sessions |-> <<>>]
  /\ submitted = {}

-----------------------------------------------------------------------------
(* Sessions and the user *)

Register ==
  /\ last < MaxSessions
  /\ last # None => ~alive[last]
  /\ last' = last + 1
  /\ alive' = [alive EXCEPT ![last + 1] = TRUE]
  /\ open' = [open EXCEPT ![last + 1] = TRUE]
  /\ UNCHANGED <<gates, callVars, ptyVars>>

\* The pipe to cb breaks; what was under way on it is lost.
PipeBreaks(o) ==
  /\ open[o]
  /\ open' = [open EXCEPT ![o] = FALSE]
  /\ toPty' = [toPty EXCEPT ![o] = <<>>]
  /\ UNCHANGED <<gates, callVars, last, alive, silent, typed, line, submitted>>

\* cb is back and the session resumed.
Resume(o) ==
  /\ alive[o] /\ ~open[o]
  /\ open' = [open EXCEPT ![o] = TRUE]
  /\ UNCHANGED <<gates, callVars, last, alive, ptyVars>>

\* markDead().
Dies(o) ==
  /\ alive[o]
  /\ alive' = [alive EXCEPT ![o] = FALSE]
  /\ open' = [open EXCEPT ![o] = FALSE]
  /\ UNCHANGED <<gates, callVars, last, ptyVars>>

UserTypes(o) ==
  /\ alive[o]
  /\ typed < MaxTyped
  /\ typed' = typed + 1
  /\ silent' = [silent EXCEPT ![o] = FALSE]
  /\ line' = [line EXCEPT ![o] = Append(@, User)]
  /\ UNCHANGED <<gates, callVars, sessionVars, toPty, submitted>>

UserPauses(o) ==
  /\ ~silent[o]
  /\ silent' = [silent EXCEPT ![o] = TRUE]
  /\ UNCHANGED <<gates, callVars, sessionVars, typed, toPty, line, submitted>>

\* cb writes an inject frame into its terminal.
Deliver(o) ==
  /\ toPty[o] # <<>>
  /\ toPty' = [toPty EXCEPT ![o] = Tail(@)]
  /\ IF Head(toPty[o]) = Enter
     THEN /\ line' = [line EXCEPT ![o] = <<>>]
          /\ submitted' = submitted \union (Range(line[o]) \ {User})
     ELSE /\ line' = [line EXCEPT ![o] = Append(@, Head(toPty[o]))]
          /\ submitted' = submitted
  /\ UNCHANGED <<gates, callVars, sessionVars, silent, typed>>

-----------------------------------------------------------------------------
(* Tool calls *)

FirstStep(t) == IF t = "bridge_send_keys" THEN "enter" ELSE "paste"

\* What follows a request that was answered with ok.
Following(k) ==
  IF tool[k] # "bridge_send_and_wait" THEN "done"
  ELSE CASE step[k] = "paste" -> IF sendEnter[k] THEN "enter" ELSE "idle"
         [] step[k] = "enter" -> "idle"
         [] step[k] = "idle"  -> "tail"
         [] step[k] = "tail"  -> "done"

Answered(k) ==
  /\ step' = [step EXCEPT ![k] = Following(k)]
  /\ error' = error

Fails(k, why) ==
  /\ step' = [step EXCEPT ![k] = "failed"]
  /\ error' = [error EXCEPT ![k] = why]

\* A master calls a tool; pickWriteOpts() clamps force.
Call(k, t, enter, requested) ==
  /\ step[k] = "none"
  /\ \A j \in 1..(k - 1) : step[j] # "none"
  /\ tool' = [tool EXCEPT ![k] = t]
  /\ step' = [step EXCEPT ![k] = FirstStep(t)]
  /\ sendEnter' = [sendEnter EXCEPT ![k] = enter]
  /\ force' = [force EXCEPT ![k] = gates.mcp /\ requested]
  /\ UNCHANGED <<gates, held, error, sessionVars, ptyVars>>

\* force of the request: the tool that has pasted asks for it unclamped.
Forced(k) == force[k] \/ (step[k] = "enter" /\ tool[k] = "bridge_send_and_wait")

\* A request is in the daemon's hands, which has not begun with it.
Arrives(k) == step[k] \in {"paste", "enter", "idle", "tail"} /\ held[k] = None

Refuse(k) ==
  /\ Arrives(k)
  /\ \/ /\ step[k] \in {"paste", "enter"}
        /\ Forced(k) /\ ~gates.daemon
        /\ Fails(k, "force_disabled")
     \/ /\ step[k] \in {"paste", "enter"} => ~Forced(k) \/ gates.daemon
        /\ \/ last = None /\ Fails(k, "session_not_found")
           \/ /\ last # None /\ ~alive[last]
              /\ \/ step[k] \in {"paste", "enter"} /\ Fails(k, "session_dead")
                 \/ Fails(k, "session_not_found")  \* it is swept already
  /\ UNCHANGED <<gates, tool, force, sendEnter, held, sessionVars, ptyVars>>

\* The bytes of the request for session o: doInject().
DoInject(k, o) ==
  IF alive[o] /\ open[o]
  THEN /\ toPty' = [toPty EXCEPT ![o] = Append(@, IF step[k] = "enter" THEN Enter ELSE k)]
       /\ Answered(k)
  ELSE /\ toPty' = toPty
       /\ Fails(k, "session_dead")

\* tryInject() with force.
InjectAtOnce(k) ==
  /\ Arrives(k) /\ step[k] \in {"paste", "enter"}
  /\ Forced(k) /\ gates.daemon
  /\ last # None /\ alive[last]
  /\ DoInject(k, last)
  /\ UNCHANGED <<gates, tool, force, sendEnter, held, sessionVars, silent, typed, line, submitted>>

\* tryInject() without: it waits for the user of the session it has found.
InjectHeld(k) ==
  /\ Arrives(k) /\ step[k] \in {"paste", "enter"}
  /\ ~Forced(k)
  /\ last # None /\ alive[last]
  /\ held' = [held EXCEPT ![k] = last]
  /\ UNCHANGED <<gates, tool, step, force, sendEnter, error, sessionVars, ptyVars>>

\* The user is silent, or the wait has reached its cap.
InjectEnds(k) ==
  /\ held[k] # None
  /\ held' = [held EXCEPT ![k] = None]
  /\ \/ silent[held[k]] /\ DoInject(k, held[k])
     \/ ~alive[held[k]] /\ Fails(k, "session_dead") /\ toPty' = toPty
     \/ ~silent[held[k]] /\ Fails(k, "user_active") /\ toPty' = toPty
  /\ UNCHANGED <<gates, tool, force, sendEnter, sessionVars, silent, typed, line, submitted>>

\* wait_for_idle and read_tail are answered, whatever the worker does.
WaitedOrRead(k) ==
  /\ Arrives(k) /\ step[k] \in {"idle", "tail"}
  /\ last # None
  /\ Answered(k)
  /\ UNCHANGED <<gates, tool, force, sendEnter, held, sessionVars, ptyVars>>

Tools == {"bridge_write", "bridge_paste", "bridge_send_keys", "bridge_send_and_wait"}

Next ==
  \/ Register
  \/ \E o \in Sessions :
       PipeBreaks(o) \/ Resume(o) \/ Dies(o) \/ UserTypes(o) \/ UserPauses(o) \/ Deliver(o)
  \/ \E k \in Calls :
       \/ \E t \in Tools, enter, requested \in BOOLEAN : Call(k, t, enter, requested)
       \/ Refuse(k) \/ InjectAtOnce(k) \/ InjectHeld(k) \/ InjectEnds(k) \/ WaitedOrRead(k)

Spec == Init /\ [][Next]_vars

-----------------------------------------------------------------------------
(* Properties *)

\* A bridge_send_and_wait that is to press Enter and is told no by a daemon that can
\* reach the terminal has left nothing in its input line: paste and Enter are "part
\* of the same atomic action" (tools.ts bridge_send_and_wait).
RefusedPromptLeavesNothing ==
  \A k \in Calls :
    /\ tool[k] = "bridge_send_and_wait" /\ sendEnter[k]
    /\ step[k] = "failed"
    => \A o \in Sessions : alive[o] /\ open[o] => k \notin Range(line[o] \o toPty[o])
=============================================================================
