-------------------------------- MODULE Terminal --------------------------------
(***************************************************************************)
(* One session through time: the user who types, the program that writes,  *)
(* and the requests of the MCP side that wait for either of them to be     *)
(* silent before they inject or answer.                                    *)
(*                                                                         *)
(* Time is discrete, a clock says how long ago something was and stops at  *)
(* Horizon. Timers are punctual: time does not pass while one is due.      *)
(***************************************************************************)
EXTENDS Integers, Sequences, FiniteSets

CONSTANTS
  Requests,   \* places for requests of the MCP side, one at a time in each
  Screens,    \* what the last lines can show, with animations masked
  Matching,   \* the screens that contain the pattern somebody waits for
  Needs,      \* waitForUserIdleMs of the requests; 0 is what force amounts to
  Default,    \* DEFAULT_WAIT_FOR_USER_IDLE_MS
  Cap,        \* USER_IDLE_HARD_CAP_MS
  Poll,       \* longest sleep of tryInject()
  Throttle,   \* USER_INPUT_THROTTLE_MS
  Lag,        \* bound: time a frame of cb is under way
  TickMs,     \* WAIT_FOR_IDLE_TICK_MS, and tickMs of waitForPattern()
  MinSilent,  \* WAIT_FOR_IDLE_MIN_SILENT_MS
  Stable,     \* stableTicks
  Timeout,    \* timeoutMs of the waits
  Horizon     \* bound: clocks stop here

ASSUME TimesAssumption ==
  /\ {Cap, Poll, Throttle, Lag, TickMs, Stable, Timeout} \subseteq Nat \ {0}
  /\ {MinSilent, Default} \subseteq Nat
  /\ Needs \subseteq 0..Horizon
  /\ Horizon \in Nat
  /\ Horizon >= Throttle
  /\ Horizon > Default
  /\ Horizon > MinSilent + Stable * TickMs

VARIABLES
  typed,   \* since the user typed last
  sent,    \* since cb sent a user_input frame last
  flight,  \* the user_input frames under way: since each was sent
  report,  \* history: what became of the last report: sent to the session, kept by cb, or lost
  heard,   \* since lastUserInputAt
  quiet,   \* since lastOutputAt
  screen,  \* what the last lines show
  still,   \* history: since the screen changed last
  child,   \* whether the process in the terminal runs
  pipe,    \* the socket of the session: open, broken at cb's end, or lost at the daemon's too
  up,      \* history: since the hello on it, as far as Lag + 1
  status,  \* the session: alive or dead
  call,    \* per place: what is running there
  need,    \* its waitForUserIdleMs
  age,     \* since it began
  wake,    \* until its timer fires
  seen,    \* its hashes
  answer   \* what the last request in this place was told

userVars    == <<typed, sent, flight, heard, report>>
screenVars  == <<quiet, screen, still>>
sessionVars == <<child, pipe, up, status>>
callVars    == <<call, need, age, wake, seen, answer>>
vars        == <<userVars, screenVars, sessionVars, callVars>>

Clock   == 0..Horizon
Calls   == {"none", "inject", "watch", "idle", "pattern"}
Answers == {"none", "user_active", "session_dead", "idle", "timeout", "match", "nomatch",
            "invalid", "cancelled"}

TypeOK ==
  /\ typed \in Clock /\ sent \in Clock /\ heard \in Clock
  /\ flight \in SUBSET Clock
  /\ report \in {"made", "kept", "lost"}
  /\ quiet \in Clock /\ still \in Clock
  /\ screen \in Screens
  /\ child \in {"runs", "gone"}
  /\ pipe \in {"open", "broken", "lost"}
  /\ up \in 0..(Lag + 1)
  /\ status \in {"alive", "dead"}
  /\ call \in [Requests -> Calls]
  /\ need \in [Requests -> Needs \union {0}]
  /\ age \in [Requests -> Nat]
  /\ wake \in [Requests -> Nat]
  /\ seen \in [Requests -> Seq(Screens)] /\ \A r \in Requests : Len(seen[r]) <= Stable
  /\ answer \in [Requests -> Answers]

\* A new session. Its user counts as silent since before its cb was started, and may never
\* have typed, or have typed just now: a daemon that is new, or has buried the last session of
\* this cb, makes a session for a cb that has run for a while. What cb reported before has gone
\* to the last session, but for what its queue has kept and sends with the hello.
Init ==
  /\ heard \in (Default + 1)..Horizon
  /\ \/ typed = Horizon /\ sent = Horizon /\ report = "made" /\ flight = {}
     \/ /\ typed \in Clock /\ sent \in Clock
        /\ typed <= sent /\ sent < typed + Throttle
        /\ heard = Horizon \/ heard > Default + sent
        /\ \/ report = "made" /\ flight = {sent}
           \/ report = "lost" /\ flight = {}
  /\ quiet = 0 /\ still = 0
  /\ screen \in Screens
  /\ child = "runs" /\ pipe = "open" /\ status = "alive" /\ up = 0
  /\ call = [r \in Requests |-> "none"]
  /\ need = [r \in Requests |-> 0]
  /\ age = [r \in Requests |-> 0]
  /\ wake = [r \in Requests |-> 0]
  /\ seen = [r \in Requests |-> <<>>]
  /\ answer = [r \in Requests |-> "none"]

-----------------------------------------------------------------------------
(* Time *)

Older(t) == IF t < Horizon THEN t + 1 ELSE t

Runs(r) == call[r] # "none"
Due(r) == Runs(r) /\ wake[r] = 0

\* A frame arrives within Lag of its sending, and of the hello that it follows.
Pass ==
  /\ \A r \in Requests : ~Due(r)
  /\ \A t \in flight : t < Lag \/ up < Lag
  /\ up' = IF up <= Lag THEN up + 1 ELSE up
  /\ typed' = Older(typed) /\ sent' = Older(sent) /\ heard' = Older(heard)
  /\ flight' = {Older(t) : t \in flight}
  /\ quiet' = Older(quiet) /\ still' = Older(still)
  /\ age' = [r \in Requests |-> IF Runs(r) THEN age[r] + 1 ELSE age[r]]
  /\ wake' = [r \in Requests |-> IF Runs(r) THEN wake[r] - 1 ELSE wake[r]]
  /\ UNCHANGED <<report, screen, child, pipe, status, call, need, seen, answer>>

-----------------------------------------------------------------------------
(* The terminal *)

\* send() of a report: to the socket, or into the queue once cb knows that it is closed.
Reports ==
  \/ pipe = "open" /\ report' = "made" /\ flight' = flight \union {0}
  \/ pipe # "open" /\ report' \in {"kept", "lost"} /\ UNCHANGED flight

\* Fault: each keystroke begins the window anew.
TypeSlides ==
  /\ typed' = 0 /\ sent' = 0
  /\ IF sent < Throttle THEN UNCHANGED <<flight, report>> ELSE Reports
  /\ UNCHANGED <<heard, screenVars, sessionVars, callVars>>

\* notifyUserInput(): the first keystroke of a window is reported, the others are not.
Type ==
  /\ typed' = 0
  /\ IF sent < Throttle THEN UNCHANGED <<sent, flight, report>> ELSE sent' = 0 /\ Reports
  /\ UNCHANGED <<heard, screenVars, sessionVars, callVars>>

\* onUserInput(): the frames arrive in order and carry the time of cb.
UserInputArrives ==
  \E t \in flight :
    /\ \A u \in flight : u <= t
    /\ heard' = t
    /\ flight' = flight \ {t}
    /\ UNCHANGED <<typed, sent, report, screenVars, sessionVars, callVars>>

Shows(s) ==
  /\ screen' = s
  /\ still' = IF s = screen THEN still ELSE 0

\* onStdout(): what is written need not change the last lines. What cb wrote before its end
\* broke is still read.
Output ==
  /\ pipe # "lost"
  /\ \E s \in Screens : Shows(s)
  /\ quiet' = 0
  /\ UNCHANGED <<userVars, sessionVars, callVars>>

\* onResize(): lines are wrapped anew, which is no output.
Resize ==
  /\ pipe # "lost"
  /\ \E s \in Screens : Shows(s)
  /\ UNCHANGED <<userVars, quiet, sessionVars, callVars>>

ChildExits ==
  /\ child = "runs"
  /\ child' = "gone"
  /\ UNCHANGED <<userVars, screenVars, pipe, up, status, callVars>>

\* Of the frames under way those in S will not be read.
Loses(S) ==
  /\ flight' = flight \ S
  /\ report' = IF sent \in S \intersect flight THEN "lost" ELSE report

\* cb's end is closed: what it wrote last may be lost, and the daemon does not know yet.
PipeBreaks ==
  /\ pipe = "open"
  /\ pipe' = "broken"
  /\ \E n \in 0..(Horizon + 1) : Loses({t \in flight : t < n})
  /\ UNCHANGED <<typed, sent, heard, screenVars, child, up, status, callVars>>

\* The daemon's socket is destroyed; its close is handled later.
SocketDestroyed ==
  /\ pipe # "lost" /\ status = "alive"
  /\ pipe' = "lost"
  /\ Loses(flight)
  /\ UNCHANGED <<typed, sent, heard, screenVars, child, up, status, callVars>>

\* A hello with resumeSessionId, and what cb kept, if it was not evicted. Of the reports
\* that it kept the last one stands for all.
Resume ==
  /\ pipe # "open" /\ status = "alive" /\ child = "runs"
  /\ pipe' = "open" /\ up' = 0
  /\ \/ report = "kept" /\ report' = "made" /\ flight' = {sent}
     \/ report = "kept" /\ report' = "lost" /\ flight' = {}
     \/ report # "kept" /\ Loses(flight)
  /\ UNCHANGED <<typed, sent, heard, screenVars, child, status, callVars>>

\* markDead() for a bye, a close, missed pongs or the pid poll.
MarkDead ==
  /\ status = "alive"
  /\ status' = "dead"
  /\ pipe' = "lost"
  /\ Loses(flight)
  /\ UNCHANGED <<typed, sent, heard, screenVars, child, up, callVars>>

-----------------------------------------------------------------------------
(* How a call goes on *)

Begin(r, kind, n) ==
  /\ call' = [call EXCEPT ![r] = kind]
  /\ need' = [need EXCEPT ![r] = n]
  /\ age' = [age EXCEPT ![r] = 0]
  /\ seen' = [seen EXCEPT ![r] = <<>>]
  /\ answer' = [answer EXCEPT ![r] = "none"]

Sleeps(r, t) == wake' = [wake EXCEPT ![r] = t]

Ends(r, what) ==
  /\ call' = [call EXCEPT ![r] = "none"]
  /\ need' = [need EXCEPT ![r] = 0]
  /\ age' = [age EXCEPT ![r] = 0]
  /\ wake' = [wake EXCEPT ![r] = 0]
  /\ seen' = [seen EXCEPT ![r] = <<>>]
  /\ answer' = [answer EXCEPT ![r] = what]

-----------------------------------------------------------------------------
(* tryInject() *)

\* Session.inject() returns the number of bytes, which are lost if only cb's end is broken.
Delivers == pipe # "lost" /\ child = "runs" /\ UNCHANGED <<sessionVars, flight, report>>

\* Session.inject() returns 0: the probe finds that the process is gone, or there is no pipe.
Fails ==
  \/ pipe = "lost" /\ UNCHANGED <<sessionVars, flight, report>>
  \/ /\ pipe # "lost" /\ child = "gone"
     /\ status' = "dead" /\ pipe' = "lost" /\ Loses(flight)
     /\ UNCHANGED <<child, up>>

\* What is written is answered, and followed by a watcher.
DoInject(r, n) ==
  \/ Fails /\ Ends(r, "session_dead")
  \/ Delivers /\ Begin(r, "watch", n) /\ Sleeps(r, TickMs)

\* Fault: it sleeps its 200 ms also when less is missing.
NapLong(n) == Poll

\* Until the user will have been silent for long enough, but not longer than Poll.
Nap(n) == IF n - heard < Poll THEN n - heard ELSE Poll

StartInject(r) ==
  /\ ~Runs(r)
  /\ \E n \in Needs :
       \/ /\ status = "dead"
          /\ Ends(r, "session_dead")
          /\ UNCHANGED <<sessionVars, flight, report>>
       \/ status = "alive" /\ heard >= n /\ DoInject(r, n)
       \/ /\ status = "alive" /\ heard < n
          /\ Begin(r, "inject", n)
          /\ Sleeps(r, Nap(n))
          /\ UNCHANGED <<sessionVars, flight, report>>
  /\ UNCHANGED <<typed, sent, heard, screenVars>>

\* Whether the session died is looked up after each sleep, the time before each try.
WakeInject(r) ==
  /\ call[r] = "inject"
  /\ Due(r)
  /\ \/ /\ status = "dead"
        /\ Ends(r, "session_dead")
        /\ UNCHANGED <<sessionVars, flight, report>>
     \/ /\ status = "alive" /\ age[r] >= Cap
        /\ Ends(r, "user_active")
        /\ UNCHANGED <<sessionVars, flight, report>>
     \/ status = "alive" /\ age[r] < Cap /\ heard >= need[r] /\ DoInject(r, need[r])
     \/ /\ status = "alive" /\ age[r] < Cap /\ heard < need[r]
        /\ Sleeps(r, Nap(need[r]))
        /\ UNCHANGED <<sessionVars, flight, report, call, need, age, seen, answer>>
  /\ UNCHANGED <<typed, sent, heard, screenVars>>

-----------------------------------------------------------------------------
(* waitForIdle() and startIdleWatcher() *)

Waits(r) == call[r] \in {"idle", "watch"}

StartWait(r) ==
  /\ ~Runs(r)
  /\ Begin(r, "idle", 0)
  /\ Sleeps(r, TickMs)
  /\ UNCHANGED <<userVars, screenVars, sessionVars>>

Push(hashes, h) ==
  IF Len(hashes) = Stable THEN Append(Tail(hashes), h) ELSE Append(hashes, h)

\* Fault: one more than there can be.
AllEqualBeyond(hashes) ==
  /\ Len(hashes) > Stable
  /\ \A i \in 1..Stable : hashes[i] = hashes[1]

AllEqual(hashes) ==
  /\ Len(hashes) = Stable
  /\ \A i \in 1..Stable : hashes[i] = hashes[1]

\* The screen is hashed, and the answer is idle if it was the same Stable times.
Sample(r) ==
  LET hashes == Push(seen[r], screen)
  IN  IF AllEqual(hashes)
      THEN Ends(r, "idle")
      ELSE /\ seen' = [seen EXCEPT ![r] = hashes]
           /\ Sleeps(r, TickMs)
           /\ UNCHANGED <<call, need, age, answer>>

SkipTick(r) == Sleeps(r, TickMs) /\ UNCHANGED <<call, need, age, seen, answer>>

\* Fault: recent output postpones the end of the wait too.
WaitTickPatiently(r) ==
  /\ Waits(r)
  /\ Due(r)
  /\ \/ quiet < MinSilent /\ SkipTick(r)
     \/ age[r] > Timeout /\ quiet >= MinSilent /\ Ends(r, "timeout")
     \/ age[r] <= Timeout /\ quiet >= MinSilent /\ Sample(r)
  /\ UNCHANGED <<userVars, screenVars, sessionVars>>

\* The time is up, output is recent, or the screen can be hashed. A session that has died
\* is waited for like any other.
WaitTick(r) ==
  /\ Waits(r)
  /\ Due(r)
  /\ \/ age[r] > Timeout /\ Ends(r, "timeout")
     \/ age[r] <= Timeout /\ quiet < MinSilent /\ SkipTick(r)
     \/ age[r] <= Timeout /\ quiet >= MinSilent /\ Sample(r)
  /\ UNCHANGED <<userVars, screenVars, sessionVars>>

\* The notifications drop the watcher.
CancelWatch(r) ==
  /\ call[r] = "watch"
  /\ Ends(r, "cancelled")
  /\ UNCHANGED <<userVars, screenVars, sessionVars>>

-----------------------------------------------------------------------------
(* waitForPattern() *)

\* Fault: the screen is scanned at the first tick.
StartPatternLater(r) ==
  /\ ~Runs(r)
  /\ \/ Ends(r, "invalid")
     \/ Begin(r, "pattern", 0) /\ Sleeps(r, TickMs)
  /\ UNCHANGED <<userVars, screenVars, sessionVars>>

\* An invalid expression matches nothing and ends at once, else the screen is scanned at once.
StartPattern(r) ==
  /\ ~Runs(r)
  /\ \/ Ends(r, "invalid")
     \/ screen \in Matching /\ Ends(r, "match")
     \/ screen \notin Matching /\ Begin(r, "pattern", 0) /\ Sleeps(r, TickMs)
  /\ UNCHANGED <<userVars, screenVars, sessionVars>>

\* The screen is scanned once more before the wait gives up.
PatternTick(r) ==
  /\ call[r] = "pattern"
  /\ Due(r)
  /\ \/ screen \in Matching /\ Ends(r, "match")
     \/ screen \notin Matching /\ age[r] >= Timeout /\ Ends(r, "nomatch")
     \/ screen \notin Matching /\ age[r] < Timeout /\ SkipTick(r)
  /\ UNCHANGED <<userVars, screenVars, sessionVars>>

-----------------------------------------------------------------------------

Next ==
  \/ Pass \/ Type \/ UserInputArrives \/ Output \/ Resize
  \/ ChildExits \/ PipeBreaks \/ SocketDestroyed \/ Resume \/ MarkDead
  \/ \E r \in Requests :
       \/ StartInject(r) \/ WakeInject(r)
       \/ StartWait(r) \/ WaitTick(r) \/ CancelWatch(r)
       \/ StartPattern(r) \/ PatternTick(r)

Spec == Init /\ [][Next]_vars

-----------------------------------------------------------------------------
(* Properties *)

\* The step answers the call that runs in r, or writes what it injects.
Answered(r, what) == Runs(r) /\ call'[r] = "none" /\ answer'[r] = what
Written(r) == call[r] \in {"none", "inject"} /\ call'[r] = "watch"

\* What the user typed last is older than what the request needs, less the window in which cb
\* reports but the first keystroke, or so young that the news is still under way.
Silent(r) == typed + Throttle > need'[r] \/ typed <= Lag

\* Cb has said hello so lately that the report of a keystroke may be under way for it.
New == up <= Lag

\* tryInject() writes into the terminal when the user is silent, through breaks, resumes and
\* late reports, as far as the session can know: unless the last report got lost with a socket
\* or with the session before this one, or the session is new.
WrittenInSilence ==
  [][\A r \in Requests :
       Written(r) /\ pipe = "open" /\ report = "made" => Silent(r) \/ New]_vars

\* What README.md says of injects, whatever became of a report: they "block while the user is
\* actively typing in the target session".
TypingNeverTrampled ==
  [][\A r \in Requests : Written(r) /\ pipe = "open" => Silent(r) \/ New]_vars

\* No inject sleeps past the moment in which the user has been silent for long enough.
NoPauseMissed ==
  \A r \in Requests : call[r] = "inject" => heard <= need[r]

\* Every request is answered within its limit and one period of its timer, however the user
\* types, the program writes and the session dies: no client times out on a daemon that is up.
AnsweredInTime ==
  \A r \in Requests :
    /\ call[r] = "inject" => age[r] < Cap + Poll
    /\ Waits(r) => age[r] <= Timeout + TickMs
    /\ call[r] = "pattern" => age[r] < Timeout + TickMs

\* A wait for idle gives up only on a terminal that has written or changed within the time
\* that it takes to see that it does not.
TimeoutMeansMoving ==
  [][\A r \in Requests : Answered(r, "timeout") /\ Timeout >= Stable * TickMs
        => quiet < MinSilent + Stable * TickMs \/ still <= Stable * TickMs]_vars

\* What a client waits for does not stand on the screen for longer than a tick before the
\* wait ends with it, whenever it appeared: before, at the start of the wait, or between ticks.
MatchSeen ==
  \A r \in Requests : call[r] = "pattern" /\ screen \in Matching => still <= TickMs

=============================================================================
