------------------------------ MODULE TerminalProof ------------------------------
(***************************************************************************)
(* What holds of Terminal for every value of the constants.                *)
(***************************************************************************)
EXTENDS Terminal, TLAPS

-----------------------------------------------------------------------------
(* Types *)

LEMMA OlderIsClock ==
  ASSUME NEW t \in Clock
  PROVE  Older(t) \in Clock /\ t <= Older(t) /\ Older(t) <= t + 1
BY TimesAssumption DEF Older, Clock

CallsTyped ==
  /\ call \in [Requests -> Calls]
  /\ need \in [Requests -> Needs \union {0}]
  /\ age \in [Requests -> Nat]
  /\ wake \in [Requests -> Nat]
  /\ seen \in [Requests -> Seq(Screens)] /\ \A r \in Requests : Len(seen[r]) <= Stable
  /\ answer \in [Requests -> Answers]

RestTyped ==
  /\ typed \in Clock /\ sent \in Clock /\ heard \in Clock
  /\ flight \in SUBSET Clock
  /\ report \in {"made", "kept", "lost"}
  /\ quiet \in Clock /\ still \in Clock
  /\ screen \in Screens
  /\ child \in {"runs", "gone"}
  /\ pipe \in {"open", "broken", "lost"}
  /\ up \in 0..(Lag + 1)
  /\ status \in {"alive", "dead"}

LEMMA TypeOKParts == TypeOK <=> RestTyped /\ CallsTyped
BY DEF TypeOK, RestTyped, CallsTyped

LEMMA BeginTyped ==
  ASSUME CallsTyped, NEW r \in Requests, NEW kind \in Calls, NEW n \in Needs \union {0},
         NEW t \in Nat, Begin(r, kind, n), Sleeps(r, t)
  PROVE  CallsTyped'
<1>1. <<>> \in Seq(Screens) /\ Len(<<>>) = 0
  OBVIOUS
<1>2. /\ call' \in [Requests -> Calls] /\ need' \in [Requests -> Needs \union {0}]
      /\ age' \in [Requests -> Nat] /\ wake' \in [Requests -> Nat]
      /\ answer' \in [Requests -> Answers]
  BY DEF CallsTyped, Begin, Sleeps, Answers
<1>3. seen' \in [Requests -> Seq(Screens)] /\ \A q \in Requests : Len(seen'[q]) <= Stable
  BY <1>1, TimesAssumption DEF CallsTyped, Begin
<1> QED
  BY <1>2, <1>3 DEF CallsTyped

LEMMA EndsTyped ==
  ASSUME CallsTyped, NEW r \in Requests, NEW what \in Answers, Ends(r, what)
  PROVE  CallsTyped'
<1>1. <<>> \in Seq(Screens) /\ Len(<<>>) = 0
  OBVIOUS
<1>2. /\ call' \in [Requests -> Calls] /\ need' \in [Requests -> Needs \union {0}]
      /\ age' \in [Requests -> Nat] /\ wake' \in [Requests -> Nat]
      /\ answer' \in [Requests -> Answers]
  BY DEF CallsTyped, Ends, Calls
<1>3. seen' \in [Requests -> Seq(Screens)] /\ \A q \in Requests : Len(seen'[q]) <= Stable
  BY <1>1, TimesAssumption DEF CallsTyped, Ends
<1> QED
  BY <1>2, <1>3 DEF CallsTyped

LEMMA SleepsTyped ==
  ASSUME CallsTyped, NEW r \in Requests, NEW t \in Nat, Sleeps(r, t),
         UNCHANGED <<call, need, age, seen, answer>>
  PROVE  CallsTyped'
BY DEF CallsTyped, Sleeps

LEMMA NapIsTime ==
  ASSUME heard \in Clock, NEW n \in Needs \union {0}, heard < n
  PROVE  Nap(n) \in Nat /\ Nap(n) + heard <= n /\ Nap(n) <= Poll
BY TimesAssumption DEF Nap, Clock

LEMMA PushTyped ==
  ASSUME NEW s \in Seq(Screens), Len(s) <= Stable, NEW h \in Screens
  PROVE  Push(s, h) \in Seq(Screens) /\ Len(Push(s, h)) <= Stable
<1>1. CASE Len(s) = Stable
  <2>1. s # <<>>
    BY <1>1, TimesAssumption
  <2>2. Tail(s) \in Seq(Screens) /\ Len(Tail(s)) = Stable - 1
    BY <1>1, <2>1, TimesAssumption
  <2> QED
    BY <1>1, <2>2, TimesAssumption DEF Push
<1>2. CASE Len(s) # Stable
  BY <1>2, TimesAssumption DEF Push
<1> QED
  BY <1>1, <1>2

-----------------------------------------------------------------------------
(* What the clocks of the user have to do with each other *)

\* cb reports the first keystroke of each window, in order: what is under way is younger than
\* what has arrived, and the last report, if it was made, is one or the other.
UserInv ==
  /\ \A t \in flight : sent <= t /\ t <= heard /\ (t <= Lag \/ up <= Lag)
  /\ report = "made" => heard <= sent \/ sent \in flight
  /\ report # "made" => sent <= heard
  /\ typed <= sent
  /\ sent < typed + Throttle

\* A call that sleeps will be awake before its limit, an inject before the silence it waits
\* for is over.
CallOK(r) ==
  /\ call[r] = "inject" => wake[r] + heard <= need[r] /\ age[r] + wake[r] < Cap + Poll
  /\ call[r] \in {"idle", "watch"} => age[r] + wake[r] <= Timeout + TickMs
  /\ call[r] = "pattern" => age[r] + wake[r] < Timeout + TickMs

CallInv == \A r \in Requests : CallOK(r)

IInv == TypeOK /\ UserInv /\ CallInv

LEMMA InitIInv == Init => IInv
<1> SUFFICES ASSUME Init PROVE IInv
  OBVIOUS
<1>1. <<>> \in Seq(Screens) /\ Len(<<>>) = 0
  OBVIOUS
<1>6. 0 \in Clock /\ Horizon \in Clock /\ heard \in Clock /\ heard <= Horizon
  BY TimesAssumption DEF Init, Clock
<1>8. ASSUME typed \in Clock, sent \in Clock, typed <= sent, sent < typed + Throttle,
             heard = Horizon \/ heard > Default + sent
      PROVE  sent <= heard
  BY <1>6, <1>8, TimesAssumption DEF Clock
<1>9. /\ typed \in Clock /\ sent \in Clock
      /\ typed <= sent /\ sent < typed + Throttle
      /\ \/ report = "made" /\ flight = {} /\ heard <= sent
         \/ report = "made" /\ flight = {sent} /\ sent <= heard
         \/ report = "lost" /\ flight = {} /\ sent <= heard
  <2>1. CASE typed = Horizon /\ sent = Horizon /\ report = "made" /\ flight = {}
    BY <1>6, <2>1, TimesAssumption DEF Clock
  <2>2. CASE ~(typed = Horizon /\ sent = Horizon /\ report = "made" /\ flight = {})
    BY <1>8, <2>2 DEF Init
  <2> QED
    BY <2>1, <2>2
<1>10. up = 0 /\ 0 \in 0..(Lag + 1) /\ 0 <= Lag
  BY TimesAssumption DEF Init
<1>2. RestTyped
  BY <1>6, <1>9, <1>10 DEF Init, RestTyped
<1>3. CallsTyped
  BY <1>1, TimesAssumption DEF Init, CallsTyped, Calls, Answers
<1>4. UserInv
  <2>1. \A t \in flight : t = sent /\ (t <= Lag \/ up <= Lag)
    BY <1>9, <1>10
  <2>2. sent <= sent
    BY <1>9 DEF Clock
  <2> QED
    BY <1>9, <2>1, <2>2 DEF UserInv
<1>5. CallInv
  BY DEF Init, CallInv, CallOK
<1> QED
  BY <1>2, <1>3, <1>4, <1>5, TypeOKParts DEF IInv

\* Frames that get lost take with them what is said of them.
LEMMA LosesSome ==
  ASSUME RestTyped, UserInv, UNCHANGED <<typed, sent, heard, up>>, NEW S, Loses(S)
  PROVE  UserInv' /\ flight' \in SUBSET Clock /\ report' \in {"made", "kept", "lost"}
BY DEF UserInv, Loses, RestTyped

LEMMA RestStays ==
  ASSUME RestTyped, UserInv,
         UNCHANGED <<typed, sent, heard, flight, report, screenVars, sessionVars>>
  PROVE  RestTyped' /\ UserInv'
<1>1. /\ typed' = typed /\ sent' = sent /\ heard' = heard /\ flight' = flight
      /\ report' = report
      /\ quiet' = quiet /\ screen' = screen /\ still' = still
      /\ child' = child /\ pipe' = pipe /\ up' = up /\ status' = status
  BY DEF screenVars, sessionVars
<1>2. RestTyped'
  BY <1>1 DEF RestTyped
<1>3. UserInv'
  BY <1>1 DEF UserInv
<1> QED
  BY <1>2, <1>3

LEMMA CallsRest ==
  ASSUME CallsTyped, CallInv, UNCHANGED <<heard, callVars>>
  PROVE  CallsTyped' /\ CallInv'
BY DEF CallsTyped, CallInv, CallOK, callVars

LEMMA EndsCall ==
  ASSUME CallsTyped, CallInv, UNCHANGED heard, NEW r \in Requests, NEW what \in Answers,
         Ends(r, what)
  PROVE  CallsTyped' /\ CallInv'
<1>1. \A q \in Requests : CallOK(q)'
  BY DEF CallsTyped, CallInv, CallOK, Ends
<1> QED
  BY <1>1, EndsTyped DEF CallInv

LEMMA BeginsCall ==
  ASSUME CallsTyped, CallInv, UNCHANGED heard, heard \in Clock,
         NEW r \in Requests, NEW kind \in Calls, NEW n \in Needs \union {0}, NEW t \in Nat,
         kind = "inject" => t + heard <= n /\ t <= Poll,
         kind # "inject" => t <= TickMs,
         Begin(r, kind, n), Sleeps(r, t)
  PROVE  CallsTyped' /\ CallInv'
<1>1. ASSUME NEW q \in Requests, q # r PROVE CallOK(q)'
  BY <1>1 DEF CallsTyped, CallInv, CallOK, Begin, Sleeps
<1>2. call'[r] = kind /\ need'[r] = n /\ age'[r] = 0 /\ wake'[r] = t
  BY DEF CallsTyped, Begin, Sleeps
<1>3. CallOK(r)'
  BY <1>2, TimesAssumption DEF CallOK, Clock
<1> QED
  BY <1>1, <1>3, BeginTyped DEF CallInv

LEMMA SleepsOn ==
  ASSUME CallsTyped, CallInv, UNCHANGED <<heard, call, need, age, answer>>, NEW r \in Requests,
         NEW t \in Nat, Sleeps(r, t), (CallOK(r))',
         seen' \in [Requests -> Seq(Screens)] /\ \A q \in Requests : Len(seen'[q]) <= Stable
  PROVE  CallsTyped' /\ CallInv'
<1>1. \A q \in Requests : q # r => CallOK(q)'
  BY DEF CallsTyped, CallInv, CallOK, Sleeps
<1>2. wake' \in [Requests -> Nat]
  BY DEF CallsTyped, Sleeps
<1> QED
  BY <1>1, <1>2 DEF CallInv, CallsTyped

-----------------------------------------------------------------------------
(* Steps of tryInject() *)

LEMMA DoInjectStep ==
  ASSUME RestTyped, CallsTyped, UserInv, CallInv,
         UNCHANGED <<typed, sent, heard, screenVars>>,
         NEW r \in Requests, NEW n \in Needs \union {0}, DoInject(r, n)
  PROVE  RestTyped' /\ CallsTyped' /\ UserInv' /\ CallInv'
<1>1. "session_dead" \in Answers /\ "watch" \in Calls
  BY DEF Answers, Calls
<1>2. CASE Ends(r, "session_dead") /\ UNCHANGED <<sessionVars, flight, report>>
  <2>1. RestTyped' /\ UserInv'
    BY <1>2, RestStays
  <2> QED
    BY <1>1, <1>2, <2>1, EndsCall
<1>3. CASE /\ Ends(r, "session_dead")
           /\ status' = "dead" /\ pipe' = "lost" /\ Loses(flight)
           /\ UNCHANGED <<child, up>>
  <2>1. UserInv' /\ flight' \in SUBSET Clock /\ report' \in {"made", "kept", "lost"}
    BY <1>3, LosesSome
  <2>2. RestTyped'
    BY <1>3, <2>1 DEF RestTyped, screenVars
  <2> QED
    BY <1>1, <1>3, <2>1, <2>2, EndsCall
<1>4. CASE Begin(r, "watch", n) /\ Sleeps(r, TickMs) /\ UNCHANGED <<sessionVars, flight, report>>
  <2>1. RestTyped' /\ UserInv'
    BY <1>4, RestStays
  <2>2. TickMs \in Nat /\ heard \in Clock
    BY TimesAssumption DEF RestTyped
  <2>3. CallsTyped' /\ CallInv'
    BY <1>1, <1>4, <2>2, BeginsCall
  <2> QED
    BY <2>1, <2>3
<1> QED
  BY <1>2, <1>3, <1>4 DEF DoInject, Fails, Delivers

LEMMA StartInjectStep ==
  ASSUME RestTyped, CallsTyped, UserInv, CallInv, NEW r \in Requests, StartInject(r)
  PROVE  RestTyped' /\ CallsTyped' /\ UserInv' /\ CallInv'
<1>1. UNCHANGED <<typed, sent, heard, screenVars>>
  BY DEF StartInject
<1>2. PICK n \in Needs :
       \/ /\ status = "dead"
          /\ Ends(r, "session_dead")
          /\ UNCHANGED <<sessionVars, flight, report>>
       \/ status = "alive" /\ heard >= n /\ DoInject(r, n)
       \/ /\ status = "alive" /\ heard < n
          /\ Begin(r, "inject", n)
          /\ Sleeps(r, Nap(n))
          /\ UNCHANGED <<sessionVars, flight, report>>
  BY DEF StartInject
<1>3. "session_dead" \in Answers /\ "inject" \in Calls /\ heard \in Clock
  BY DEF Answers, Calls, RestTyped
<1>4. UNCHANGED <<sessionVars, flight, report>> => RestTyped' /\ UserInv'
  BY <1>1, RestStays
<1>5. CASE Ends(r, "session_dead") /\ UNCHANGED <<sessionVars, flight, report>>
  BY <1>1, <1>3, <1>4, <1>5, EndsCall
<1>6. CASE DoInject(r, n)
  BY <1>1, <1>6, DoInjectStep
<1>7. CASE /\ heard < n
           /\ Begin(r, "inject", n)
           /\ Sleeps(r, Nap(n))
           /\ UNCHANGED <<sessionVars, flight, report>>
  <2>1. Nap(n) \in Nat /\ Nap(n) + heard <= n /\ Nap(n) <= Poll
    BY <1>3, <1>7, NapIsTime
  <2>2. CallsTyped' /\ CallInv'
    BY <1>1, <1>3, <1>7, <2>1, BeginsCall
  <2> QED
    BY <1>4, <1>7, <2>2
<1> QED
  BY <1>2, <1>5, <1>6, <1>7

LEMMA WakeInjectStep ==
  ASSUME RestTyped, CallsTyped, UserInv, CallInv, NEW r \in Requests, WakeInject(r)
  PROVE  RestTyped' /\ CallsTyped' /\ UserInv' /\ CallInv'
<1>1. UNCHANGED <<typed, sent, heard, screenVars>> /\ call[r] = "inject"
  BY DEF WakeInject
<1>2. {"session_dead", "user_active"} \subseteq Answers /\ heard \in Clock
  BY DEF Answers, RestTyped
<1>3. need[r] \in Needs \union {0}
  BY DEF CallsTyped
<1>4. UNCHANGED <<sessionVars, flight, report>> => RestTyped' /\ UserInv'
  BY <1>1, RestStays
<1>5. CASE /\ Ends(r, "session_dead") \/ Ends(r, "user_active")
           /\ UNCHANGED <<sessionVars, flight, report>>
  BY <1>1, <1>2, <1>4, <1>5, EndsCall
<1>6. CASE DoInject(r, need[r])
  BY <1>1, <1>3, <1>6, DoInjectStep
<1>7. CASE /\ age[r] < Cap /\ heard < need[r]
           /\ Sleeps(r, Nap(need[r]))
           /\ UNCHANGED <<sessionVars, flight, report, call, need, age, seen, answer>>
  <2>1. /\ Nap(need[r]) \in Nat
        /\ Nap(need[r]) + heard <= need[r] /\ Nap(need[r]) <= Poll
    BY <1>2, <1>3, <1>7, NapIsTime
  <2>2. wake'[r] = Nap(need[r]) /\ age[r] \in Nat
    BY <1>7 DEF Sleeps, CallsTyped
  <2>3. (CallOK(r))'
    BY <1>1, <1>2, <1>3, <1>7, <2>1, <2>2, TimesAssumption DEF CallOK, Clock
  <2>4. seen' \in [Requests -> Seq(Screens)] /\ \A q \in Requests : Len(seen'[q]) <= Stable
    BY <1>7 DEF CallsTyped
  <2>5. CallsTyped' /\ CallInv'
    BY <1>1, <1>7, <2>1, <2>3, <2>4, SleepsOn
  <2> QED
    BY <1>4, <1>7, <2>5
<1> QED
  BY <1>5, <1>6, <1>7 DEF WakeInject

-----------------------------------------------------------------------------
(* Steps of the waits *)

LEMMA SkipTickStep ==
  ASSUME CallsTyped, CallInv, UNCHANGED heard, NEW r \in Requests, SkipTick(r),
         \/ call[r] \in {"idle", "watch"} /\ age[r] <= Timeout
         \/ call[r] = "pattern" /\ age[r] < Timeout
  PROVE  CallsTyped' /\ CallInv'
<1>1. TickMs \in Nat
  BY TimesAssumption
<1>2. wake'[r] = TickMs /\ age[r] \in Nat
  BY DEF SkipTick, Sleeps, CallsTyped
<1>3. (CallOK(r))'
  BY <1>2, TimesAssumption DEF CallOK, SkipTick
<1> QED
  BY <1>1, <1>3, SleepsOn DEF SkipTick, CallsTyped

LEMMA SampleStep ==
  ASSUME CallsTyped, CallInv, UNCHANGED heard, screen \in Screens, NEW r \in Requests, Sample(r),
         call[r] \in {"idle", "watch"}, age[r] <= Timeout
  PROVE  CallsTyped' /\ CallInv'
<1> DEFINE hashes == Push(seen[r], screen)
<1>1. CASE Ends(r, "idle")
  BY <1>1, EndsCall DEF Answers
<1>2. CASE /\ seen' = [seen EXCEPT ![r] = hashes]
           /\ Sleeps(r, TickMs)
           /\ UNCHANGED <<call, need, age, answer>>
  <2>1. TickMs \in Nat
    BY TimesAssumption
  <2>2. wake'[r] = TickMs /\ age[r] \in Nat
    BY <1>2 DEF Sleeps, CallsTyped
  <2>3. (CallOK(r))'
    BY <1>2, <2>2, TimesAssumption DEF CallOK
  <2>4. hashes \in Seq(Screens) /\ Len(hashes) <= Stable
    BY PushTyped DEF CallsTyped
  <2>5. seen' \in [Requests -> Seq(Screens)] /\ \A q \in Requests : Len(seen'[q]) <= Stable
    <3> HIDE DEF hashes
    <3> QED
      BY <1>2, <2>4 DEF CallsTyped
  <2> QED
    BY <1>2, <2>1, <2>3, <2>5, SleepsOn
<1> QED
  BY <1>1, <1>2 DEF Sample

LEMMA RequestStep ==
  ASSUME RestTyped, CallsTyped, UserInv, CallInv, NEW r \in Requests,
         StartWait(r) \/ WaitTick(r) \/ CancelWatch(r) \/ StartPattern(r) \/ PatternTick(r)
  PROVE  RestTyped' /\ CallsTyped' /\ UserInv' /\ CallInv'
<1>1. UNCHANGED <<userVars, screenVars, sessionVars>>
  BY DEF StartWait, WaitTick, CancelWatch, StartPattern, PatternTick
<1>2. RestTyped' /\ UserInv'
  BY <1>1, RestStays DEF userVars
<1>3. UNCHANGED heard /\ heard \in Clock /\ screen \in Screens /\ TickMs \in Nat
  BY <1>1, TimesAssumption DEF userVars, RestTyped
<1>4. {"timeout", "cancelled", "invalid", "match", "nomatch"} \subseteq Answers
  BY DEF Answers
<1>5. {"idle", "pattern"} \subseteq Calls
  BY DEF Calls
<1>6. CASE StartWait(r)
  BY <1>3, <1>5, <1>6, BeginsCall, <1>2 DEF StartWait
<1>7. CASE WaitTick(r)
  BY <1>2, <1>3, <1>4, <1>7, EndsCall, SkipTickStep, SampleStep DEF WaitTick, Waits
<1>8. CASE CancelWatch(r)
  BY <1>2, <1>3, <1>4, <1>8, EndsCall DEF CancelWatch
<1>9. CASE StartPattern(r)
  BY <1>2, <1>3, <1>4, <1>5, <1>9, EndsCall, BeginsCall DEF StartPattern
<1>10. CASE PatternTick(r)
  BY <1>2, <1>3, <1>4, <1>10, EndsCall, SkipTickStep DEF PatternTick
<1> QED
  BY <1>6, <1>7, <1>8, <1>9, <1>10

-----------------------------------------------------------------------------
(* Time and the terminal *)

LEMMA CallTimes ==
  ASSUME CallsTyped, NEW r \in Requests
  PROVE  need[r] \in Clock /\ wake[r] \in Nat /\ age[r] \in Nat
<1>1. need[r] \in Needs \union {0} /\ wake[r] \in Nat /\ age[r] \in Nat
  BY DEF CallsTyped
<1>2. Needs \subseteq 0..Horizon /\ 0 \in 0..Horizon
  BY TimesAssumption
<1> QED
  BY <1>1, <1>2 DEF Clock

LEMMA PassStep ==
  ASSUME RestTyped, CallsTyped, UserInv, CallInv, Pass
  PROVE  RestTyped' /\ CallsTyped' /\ UserInv' /\ CallInv'
<1>1. UNCHANGED <<report, screen, child, pipe, status>>
  BY DEF Pass
<1>2. RestTyped'
  <2>1. typed' \in Clock /\ sent' \in Clock /\ heard' \in Clock
        /\ quiet' \in Clock /\ still' \in Clock
    BY OlderIsClock DEF Pass, RestTyped
  <2>2. flight' \in SUBSET Clock
    BY OlderIsClock DEF Pass, RestTyped
  <2>3. up' \in 0..(Lag + 1)
    BY TimesAssumption DEF Pass, RestTyped
  <2> QED
    BY <1>1, <2>1, <2>2, <2>3 DEF RestTyped
<1>3. ASSUME NEW r \in Requests
      PROVE  /\ Runs(r) => wake'[r] \in Nat /\ wake'[r] = wake[r] - 1 /\ age'[r] = age[r] + 1
             /\ ~Runs(r) => wake'[r] = wake[r] /\ age'[r] = age[r]
             /\ age'[r] \in Nat /\ wake'[r] \in Nat
  BY DEF Pass, CallsTyped, Due
<1>4. CallsTyped'
  <2>1. age' \in [Requests -> Nat] /\ wake' \in [Requests -> Nat]
    BY <1>3 DEF Pass
  <2> QED
    BY <2>1 DEF Pass, CallsTyped
<1>5. UserInv'
  <2>1. \A t \in flight' : sent' <= t /\ t <= heard' /\ (t <= Lag \/ up' <= Lag)
    <3> SUFFICES ASSUME NEW u \in flight
                 PROVE  /\ sent' <= Older(u) /\ Older(u) <= heard'
                        /\ Older(u) <= Lag \/ up' <= Lag
      BY DEF Pass
    <3>1. sent <= u /\ u <= heard /\ (u < Lag \/ up < Lag)
      BY DEF Pass, UserInv
    <3>2. u \in Clock /\ sent \in Clock /\ heard \in Clock /\ up \in 0..(Lag + 1)
      BY DEF RestTyped
    <3> QED
      BY <3>1, <3>2, TimesAssumption DEF Pass, Older, Clock
  <2>2. report' = "made" => heard' <= sent' \/ sent' \in flight'
    <3>1. report' = report /\ flight' = {Older(t) : t \in flight}
      BY DEF Pass
    <3>2. heard <= sent => heard' <= sent'
      BY TimesAssumption DEF Pass, RestTyped, Older, Clock
    <3>3. sent \in flight => sent' \in flight'
      BY <3>1 DEF Pass
    <3> QED
      BY <3>1, <3>2, <3>3 DEF UserInv
  <2>3. typed' <= sent' /\ sent' < typed' + Throttle
    BY TimesAssumption DEF Pass, UserInv, RestTyped, Older, Clock
  <2>4. report' # "made" => sent' <= heard'
    BY TimesAssumption DEF Pass, UserInv, RestTyped, Older, Clock
  <2> QED
    BY <2>1, <2>2, <2>3, <2>4 DEF UserInv
<1>6. CallInv'
  <2> SUFFICES ASSUME NEW r \in Requests PROVE CallOK(r)'
    BY DEF CallInv
  <2>1. heard' <= heard + 1 /\ heard \in Clock /\ heard' \in Clock
    BY OlderIsClock DEF Pass, RestTyped
  <2>2. call'[r] = call[r] /\ need'[r] = need[r] /\ need[r] \in Clock
        /\ wake[r] \in Nat /\ age[r] \in Nat
    BY CallTimes DEF Pass
  <2>3. CallOK(r)
    BY DEF CallInv
  <2> QED
    BY <1>3, <2>1, <2>2, <2>3, TimesAssumption DEF CallOK, Runs, Clock
<1> QED
  BY <1>2, <1>4, <1>5, <1>6

LEMMA TypeStep ==
  ASSUME RestTyped, CallsTyped, UserInv, CallInv, Type
  PROVE  RestTyped' /\ CallsTyped' /\ UserInv' /\ CallInv'
<1>1. UNCHANGED <<heard, callVars>>
  BY DEF Type
<1>2. /\ quiet' = quiet /\ screen' = screen /\ still' = still
      /\ child' = child /\ pipe' = pipe /\ up' = up /\ status' = status
  BY DEF Type, screenVars, sessionVars
<1>3. 0 \in Clock /\ typed' = 0
  BY TimesAssumption DEF Type, Clock
<1>4. CASE sent < Throttle
  <2>1. sent' = sent /\ flight' = flight /\ report' = report
    BY <1>4 DEF Type
  <2> QED
    BY <1>1, <1>2, <1>3, <1>4, <2>1, CallsRest, TimesAssumption DEF RestTyped, UserInv, Clock
<1>5. CASE ~(sent < Throttle)
  <2>1. sent' = 0 /\ Reports
    BY <1>5 DEF Type
  <2>2. \/ report' = "made" /\ flight' = flight \union {0}
        \/ report' \in {"kept", "lost"} /\ flight' = flight
    BY <2>1 DEF Reports
  <2>3. RestTyped'
    BY <1>1, <1>2, <1>3, <2>1, <2>2 DEF RestTyped
  <2>4. \A t \in flight' : t \in Clock /\ t <= heard' /\ (t <= Lag \/ up' <= Lag)
    <3> SUFFICES ASSUME NEW t \in flight'
                 PROVE  t \in Clock /\ t <= heard /\ (t <= Lag \/ up <= Lag)
      BY <1>1, <1>2
    <3>1. CASE t \in flight
      BY <3>1 DEF RestTyped, UserInv
    <3>2. CASE t = 0
      BY <1>3, <3>2, TimesAssumption DEF RestTyped, Clock
    <3> QED
      BY <2>2, <3>1, <3>2
  <2>5. UserInv'
    <3>1. \A t \in flight' : sent' <= t
      BY <2>1, <2>4 DEF Clock
    <3>2. report' = "made" => sent' \in flight'
      BY <2>1, <2>2
    <3>3. sent' <= heard' /\ typed' <= sent' /\ sent' < typed' + Throttle
      BY <1>1, <1>3, <2>1, TimesAssumption DEF RestTyped, Clock
    <3> QED
      BY <2>4, <3>1, <3>2, <3>3 DEF UserInv
  <2> QED
    BY <1>1, <2>3, <2>5, CallsRest
<1> QED
  BY <1>4, <1>5

LEMMA ArrivalStep ==
  ASSUME RestTyped, CallsTyped, UserInv, CallInv, UserInputArrives
  PROVE  RestTyped' /\ CallsTyped' /\ UserInv' /\ CallInv'
<1>1. PICK t \in flight : /\ \A u \in flight : u <= t
                         /\ heard' = t
                         /\ flight' = flight \ {t}
  BY DEF UserInputArrives
<1>2. /\ typed' = typed /\ sent' = sent /\ report' = report
      /\ quiet' = quiet /\ screen' = screen /\ still' = still
      /\ child' = child /\ pipe' = pipe /\ up' = up /\ status' = status
  BY DEF UserInputArrives, screenVars, sessionVars
<1>3. UNCHANGED <<call, need, age, wake, seen, answer>>
  BY DEF UserInputArrives, callVars
<1>4. t <= heard /\ t \in Clock /\ sent <= t /\ sent \in Clock
  BY <1>1 DEF UserInv, RestTyped
<1>5. RestTyped'
  BY <1>1, <1>2, <1>4 DEF RestTyped
<1>6. UserInv'
  <2>1. \A u \in flight' : sent' <= u /\ u <= heard' /\ (u <= Lag \/ up' <= Lag)
    BY <1>1, <1>2 DEF UserInv
  <2>2. report' = "made" => heard' <= sent' \/ sent' \in flight'
    <3> SUFFICES ASSUME report = "made", sent # t PROVE sent \in flight
      BY <1>1, <1>2, <1>4 DEF Clock
    <3>1. heard <= sent => sent = t
      BY <1>4 DEF RestTyped, Clock
    <3> QED
      BY <3>1 DEF UserInv
  <2>3. sent' <= heard' /\ typed' <= sent' /\ sent' < typed' + Throttle
    BY <1>1, <1>2, <1>4 DEF UserInv
  <2> QED
    BY <2>1, <2>2, <2>3 DEF UserInv
<1>7. CallsTyped'
  BY <1>3 DEF CallsTyped
<1>8. CallInv'
  <2> SUFFICES ASSUME NEW r \in Requests PROVE CallOK(r)'
    BY DEF CallInv
  <2>1. CallOK(r) /\ wake[r] \in Nat /\ need[r] \in Clock /\ heard \in Clock
    BY CallTimes DEF CallInv, RestTyped
  <2> QED
    BY <1>1, <1>3, <1>4, <2>1 DEF CallOK, Clock
<1> QED
  BY <1>5, <1>6, <1>7, <1>8

LEMMA ScreenStep ==
  ASSUME RestTyped, CallsTyped, UserInv, CallInv, Output \/ Resize \/ ChildExits
  PROVE  RestTyped' /\ CallsTyped' /\ UserInv' /\ CallInv'
<1>1. UNCHANGED <<typed, sent, heard, flight, report>> /\ UNCHANGED <<heard, callVars>>
  BY DEF Output, Resize, ChildExits, userVars
<1>2. UNCHANGED <<pipe, up, status>>
  BY DEF Output, Resize, ChildExits, sessionVars
<1>3. UserInv'
  BY <1>1, <1>2 DEF UserInv
<1>4. CallsTyped' /\ CallInv'
  BY <1>1, CallsRest
<1>5. 0 \in Clock
  BY TimesAssumption DEF Clock
<1>6. quiet' \in Clock /\ still' \in Clock /\ screen' \in Screens
  BY <1>5 DEF Output, Resize, ChildExits, Shows, screenVars, RestTyped
<1>7. child' \in {"runs", "gone"}
  BY DEF Output, Resize, ChildExits, sessionVars, RestTyped
<1>8. RestTyped'
  BY <1>1, <1>2, <1>6, <1>7 DEF RestTyped
<1> QED
  BY <1>3, <1>4, <1>8

LEMMA PipeStep ==
  ASSUME RestTyped, CallsTyped, UserInv, CallInv,
         PipeBreaks \/ SocketDestroyed \/ Resume \/ MarkDead
  PROVE  RestTyped' /\ CallsTyped' /\ UserInv' /\ CallInv'
<1>1. /\ UNCHANGED <<heard, callVars>> /\ UNCHANGED <<typed, sent, heard>>
      /\ quiet' = quiet /\ screen' = screen /\ still' = still /\ child' = child
  BY DEF PipeBreaks, SocketDestroyed, Resume, MarkDead, screenVars
<1>2. /\ pipe' \in {"open", "broken", "lost"} /\ status' \in {"alive", "dead"}
      /\ up' \in {0, up}
  BY DEF PipeBreaks, SocketDestroyed, Resume, MarkDead, RestTyped
<1>3. UserInv' /\ flight' \in SUBSET Clock /\ report' \in {"made", "kept", "lost"}
  <2>1. ASSUME up' = up, \E S : Loses(S)
        PROVE  UserInv' /\ flight' \in SUBSET Clock /\ report' \in {"made", "kept", "lost"}
    BY <1>1, <2>1, LosesSome
  <2>2. CASE PipeBreaks \/ SocketDestroyed \/ MarkDead
    BY <2>1, <2>2 DEF PipeBreaks, SocketDestroyed, MarkDead
  <2>3. CASE Resume
    <3>1. up' = 0 /\ 0 <= Lag
      BY <2>3, TimesAssumption DEF Resume
    <3>2. \/ report' = "made" /\ flight' = {sent} /\ report # "made"
          \/ report' = "lost" /\ flight' = {} /\ report # "made"
          \/ Loses(flight)
      BY <2>3 DEF Resume
    <3>3. flight' \in SUBSET Clock /\ report' \in {"made", "kept", "lost"}
      BY <3>2 DEF Loses, RestTyped
    <3>4. \A t \in flight' : sent <= t /\ t <= heard
      BY <3>2 DEF Loses, RestTyped, UserInv, Clock
    <3>5. report' = "made" => heard <= sent \/ sent \in flight'
      BY <3>2 DEF Loses, UserInv
    <3>6. report' # "made" => sent <= heard
      BY <3>2 DEF Loses, UserInv
    <3> QED
      BY <1>1, <3>1, <3>3, <3>4, <3>5, <3>6 DEF UserInv
  <2> QED
    BY <2>2, <2>3
<1>4. CallsTyped' /\ CallInv'
  BY <1>1, CallsRest
<1>5. up' \in 0..(Lag + 1)
  BY <1>2, TimesAssumption DEF RestTyped
<1>6. RestTyped'
  BY <1>1, <1>2, <1>3, <1>5 DEF RestTyped
<1> QED
  BY <1>3, <1>4, <1>6

LEMMA IInvInductive ==
  ASSUME IInv, [Next]_vars
  PROVE  IInv'
<1>1. RestTyped /\ CallsTyped /\ UserInv /\ CallInv
  BY TypeOKParts DEF IInv
<1>2. RestTyped' /\ CallsTyped' /\ UserInv' /\ CallInv'
  <2>1. CASE UNCHANGED vars
    <3>1. /\ UNCHANGED <<typed, sent, heard, flight, report, screenVars, sessionVars>>
          /\ UNCHANGED <<heard, callVars>>
      BY <2>1 DEF vars, userVars
    <3> QED
      BY <1>1, <3>1, RestStays, CallsRest
  <2>2. CASE Pass
    BY <1>1, <2>2, PassStep
  <2>3. CASE Type
    BY <1>1, <2>3, TypeStep
  <2>4. CASE UserInputArrives
    BY <1>1, <2>4, ArrivalStep
  <2>5. CASE Output \/ Resize \/ ChildExits
    BY <1>1, <2>5, ScreenStep
  <2>9. CASE PipeBreaks \/ SocketDestroyed \/ Resume \/ MarkDead
    BY <1>1, <2>9, PipeStep
  <2>6. ASSUME NEW r \in Requests, StartInject(r)
        PROVE  RestTyped' /\ CallsTyped' /\ UserInv' /\ CallInv'
    BY <1>1, <2>6, StartInjectStep
  <2>7. ASSUME NEW r \in Requests, WakeInject(r)
        PROVE  RestTyped' /\ CallsTyped' /\ UserInv' /\ CallInv'
    BY <1>1, <2>7, WakeInjectStep
  <2>8. ASSUME NEW r \in Requests,
               StartWait(r) \/ WaitTick(r) \/ CancelWatch(r) \/ StartPattern(r) \/ PatternTick(r)
        PROVE  RestTyped' /\ CallsTyped' /\ UserInv' /\ CallInv'
    BY <1>1, <2>8, RequestStep
  <2> QED
    BY <2>1, <2>2, <2>3, <2>4, <2>5, <2>6, <2>7, <2>8, <2>9 DEF Next
<1>3. TypeOK'
  BY <1>2, TypeOKParts DEF TypeOK, RestTyped, CallsTyped
<1> QED
  BY <1>2, <1>3 DEF IInv

LEMMA IInvHolds == Spec => []IInv
<1>1. Init => IInv
  BY InitIInv
<1>2. IInv /\ [Next]_vars => IInv'
  BY IInvInductive
<1> QED
  BY <1>1, <1>2, PTL DEF Spec

-----------------------------------------------------------------------------
(* Theorems *)

\* The variables keep their types.
THEOREM TypeCorrect == Spec => []TypeOK
<1>1. IInv => TypeOK
  BY DEF IInv
<1> QED
  BY <1>1, IInvHolds, PTL

\* An inject that waits never lets the silence it waits for go by: its sleeps end with it.
THEOREM InjectsSeizeThePause == Spec => []NoPauseMissed
<1>1. IInv => NoPauseMissed
  <2> SUFFICES ASSUME IInv, NEW r \in Requests, call[r] = "inject" PROVE heard <= need[r]
    BY DEF NoPauseMissed
  <2>1. CallsTyped /\ heard \in Clock /\ CallOK(r)
    BY TypeOKParts DEF IInv, RestTyped, CallInv
  <2>2. need[r] \in Clock /\ wake[r] \in Nat
    BY <2>1, CallTimes
  <2> QED
    BY <2>1, <2>2 DEF CallOK, Clock
<1> QED
  BY <1>1, IInvHolds, PTL

\* Every request is answered within its limit and one period of its timer.
THEOREM RequestsAreAnsweredInTime == Spec => []AnsweredInTime
<1>1. IInv => AnsweredInTime
  <2> SUFFICES ASSUME IInv, NEW r \in Requests
               PROVE  /\ call[r] = "inject" => age[r] < Cap + Poll
                      /\ call[r] \in {"idle", "watch"} => age[r] <= Timeout + TickMs
                      /\ call[r] = "pattern" => age[r] < Timeout + TickMs
    BY DEF AnsweredInTime, Waits
  <2>1. CallOK(r) /\ wake[r] \in Nat /\ age[r] \in Nat
    BY TypeOKParts, CallTimes DEF IInv, CallInv
  <2> QED
    BY <2>1, TimesAssumption DEF CallOK
<1> QED
  BY <1>1, IInvHolds, PTL

\* A place in which something is written has tried to inject in this step.
LEMMA WhoWrites ==
  ASSUME CallsTyped, [Next]_vars, NEW r \in Requests, Written(r)
  PROVE  heard >= need'[r]
<1>1. call[r] \in {"none", "inject"} /\ call'[r] = "watch"
  BY DEF Written
<1>2. ASSUME NEW q \in Requests, NEW what, Ends(q, what) PROVE FALSE
  BY <1>1, <1>2 DEF Ends, CallsTyped
<1>3. ASSUME NEW q \in Requests, NEW kind, kind # "watch", NEW n, Begin(q, kind, n) PROVE FALSE
  BY <1>1, <1>3 DEF Begin, CallsTyped
<1>4. ASSUME call' = call PROVE FALSE
  BY <1>1, <1>4
<1>5. ASSUME NEW q \in Requests, NEW n, heard >= n, DoInject(q, n)
      PROVE  heard >= need'[r]
  <2>1. Begin(q, "watch", n)
    BY <1>2, <1>5 DEF DoInject, Delivers
  <2>2. q = r
    BY <1>1, <2>1 DEF Begin, CallsTyped
  <2>3. need'[r] = n
    BY <2>1, <2>2 DEF Begin, CallsTyped
  <2> QED
    BY <1>5, <2>1, <2>3
<1>6. CASE \/ UNCHANGED vars \/ Pass \/ Type \/ UserInputArrives \/ Output \/ Resize
           \/ ChildExits \/ PipeBreaks \/ SocketDestroyed \/ Resume \/ MarkDead
  <2>1. call' = call
    BY <1>6 DEF vars, callVars, Pass, Type, UserInputArrives, Output, Resize, ChildExits,
                PipeBreaks, SocketDestroyed, Resume, MarkDead
  <2> QED
    BY <1>4, <2>1
<1>7. ASSUME NEW q \in Requests, StartInject(q)
      PROVE  heard >= need'[r]
  <2>1. PICK n \in Needs :
          \/ /\ status = "dead"
             /\ Ends(q, "session_dead")
             /\ UNCHANGED <<sessionVars, flight, report>>
          \/ status = "alive" /\ heard >= n /\ DoInject(q, n)
          \/ /\ status = "alive" /\ heard < n
             /\ Begin(q, "inject", n)
             /\ Sleeps(q, Nap(n))
             /\ UNCHANGED <<sessionVars, flight, report>>
    BY <1>7 DEF StartInject
  <2>2. ~Ends(q, "session_dead") /\ ~Begin(q, "inject", n)
    BY <1>2, <1>3
  <2> QED
    BY <1>5, <2>1, <2>2
<1>8. ASSUME NEW q \in Requests, WakeInject(q)
      PROVE  heard >= need'[r]
  <2>1. \/ Ends(q, "session_dead") \/ Ends(q, "user_active") \/ call' = call
        \/ status = "alive" /\ heard >= need[q] /\ DoInject(q, need[q])
    BY <1>8 DEF WakeInject
  <2> QED
    BY <1>2, <1>4, <1>5, <2>1
<1>9. ASSUME NEW q \in Requests,
             StartWait(q) \/ WaitTick(q) \/ CancelWatch(q) \/ StartPattern(q) \/ PatternTick(q)
      PROVE  FALSE
  <2>1. \/ Begin(q, "idle", 0) \/ Begin(q, "pattern", 0)
        \/ \E what \in Answers : Ends(q, what)
        \/ call' = call
    BY <1>9 DEF StartWait, WaitTick, Sample, SkipTick, CancelWatch, StartPattern, PatternTick, Answers
  <2> QED
    BY <1>2, <1>3, <1>4, <2>1
<1> QED
  BY <1>6, <1>7, <1>8, <1>9 DEF Next

\* No inject is written while the user types, as far as the session can know: what cb does not
\* report is one window, what is under way one delay old, and a report that was made is not lost.
THEOREM InjectsRespectTheUser == Spec => WrittenInSilence
<1>1. IInv /\ [Next]_vars
        => [\A r \in Requests :
              Written(r) /\ pipe = "open" /\ report = "made" => Silent(r) \/ New]_vars
  <2> SUFFICES ASSUME IInv, [Next]_vars, NEW r \in Requests, Written(r), report = "made", ~New
               PROVE  typed + Throttle > need'[r] \/ typed <= Lag
    BY DEF Silent
  <2>1. RestTyped /\ CallsTyped /\ UserInv
    BY TypeOKParts DEF IInv
  <2>2. heard >= need'[r]
    BY <2>1, WhoWrites
  <2>3. typed \in Clock /\ sent \in Clock /\ heard \in Clock /\ need'[r] \in Clock
    <3>1. CallsTyped'
      BY IInvInductive, TypeOKParts DEF IInv, TypeOK, CallsTyped
    <3>2. need'[r] \in Needs \union {0}
      BY <3>1 DEF CallsTyped
    <3>3. Needs \subseteq 0..Horizon /\ 0 \in 0..Horizon
      BY TimesAssumption
    <3> QED
      BY <2>1, <3>2, <3>3 DEF RestTyped, Clock
  <2>4. CASE heard <= sent
    BY <2>1, <2>2, <2>3, <2>4, TimesAssumption DEF UserInv, Clock
  <2>5. CASE sent \in flight
    <3>1. sent <= Lag
      BY <2>1, <2>5 DEF UserInv, New
    <3> QED
      BY <2>1, <2>3, <3>1, TimesAssumption DEF UserInv, Clock
  <2> QED
    BY <2>1, <2>4, <2>5 DEF UserInv
<1> QED
  BY <1>1, IInvHolds, PTL DEF Spec, WrittenInSilence

-----------------------------------------------------------------------------
(* What a wait for idle has seen *)

\* The last k of the hashes are those of the screen x.
LastAre(s, k, x) == Len(s) >= k /\ \A i \in (Len(s) - k + 1)..Len(s) : s[i] = x

\* The last k ticks of r came when the program had been silent for long enough, and the
\* screen has not changed since the first of them.
Calm(r, k) ==
  /\ age[r] + wake[r] >= (k + 1) * TickMs
  /\ quiet + wake[r] >= MinSilent + k * TickMs
  /\ still + wake[r] > k * TickMs

\* A wait ticks at the multiples of TickMs, and goes on while the hashes differ; the ticks on
\* a calm screen have seen the screen.
WaitOK(r) ==
  /\ wake[r] <= TickMs
  /\ \E j \in Nat : age[r] + wake[r] = j * TickMs
  /\ ~AllEqual(seen[r])
  /\ \A k \in 1..Stable : Calm(r, k) => LastAre(seen[r], k, screen)

WaitInv == \A r \in Requests : Waits(r) => WaitOK(r)

LEMMA Multiples ==
  ASSUME NEW k \in Nat, NEW m \in Nat, k <= m
  PROVE  /\ k * TickMs \in Nat /\ m * TickMs \in Nat
         /\ k * TickMs <= m * TickMs
         /\ (k + 1) * TickMs = k * TickMs + TickMs
<1>1. TickMs \in Nat
  BY TimesAssumption
<1>2. PICK d \in Nat : m = k + d
  <2>1. m - k \in Nat /\ m = k + (m - k)
    OBVIOUS
  <2> QED
    BY <2>1
<1>3. m * TickMs = k * TickMs + d * TickMs /\ d * TickMs \in Nat
  BY <1>1, <1>2
<1>4. (k + 1) * TickMs = k * TickMs + TickMs /\ k * TickMs \in Nat
  BY <1>1
<1> QED
  BY <1>3, <1>4

LEMMA LessTicks ==
  ASSUME NEW j \in Nat, NEW m \in Nat, j * TickMs > m * TickMs
  PROVE  j * TickMs >= (m + 1) * TickMs
<1>1. j * TickMs \in Nat /\ m * TickMs \in Nat
  BY TimesAssumption
<1>2. j >= m + 1
  <2> SUFFICES ASSUME j <= m PROVE FALSE
    OBVIOUS
  <2>1. j * TickMs <= m * TickMs
    BY Multiples
  <2> QED
    BY <1>1, <2>1
<1> QED
  BY <1>2, Multiples

LEMMA PushSees ==
  ASSUME NEW s \in Seq(Screens), Len(s) <= Stable, NEW h \in Screens,
         NEW k \in 1..Stable, k = 1 \/ LastAre(s, k - 1, h)
  PROVE  LastAre(Push(s, h), k, h)
<1> DEFINE p == Push(s, h)
<1>1. Stable \in Nat \ {0}
  BY TimesAssumption
<1>2. CASE Len(s) = Stable
  <2>1. s # <<>> /\ Tail(s) \in Seq(Screens) /\ Len(Tail(s)) = Stable - 1
    BY <1>1, <1>2
  <2>2. p = Append(Tail(s), h)
    BY <1>2 DEF Push
  <2>3. Len(p) = Stable /\ p[Stable] = h /\ \A i \in 1..(Stable - 1) : p[i] = s[i + 1]
    BY <1>1, <1>2, <2>1, <2>2
  <2> HIDE DEF p
  <2> QED
    BY <1>1, <1>2, <2>3 DEF LastAre, p
<1>3. CASE Len(s) # Stable
  <2>1. p = Append(s, h)
    BY <1>3 DEF Push
  <2>2. Len(p) = Len(s) + 1 /\ p[Len(s) + 1] = h /\ \A i \in 1..Len(s) : p[i] = s[i]
    BY <2>1
  <2> HIDE DEF p
  <2> QED
    BY <1>1, <1>3, <2>2 DEF LastAre, p
<1> QED
  BY <1>2, <1>3

LEMMA LastAreAll ==
  ASSUME NEW s \in Seq(Screens), Len(s) <= Stable, NEW x, LastAre(s, Stable, x)
  PROVE  AllEqual(s)
<1>1. Stable \in Nat \ {0} /\ Len(s) \in Nat
  BY TimesAssumption
<1>2. Len(s) = Stable
  BY <1>1 DEF LastAre
<1>3. \A i \in 1..Stable : s[i] = x
  BY <1>1, <1>2 DEF LastAre
<1> QED
  BY <1>1, <1>2, <1>3 DEF AllEqual

\* What a request has seen stays right while nothing happens to it and the screen rests, or
\* something is written or the window gets another size.
LEMMA WaitUndisturbed ==
  ASSUME RestTyped, CallsTyped, NEW r \in Requests, Waits(r) => WaitOK(r),
         call'[r] = call[r] \/ ~Waits(r)',
         age'[r] = age[r], wake'[r] = wake[r], seen'[r] = seen[r],
         \/ UNCHANGED screenVars
         \/ quiet' \in {0, quiet} /\ still' = IF screen' = screen THEN still ELSE 0
  PROVE  Waits(r)' => WaitOK(r)'
<1> SUFFICES ASSUME Waits(r)' PROVE WaitOK(r)'
  OBVIOUS
<1>1. WaitOK(r) /\ call'[r] = call[r]
  BY DEF Waits
<1>2. wake[r] \in Nat /\ age[r] \in Nat /\ quiet \in Nat /\ still \in Nat
  BY DEF CallsTyped, RestTyped, Clock
<1>3. /\ quiet' \in {0, quiet}
      /\ \/ screen' = screen /\ still' = still
         \/ still' = 0
  BY DEF screenVars
<1>4. ASSUME NEW k \in 1..Stable, Calm(r, k)'
      PROVE  LastAre(seen[r], k, screen) /\ screen' = screen
  <2>1. /\ k * TickMs \in Nat /\ 1 * TickMs <= k * TickMs
        /\ wake[r] <= TickMs /\ TickMs \in Nat /\ MinSilent \in Nat
    BY <1>1, Multiples, TimesAssumption DEF WaitOK
  <2>2. still' + wake[r] > k * TickMs
    BY <1>4 DEF Calm
  <2>3. screen' = screen /\ still' = still
    BY <1>2, <1>3, <2>1, <2>2
  <2>4. quiet + wake[r] >= MinSilent + k * TickMs
    BY <1>2, <1>3, <1>4, <2>1 DEF Calm
  <2>5. Calm(r, k)
    BY <1>4, <2>3, <2>4 DEF Calm
  <2> QED
    BY <1>1, <2>3, <2>5 DEF WaitOK
<1>5. \A k \in 1..Stable : Calm(r, k)' => LastAre(seen'[r], k, screen')
  BY <1>4
<1>6. wake'[r] <= TickMs /\ \E j \in Nat : age'[r] + wake'[r] = j * TickMs
  BY <1>1 DEF WaitOK
<1>7. ~AllEqual(seen'[r])
  BY <1>1 DEF WaitOK
<1> QED
  BY <1>5, <1>6, <1>7 DEF WaitOK, Calm, LastAre, AllEqual

LEMMA WaitPasses ==
  ASSUME RestTyped, CallsTyped, WaitInv, Pass
  PROVE  WaitInv'
<1> SUFFICES ASSUME NEW r \in Requests, Waits(r)' PROVE WaitOK(r)'
  BY DEF WaitInv
<1>1. call' = call /\ seen' = seen /\ screen' = screen
  BY DEF Pass
<1>2. Waits(r) /\ WaitOK(r) /\ Runs(r) /\ ~Due(r)
  BY <1>1 DEF Pass, Waits, WaitInv, Runs
<1>3. /\ wake[r] \in Nat /\ age[r] \in Nat /\ wake[r] # 0
      /\ wake'[r] = wake[r] - 1 /\ age'[r] = age[r] + 1
  BY <1>2 DEF Pass, CallsTyped, Due
<1>4. /\ quiet \in Nat /\ still \in Nat /\ quiet <= Horizon /\ still <= Horizon
      /\ quiet' = Older(quiet) /\ still' = Older(still)
  BY DEF Pass, RestTyped, Clock
<1>5. ASSUME NEW k \in 1..Stable, Calm(r, k)' PROVE Calm(r, k)
  <2>1. /\ k * TickMs \in Nat /\ k * TickMs <= Stable * TickMs /\ Stable * TickMs \in Nat
        /\ (k + 1) * TickMs = k * TickMs + TickMs /\ TickMs \in Nat
    BY Multiples, TimesAssumption
  <2>2. age[r] + wake[r] >= (k + 1) * TickMs
    BY <1>3, <1>5, <2>1 DEF Calm
  <2>3. Horizon > MinSilent + Stable * TickMs /\ MinSilent \in Nat /\ Horizon \in Nat
    BY TimesAssumption
  <2>4. quiet + wake[r] >= MinSilent + k * TickMs
    <3>1. quiet' + (wake[r] - 1) >= MinSilent + k * TickMs
      BY <1>3, <1>5 DEF Calm
    <3> QED
      BY <1>3, <1>4, <2>1, <2>3, <3>1 DEF Older
  <2>5. still + wake[r] > k * TickMs
    <3>1. still' + (wake[r] - 1) > k * TickMs
      BY <1>3, <1>5 DEF Calm
    <3> QED
      BY <1>3, <1>4, <2>1, <2>3, <3>1 DEF Older
  <2> QED
    BY <2>2, <2>4, <2>5 DEF Calm
<1>6. \A k \in 1..Stable : Calm(r, k)' => LastAre(seen'[r], k, screen')
  BY <1>1, <1>2, <1>5 DEF WaitOK
<1>7. wake'[r] <= TickMs /\ \E j \in Nat : age'[r] + wake'[r] = j * TickMs
  <2>1. PICK j \in Nat : age[r] + wake[r] = j * TickMs
    BY <1>2 DEF WaitOK
  <2>2. age'[r] + wake'[r] = j * TickMs
    BY <1>3, <2>1
  <2>3. wake'[r] <= TickMs
    BY <1>2, <1>3, TimesAssumption DEF WaitOK
  <2> QED
    BY <2>2, <2>3
<1>8. ~AllEqual(seen'[r])
  BY <1>1, <1>2 DEF WaitOK
<1> QED
  BY <1>6, <1>7, <1>8 DEF WaitOK, Calm, LastAre, AllEqual

\* A wait that begins has no tick behind it.
LEMMA WaitBegins ==
  ASSUME CallsTyped, NEW r \in Requests, NEW kind, NEW n,
         Begin(r, kind, n), Sleeps(r, TickMs)
  PROVE  WaitOK(r)'
<1>1. age'[r] = 0 /\ wake'[r] = TickMs /\ seen'[r] = <<>>
  BY DEF CallsTyped, Begin, Sleeps
<1>2. TickMs \in Nat \ {0} /\ Stable \in Nat \ {0}
  BY TimesAssumption
<1>3. ASSUME NEW k \in 1..Stable, Calm(r, k)' PROVE FALSE
  <2>1. (k + 1) * TickMs = k * TickMs + TickMs /\ 1 * TickMs <= k * TickMs /\ k * TickMs \in Nat
    BY <1>2, Multiples
  <2> QED
    BY <1>1, <1>2, <1>3, <2>1 DEF Calm
<1>4. age'[r] + wake'[r] = 1 * TickMs
  BY <1>1, <1>2
<1>5. ~AllEqual(seen'[r])
  BY <1>1, <1>2 DEF AllEqual
<1> QED
  BY <1>1, <1>2, <1>3, <1>4, <1>5 DEF WaitOK, Calm, LastAre, AllEqual

\* A tick on a screen that has not been silent for long enough.
LEMMA WaitSkips ==
  ASSUME RestTyped, CallsTyped, NEW r \in Requests, Waits(r), WaitOK(r), Due(r),
         quiet < MinSilent, SkipTick(r), UNCHANGED screenVars
  PROVE  WaitOK(r)'
<1>1. /\ wake[r] = 0 /\ wake'[r] = TickMs /\ age'[r] = age[r] /\ age[r] \in Nat
      /\ seen' = seen /\ quiet' = quiet /\ quiet \in Nat
  BY DEF CallsTyped, RestTyped, SkipTick, Sleeps, Due, screenVars, Clock
<1>2. TickMs \in Nat \ {0} /\ MinSilent \in Nat
  BY TimesAssumption
<1>3. ASSUME NEW k \in 1..Stable, Calm(r, k)' PROVE FALSE
  <2>1. 1 * TickMs <= k * TickMs /\ k * TickMs \in Nat
    BY <1>2, Multiples
  <2> QED
    BY <1>1, <1>2, <1>3, <2>1 DEF Calm
<1>4. \E j \in Nat : age'[r] + wake'[r] = j * TickMs
  <2>1. PICK j \in Nat : age[r] + wake[r] = j * TickMs
    BY DEF WaitOK
  <2>2. (j + 1) * TickMs = j * TickMs + TickMs /\ j + 1 \in Nat
    BY Multiples
  <2>3. age'[r] + wake'[r] = (j + 1) * TickMs
    BY <1>1, <1>2, <2>1, <2>2
  <2> QED
    BY <2>2, <2>3
<1>5. ~AllEqual(seen'[r])
  BY <1>1 DEF WaitOK
<1> QED
  BY <1>1, <1>2, <1>3, <1>4, <1>5 DEF WaitOK, Calm, LastAre, AllEqual

\* A tick that hashes the screen, and is not the last.
LEMMA WaitSamples ==
  ASSUME RestTyped, CallsTyped, NEW r \in Requests, Waits(r), WaitOK(r), Due(r),
         Sample(r), Waits(r)', UNCHANGED screenVars
  PROVE  WaitOK(r)'
<1> DEFINE hashes == Push(seen[r], screen)
<1>1. ~Ends(r, "idle")
  BY DEF Ends, Waits, CallsTyped
<1>2. ~AllEqual(hashes) /\ seen' = [seen EXCEPT ![r] = hashes] /\ Sleeps(r, TickMs) /\ age' = age
  BY <1>1 DEF Sample
<1>3. seen'[r] = hashes
  BY <1>2 DEF CallsTyped
<1>4. /\ wake[r] = 0 /\ wake'[r] = TickMs /\ age'[r] = age[r] /\ age[r] \in Nat
      /\ quiet' = quiet /\ quiet \in Nat /\ still' = still /\ still \in Nat
      /\ screen' = screen /\ screen \in Screens
      /\ seen[r] \in Seq(Screens) /\ Len(seen[r]) <= Stable
  BY <1>2 DEF CallsTyped, RestTyped, Sleeps, Due, screenVars, Clock
<1>5. TickMs \in Nat \ {0} /\ Stable \in Nat \ {0} /\ MinSilent \in Nat
  BY TimesAssumption
<1> HIDE DEF hashes
<1>6. ASSUME NEW k \in 1..Stable, Calm(r, k)' PROVE LastAre(hashes, k, screen)
  <2>1. CASE k = 1
    BY <1>4, <2>1, PushSees DEF hashes
  <2>2. CASE k # 1
    <3>1. k - 1 \in 1..Stable /\ k - 1 \in Nat /\ k \in Nat /\ (k - 1) + 1 = k
      BY <1>5, <2>2
    <3>2. k * TickMs = (k - 1) * TickMs + TickMs /\ (k - 1) * TickMs \in Nat
      BY <3>1, Multiples
    <3>3. (k + 1) * TickMs = k * TickMs + TickMs
      BY <3>1, Multiples
    <3>4. age[r] + TickMs >= (k + 1) * TickMs /\ quiet + TickMs >= MinSilent + k * TickMs
          /\ still + TickMs > k * TickMs
      BY <1>4, <1>6 DEF Calm
    <3>5. /\ age[r] + 0 >= k * TickMs
          /\ quiet + 0 >= MinSilent + (k - 1) * TickMs
          /\ still + 0 > (k - 1) * TickMs
      BY <1>4, <1>5, <3>2, <3>3, <3>4
    <3>6. Calm(r, k - 1)
      BY <1>4, <3>1, <3>5 DEF Calm
    <3>7. LastAre(seen[r], k - 1, screen)
      BY <3>1, <3>6 DEF WaitOK
    <3> QED
      BY <1>4, <3>7, PushSees DEF hashes
  <2> QED
    BY <2>1, <2>2
<1>7. \E j \in Nat : age'[r] + wake'[r] = j * TickMs
  <2>1. PICK j \in Nat : age[r] + wake[r] = j * TickMs
    BY DEF WaitOK
  <2>2. (j + 1) * TickMs = j * TickMs + TickMs /\ j + 1 \in Nat
    BY Multiples
  <2>3. age'[r] + wake'[r] = (j + 1) * TickMs
    BY <1>4, <1>5, <2>1, <2>2
  <2> QED
    BY <2>2, <2>3
<1>8. wake'[r] <= TickMs
  BY <1>4, <1>5
<1>9. ~AllEqual(seen'[r])
  BY <1>2, <1>3
<1>10. \A k \in 1..Stable : Calm(r, k)' => LastAre(seen'[r], k, screen')
  BY <1>3, <1>4, <1>6
<1> QED
  BY <1>7, <1>8, <1>9, <1>10 DEF WaitOK, Calm, LastAre, AllEqual

\* A wait goes on, or it has ended.
LEMMA WaitTicks ==
  ASSUME RestTyped, CallsTyped, NEW r \in Requests, Waits(r) => WaitOK(r), WaitTick(r)
  PROVE  Waits(r)' => WaitOK(r)'
<1>1. Waits(r) /\ Due(r) /\ UNCHANGED screenVars /\ WaitOK(r)
  BY DEF WaitTick
<1>2. \A what : Ends(r, what) => ~Waits(r)'
  BY DEF Ends, Waits, CallsTyped
<1> QED
  BY <1>1, <1>2, WaitSkips, WaitSamples DEF WaitTick

\* Whatever a request does: it ends, starts to wait, is no wait, or ticks.
LEMMA WaitOfItsOwn ==
  ASSUME RestTyped, CallsTyped, NEW r \in Requests, Waits(r) => WaitOK(r),
         \/ StartInject(r) \/ WakeInject(r)
         \/ StartWait(r) \/ WaitTick(r) \/ CancelWatch(r)
         \/ StartPattern(r) \/ PatternTick(r)
  PROVE  Waits(r)' => WaitOK(r)'
<1>1. \A what : Ends(r, what) => ~Waits(r)'
  BY DEF Ends, Waits, CallsTyped
<1>2. \A kind, n : Begin(r, kind, n) /\ Sleeps(r, TickMs) => WaitOK(r)'
  BY WaitBegins
<1>3. \A n : Begin(r, "inject", n) \/ Begin(r, "pattern", n) => ~Waits(r)'
  BY DEF Begin, Waits, CallsTyped
<1>4. \A n : DoInject(r, n) => (Waits(r)' => WaitOK(r)')
  BY <1>1, <1>2 DEF DoInject, Fails, Delivers
<1>5. ASSUME call[r] \in {"inject", "pattern"}, call' = call PROVE ~Waits(r)'
  BY <1>5 DEF Waits
<1>6. CASE StartInject(r)
  BY <1>1, <1>3, <1>4, <1>6 DEF StartInject
<1>7. CASE WakeInject(r)
  BY <1>1, <1>4, <1>5, <1>7 DEF WakeInject
<1>8. CASE StartWait(r)
  BY <1>2, <1>8 DEF StartWait
<1>9. CASE WaitTick(r)
  BY <1>9, WaitTicks
<1>10. CASE CancelWatch(r) \/ StartPattern(r)
  BY <1>1, <1>3, <1>10 DEF CancelWatch, StartPattern
<1>11. CASE PatternTick(r)
  BY <1>1, <1>5, <1>11 DEF PatternTick, SkipTick
<1> QED
  BY <1>6, <1>7, <1>8, <1>9, <1>10, <1>11

\* What a request does concerns no other.
LEMMA OthersUndisturbed ==
  ASSUME CallsTyped, NEW q \in Requests, NEW r \in Requests, r # q,
         \/ StartInject(q) \/ WakeInject(q)
         \/ StartWait(q) \/ WaitTick(q) \/ CancelWatch(q)
         \/ StartPattern(q) \/ PatternTick(q)
  PROVE  /\ call'[r] = call[r] /\ age'[r] = age[r] /\ wake'[r] = wake[r] /\ seen'[r] = seen[r]
         /\ UNCHANGED screenVars
<1> DEFINE Same == call'[r] = call[r] /\ age'[r] = age[r] /\ wake'[r] = wake[r] /\ seen'[r] = seen[r]
<1>1. \A what : Ends(q, what) => Same
  BY DEF Ends, CallsTyped
<1>2. \A kind, n, t : Begin(q, kind, n) /\ Sleeps(q, t) => Same
  BY DEF Begin, Sleeps, CallsTyped
<1>3. \A t : Sleeps(q, t) /\ UNCHANGED <<call, age>>
               /\ (seen' = seen \/ \E s : seen' = [seen EXCEPT ![q] = s]) => Same
  BY DEF Sleeps, CallsTyped
<1>4. \A n : DoInject(q, n) => Same
  BY <1>1, <1>2 DEF DoInject, Fails, Delivers
<1>5. SkipTick(q) \/ Sample(q) => Same
  BY <1>1, <1>3 DEF SkipTick, Sample
<1> HIDE DEF Same
<1>6. StartInject(q) \/ WakeInject(q) => Same
  BY <1>1, <1>2, <1>3, <1>4 DEF StartInject, WakeInject
<1>7. StartWait(q) \/ WaitTick(q) \/ CancelWatch(q) \/ StartPattern(q) \/ PatternTick(q) => Same
  BY <1>1, <1>2, <1>5 DEF StartWait, WaitTick, CancelWatch, StartPattern, PatternTick
<1>8. UNCHANGED screenVars
  BY DEF StartInject, WakeInject, StartWait, WaitTick, CancelWatch, StartPattern, PatternTick
<1> QED
  BY <1>6, <1>7, <1>8 DEF Same

LEMMA WaitInvInductive ==
  ASSUME IInv, WaitInv, [Next]_vars
  PROVE  WaitInv'
<1>1. RestTyped /\ CallsTyped
  BY TypeOKParts DEF IInv
<1>2. CASE Pass
  BY <1>1, <1>2, WaitPasses
<1>3. CASE \/ UNCHANGED vars \/ Type \/ UserInputArrives \/ Output \/ Resize
           \/ ChildExits \/ PipeBreaks \/ SocketDestroyed \/ Resume \/ MarkDead
  <2> SUFFICES ASSUME NEW r \in Requests PROVE Waits(r)' => WaitOK(r)'
    BY DEF WaitInv
  <2>1. UNCHANGED <<call, age, wake, seen>>
    BY <1>3 DEF vars, callVars, Type, UserInputArrives, Output, Resize, ChildExits,
                PipeBreaks, SocketDestroyed, Resume, MarkDead
  <2>2. \/ UNCHANGED screenVars
        \/ quiet' \in {0, quiet} /\ still' = IF screen' = screen THEN still ELSE 0
    BY <1>3 DEF vars, Type, UserInputArrives, Output, Resize, Shows, ChildExits, PipeBreaks,
                SocketDestroyed, Resume, MarkDead
  <2> QED
    BY <1>1, <2>1, <2>2, WaitUndisturbed DEF WaitInv
<1>4. ASSUME NEW q \in Requests,
             \/ StartInject(q) \/ WakeInject(q)
             \/ StartWait(q) \/ WaitTick(q) \/ CancelWatch(q)
             \/ StartPattern(q) \/ PatternTick(q)
      PROVE  WaitInv'
  <2> SUFFICES ASSUME NEW r \in Requests PROVE Waits(r)' => WaitOK(r)'
    BY DEF WaitInv
  <2>1. CASE r = q
    BY <1>1, <1>4, <2>1, WaitOfItsOwn DEF WaitInv
  <2>2. CASE r # q
    BY <1>1, <1>4, <2>2, OthersUndisturbed, WaitUndisturbed DEF WaitInv
  <2> QED
    BY <2>1, <2>2
<1> QED
  BY <1>2, <1>3, <1>4 DEF Next

LEMMA WaitInvHolds == Spec => []WaitInv
<1>1. Init => WaitInv
  BY DEF Init, WaitInv, Waits
<1>2. IInv /\ WaitInv /\ [Next]_vars => WaitInv'
  BY WaitInvInductive
<1> QED
  BY <1>1, <1>2, IInvHolds, PTL DEF Spec

\* What a call that ends is told is what its own step says.
LEMMA WhoAnswers ==
  ASSUME CallsTyped, [Next]_vars, NEW r \in Requests, NEW what, Answered(r, what)
  PROVE  /\ Ends(r, what)
         /\ \/ WakeInject(r) \/ WaitTick(r) \/ CancelWatch(r) \/ PatternTick(r)
<1>1. call[r] # "none" /\ call'[r] = "none" /\ answer'[r] = what
  BY DEF Answered, Runs
<1>2. PICK q \in Requests :
         \/ StartInject(q) \/ WakeInject(q)
         \/ StartWait(q) \/ WaitTick(q) \/ CancelWatch(q)
         \/ StartPattern(q) \/ PatternTick(q)
  <2>1. CASE \/ UNCHANGED vars \/ Pass \/ Type \/ UserInputArrives \/ Output \/ Resize
             \/ ChildExits \/ PipeBreaks \/ SocketDestroyed \/ Resume \/ MarkDead
    <3>1. call' = call
      BY <2>1 DEF vars, callVars, Pass, Type, UserInputArrives, Output, Resize, ChildExits,
                  PipeBreaks, SocketDestroyed, Resume, MarkDead
    <3> QED
      BY <1>1, <3>1
  <2> QED
    BY <2>1 DEF Next
<1>3. q = r
  BY <1>1, <1>2, OthersUndisturbed
<1>4. WakeInject(r) \/ WaitTick(r) \/ CancelWatch(r) \/ PatternTick(r)
  BY <1>1, <1>2, <1>3 DEF StartInject, StartWait, StartPattern, Runs
<1>5. \A said : Ends(r, said) => said = what
  BY <1>1 DEF Ends, CallsTyped
<1>6. \A n : ~Begin(r, "watch", n)
  BY <1>1 DEF Begin, CallsTyped
<1>7. call' # call
  BY <1>1
<1>8. \E said : Ends(r, said)
  <2>1. CASE WakeInject(r)
    BY <1>6, <1>7, <2>1 DEF WakeInject, DoInject
  <2>2. CASE WaitTick(r)
    BY <1>7, <2>2 DEF WaitTick, SkipTick, Sample
  <2>3. CASE CancelWatch(r)
    BY <2>3 DEF CancelWatch
  <2>4. CASE PatternTick(r)
    BY <1>7, <2>4 DEF PatternTick, SkipTick
  <2> QED
    BY <1>4, <2>1, <2>2, <2>3, <2>4
<1> QED
  BY <1>4, <1>5, <1>8

LEMMA EndsWithOne ==
  ASSUME CallsTyped, NEW r \in Requests, NEW a, NEW b, Ends(r, a), Ends(r, b)
  PROVE  a = b
BY DEF Ends, CallsTyped

\* A wait for idle that is given at least the time of its samples gives up only on a terminal
\* that has written, or looked different, since a sample of the series that would have ended it.
THEOREM TimeoutsAreDeserved == Spec => TimeoutMeansMoving
<1>1. IInv /\ WaitInv /\ [Next]_vars
        => [\A r \in Requests : Answered(r, "timeout") /\ Timeout >= Stable * TickMs
              => quiet < MinSilent + Stable * TickMs \/ still <= Stable * TickMs]_vars
  <2> SUFFICES ASSUME IInv, WaitInv, [Next]_vars, NEW r \in Requests, Answered(r, "timeout"),
                      Timeout >= Stable * TickMs
               PROVE  quiet < MinSilent + Stable * TickMs \/ still <= Stable * TickMs
    OBVIOUS
  <2>1. RestTyped /\ CallsTyped
    BY TypeOKParts DEF IInv
  <2>2. /\ Ends(r, "timeout")
        /\ WakeInject(r) \/ WaitTick(r) \/ CancelWatch(r) \/ PatternTick(r)
    BY <2>1, WhoAnswers
  <2>3. \A said : said # "timeout" => ~Ends(r, said)
    BY <2>1, <2>2, EndsWithOne
  <2>4. call' # call
    BY DEF Answered, Runs
  <2>5. Waits(r) /\ Due(r) /\ age[r] > Timeout
    <3>1. CASE WakeInject(r)
      <4>1. \A n : ~Begin(r, "watch", n)
        BY <2>1 DEF Begin, CallsTyped, Answered
      <4> QED
        BY <2>3, <2>4, <3>1, <4>1 DEF WakeInject, DoInject
    <3>2. CASE WaitTick(r)
      BY <2>3, <2>4, <3>2 DEF WaitTick, SkipTick, Sample
    <3>3. CASE CancelWatch(r)
      BY <2>3, <3>3 DEF CancelWatch
    <3>4. CASE PatternTick(r)
      BY <2>3, <2>4, <3>4 DEF PatternTick, SkipTick
    <3> QED
      BY <2>2, <3>1, <3>2, <3>3, <3>4
  <2>6. WaitOK(r) /\ wake[r] = 0 /\ age[r] \in Nat /\ quiet \in Nat /\ still \in Nat
    BY <2>1, <2>5 DEF WaitInv, Due, CallsTyped, RestTyped, Clock
  <2>7. PICK j \in Nat : age[r] = j * TickMs
    BY <2>6 DEF WaitOK
  <2>8. Stable \in 1..Stable /\ Stable \in Nat /\ Timeout \in Nat /\ TickMs \in Nat /\ MinSilent \in Nat
    BY TimesAssumption
  <2>9. Stable * TickMs \in Nat
    BY <2>8
  <2>10. j * TickMs > Stable * TickMs
    BY <2>5, <2>6, <2>7, <2>8, <2>9
  <2>11. age[r] + wake[r] >= (Stable + 1) * TickMs
    BY <2>6, <2>7, <2>8, <2>10, LessTicks
  <2>12. ~Calm(r, Stable)
    <3>1. seen[r] \in Seq(Screens) /\ Len(seen[r]) <= Stable
      BY <2>1 DEF CallsTyped
    <3> QED
      BY <2>6, <2>8, <3>1, LastAreAll DEF WaitOK
  <2> QED
    BY <2>6, <2>8, <2>9, <2>11, <2>12 DEF Calm
<1> QED
  BY <1>1, IInvHolds, WaitInvHolds, PTL DEF Spec, TimeoutMeansMoving

-----------------------------------------------------------------------------
(* What a wait for a pattern sees *)

\* What matches since the last scan has appeared since then, and the next one is a tick off.
PatternOK(r) ==
  call[r] = "pattern" => /\ wake[r] <= TickMs
                         /\ screen \in Matching => still + wake[r] <= TickMs

PatternInv == \A r \in Requests : PatternOK(r)

LEMMA PatternInvInductive ==
  ASSUME IInv, PatternInv, [Next]_vars
  PROVE  PatternInv'
<1>1. RestTyped /\ CallsTyped
  BY TypeOKParts DEF IInv
<1>2. CASE Pass
  <2> SUFFICES ASSUME NEW r \in Requests, call[r] = "pattern" PROVE PatternOK(r)'
    BY <1>2 DEF Pass, PatternInv, PatternOK
  <2>1. Runs(r) /\ wake[r] \in Nat /\ wake[r] # 0 /\ wake'[r] = wake[r] - 1
    BY <1>1, <1>2 DEF Pass, Runs, Due, CallsTyped
  <2>2. screen' = screen /\ still \in Nat /\ still' \in Nat /\ still' <= still + 1
    BY <1>1, <1>2, OlderIsClock DEF Pass, RestTyped, Clock
  <2>3. PatternOK(r)
    BY DEF PatternInv
  <2> QED
    BY <2>1, <2>2, <2>3, TimesAssumption DEF PatternOK
<1>3. CASE \/ UNCHANGED vars \/ Type \/ UserInputArrives \/ Output \/ Resize
           \/ ChildExits \/ PipeBreaks \/ SocketDestroyed \/ Resume \/ MarkDead
  <2> SUFFICES ASSUME NEW r \in Requests PROVE PatternOK(r)'
    BY DEF PatternInv
  <2>1. UNCHANGED <<call, wake>>
    BY <1>3 DEF vars, callVars, Type, UserInputArrives, Output, Resize, ChildExits,
                PipeBreaks, SocketDestroyed, Resume, MarkDead
  <2>2. still' = 0 \/ (still' = still /\ screen' = screen)
    BY <1>3 DEF vars, screenVars, Type, UserInputArrives, Output, Resize, Shows, ChildExits,
                PipeBreaks, SocketDestroyed, Resume, MarkDead
  <2>3. PatternOK(r) /\ wake[r] \in Nat
    BY <1>1 DEF PatternInv, CallsTyped
  <2> QED
    BY <2>1, <2>2, <2>3, TimesAssumption DEF PatternOK
<1>4. ASSUME NEW q \in Requests,
             \/ StartInject(q) \/ WakeInject(q)
             \/ StartWait(q) \/ WaitTick(q) \/ CancelWatch(q)
             \/ StartPattern(q) \/ PatternTick(q)
      PROVE  PatternInv'
  <2> SUFFICES ASSUME NEW r \in Requests, call'[r] = "pattern" PROVE PatternOK(r)'
    BY DEF PatternInv, PatternOK
  <2>1. CASE r # q
    <3>1. call'[r] = call[r] /\ wake'[r] = wake[r] /\ UNCHANGED screenVars
      BY <1>1, <1>4, <2>1, OthersUndisturbed
    <3> QED
      BY <3>1 DEF PatternInv, PatternOK, screenVars
  <2>2. CASE r = q
    <3>1. UNCHANGED screenVars
      BY <1>4 DEF StartInject, WakeInject, StartWait, WaitTick, CancelWatch, StartPattern,
                  PatternTick
    <3>2. \A what : ~Ends(r, what)
      BY <1>1 DEF Ends, CallsTyped
    <3>3. \A kind, n : Begin(r, kind, n) => kind = "pattern"
      BY <1>1 DEF Begin, CallsTyped
    <3>4. call' = call => call[r] = "pattern"
      OBVIOUS
    <3>5. \A n : ~DoInject(r, n)
      BY <3>2, <3>3 DEF DoInject
    <3>6. ~StartInject(r) /\ ~StartWait(r) /\ ~CancelWatch(r)
      BY <3>2, <3>3, <3>5 DEF StartInject, StartWait, CancelWatch
    <3>7. ~WakeInject(r) /\ ~WaitTick(r)
      BY <3>2, <3>4, <3>5 DEF WakeInject, WaitTick, Waits, SkipTick, Sample
    <3>8. screen \notin Matching /\ Sleeps(r, TickMs)
      BY <1>4, <2>2, <3>2, <3>6, <3>7 DEF StartPattern, PatternTick, SkipTick
    <3>9. wake'[r] = TickMs
      BY <1>1, <3>8 DEF Sleeps, CallsTyped
    <3> QED
      BY <3>1, <3>8, <3>9, TimesAssumption DEF PatternOK, screenVars
  <2> QED
    BY <2>1, <2>2
<1> QED
  BY <1>2, <1>3, <1>4 DEF Next

\* What a client waits for stands on the screen for a tick at most before the wait ends with it.
THEOREM MatchesAreSeen == Spec => []MatchSeen
<1>1. Init => PatternInv
  BY DEF Init, PatternInv, PatternOK
<1>2. IInv /\ PatternInv /\ [Next]_vars => PatternInv'
  BY PatternInvInductive
<1>3. IInv /\ PatternInv => MatchSeen
  <2> SUFFICES ASSUME IInv, PatternInv, NEW r \in Requests, call[r] = "pattern",
                      screen \in Matching
               PROVE  still <= TickMs
    BY DEF MatchSeen
  <2>1. wake[r] \in Nat /\ still \in Nat /\ TickMs \in Nat /\ still + wake[r] <= TickMs
    BY TypeOKParts, TimesAssumption DEF IInv, RestTyped, CallsTyped, Clock, PatternInv, PatternOK
  <2> QED
    BY <2>1
<1> QED
  BY <1>1, <1>2, <1>3, IInvHolds, PTL DEF Spec
=============================================================================
