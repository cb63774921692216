--------------------------- MODULE StatusLed_proofs ---------------------------
(***************************************************************************)
(* The timer that plays the pattern runs whenever no change is under way,  *)
(* and only a change that interrupts another one leaves a mixture of two   *)
(* patterns.  The second is not inductive: it needs that whoever is about  *)
(* to write the length has written the pattern, that nobody it interrupted *)
(* is in the middle of a change, and that a step to be stored fits.        *)
(* Last, that the light changes each time the timer goes off.              *)
(***************************************************************************)
EXTENDS StatusLed, TLAPS

\* A change that interrupted no other one.
Alone == \A t, u \in Tasks :
    ~met /\ pc[t] \in Writing /\ Priority[u] < Priority[t] => pc[u] \notin Changing

\* The pattern has been written, and its length is still to come.
LengthFollows == ~met => \A t \in Tasks : pc[t] = "length" => want[t] = pattern
LengthFits    == ~met /\ (\A t \in Tasks : pc[t] # "length") => len = Size[pattern]

StepFits == ~met /\ (\A t \in Tasks : pc[t] \notin Writing) =>
                /\ step < len
                /\ \A t \in Tasks : pc[t] = "store" => count[t] < len

PatternInv == Alone /\ LengthFollows /\ LengthFits /\ StepFits

LedInv == LedTypeOK /\ NeverDark /\ PatternInv

LEMMA Ranks ==
  /\ Tasks = {"main", "event", "timer"}
  /\ Priority["main"] = 1 /\ Priority["event"] = 2 /\ Priority["timer"] = 3
BY DEF Tasks, Priority

LEMMA Sizes ==
  /\ States = {"no_wifi", "online", "ap"}
  /\ Size["no_wifi"] = 2 /\ Size["online"] = 2 /\ Size["ap"] = 4
  /\ \A s \in States : Size[s] \in {2, 4}
BY DEF States, Size

\* Of two tasks one has the higher priority, and what runs finds no change above it.
LEMMA Above ==
  ASSUME NEW t \in Tasks, NEW u \in Tasks, u # t, Runs(t), Priority[u] > Priority[t]
  PROVE  pc[u] \notin Changing
BY DEF Runs, Changing

LEMMA Either ==
  ASSUME NEW t \in Tasks, NEW u \in Tasks, u # t
  PROVE  Priority[u] > Priority[t] \/ Priority[u] < Priority[t]
BY Ranks

\* While a task is at the length or at the step of a change that interrupted no
\* other one and comes to run, nobody else is in the middle of a change.
LEMMA OnlyOne ==
  ASSUME Alone, ~met, NEW t \in Tasks, Runs(t), pc[t] \in Writing
  PROVE  \A u \in Tasks \ {t} : pc[u] \notin Changing
BY Either, Above DEF Alone

-----------------------------------------------------------------------------
(* Types *)

LEMMA TypeStep ==
  ASSUME LedTypeOK, NEW t \in Tasks, Task(t)
  PROVE  LedTypeOK'
<1> USE DEF At, Goto, Show, LedTypeOK, shown, wifi, locals, Changing
<1>1. CASE Set(t)
  <2>1. met' \in BOOLEAN
    <3>1. met' = met \/ met' = (\E u \in Tasks \ {t} : pc[u] \in Changing)
      BY <1>1 DEF Set
    <3> QED
      BY <3>1
  <2>2. pattern' \in States
    <3>1. pattern' = pattern \/ pattern' = want[t]
      BY <1>1 DEF Set
    <3> QED
      BY <3>1
  <2>3. pc' \in [Tasks -> {"idle", "fallback", "radio", "lost", "set"} \cup Changing]
    BY <1>1 DEF Set
  <2>4. UNCHANGED <<len, step, armed, lit, wifi, locals>>
    BY <1>1 DEF Set
  <2> QED
    BY <2>1, <2>2, <2>3, <2>4
<1>2. CASE Length(t)
  BY <1>2, Sizes DEF Length
<1>3. CASE Rewind(t)
  BY <1>3 DEF Rewind
<1>4. CASE Stop(t)
  BY <1>4 DEF Stop
<1>5. CASE Start(t)
  BY <1>5 DEF Start
<1>6. CASE Light(t)
  <2>1. lit' \in BOOLEAN
    <3>1. lit' = (step % 2 = 0)
      BY <1>6 DEF Light
    <3>2. ((step % 2) = 0) \in BOOLEAN
      OBVIOUS
    <3> QED
      BY <3>1, <3>2
  <2> QED
    BY <1>6, <2>1 DEF Light
<1>7. CASE Read(t)
  <2>1. (step + 1) % len \in 0 .. 3
    OBVIOUS
  <2> QED
    BY <1>7, <2>1 DEF Read
<1>8. CASE Store(t)
  BY <1>8 DEF Store
<1>9. CASE Fallback(t)
  BY <1>9 DEF Fallback
<1>10. CASE RadioReady(t)
  BY <1>10, Sizes DEF RadioReady
<1> QED
  BY <1>1, <1>2, <1>3, <1>4, <1>5, <1>6, <1>7, <1>8, <1>9, <1>10 DEF Task

LEMMA TypeNext ==
  ASSUME LedTypeOK, [Next]_vars
  PROVE  LedTypeOK'
<1> USE DEF Goto, Show, LedTypeOK, shown, wifi, locals, Changing
<1>1. CASE Lost
  BY <1>1, Ranks, Sizes DEF Lost
<1>2. CASE Expire \/ FallbackExpires
  BY <1>2, Ranks DEF Expire, FallbackExpires
<1>3. CASE Disconnected \/ GotIp
  <2>1. heard' \in 0 .. MaxEvents
    BY <1>3, LedAssumption DEF Disconnected, GotIp, Hear
  <2>2. CASE Disconnected
    BY <2>1, <2>2, Ranks DEF Disconnected
  <2>3. CASE GotIp
    BY <2>1, <2>3, Ranks, Sizes DEF GotIp
  <2> QED
    BY <1>3, <2>2, <2>3
<1>4. CASE UNCHANGED vars
  BY <1>4 DEF vars
<1> QED
  BY <1>1, <1>2, <1>3, <1>4, TypeStep DEF Next

-----------------------------------------------------------------------------
(* The timer *)

LEMMA NeverDarkNext ==
  ASSUME LedTypeOK, NeverDark, [Next]_vars
  PROVE  NeverDark'
<1> USE DEF NeverDark, Settled, Changing, Goto, LedTypeOK, shown, wifi, locals
<1>1. ASSUME NEW t \in Tasks, Task(t)
      PROVE  NeverDark'
  <2>1. CASE Start(t)
    BY <2>1 DEF Start
  <2>2. CASE Stop(t)
    BY <2>2 DEF Stop, At
  <2>3. CASE Set(t) \/ Length(t) \/ Rewind(t) \/ Light(t) \/ Read(t) \/ Store(t)
    BY <2>3 DEF Set, Length, Rewind, Light, Read, Store, At
  <2>4. CASE Fallback(t) \/ RadioReady(t)
    BY <2>4 DEF Fallback, RadioReady, At
  <2> QED
    BY <1>1, <2>1, <2>2, <2>3, <2>4 DEF Task
<1>2. CASE Lost
  BY <1>2, Ranks DEF Lost, At
<1>3. CASE Expire \/ FallbackExpires
  BY <1>3, Ranks DEF Expire, FallbackExpires, Idle
<1>4. CASE Disconnected \/ GotIp
  BY <1>4, Ranks DEF Disconnected, GotIp, Hear, Idle
<1>5. CASE UNCHANGED vars
  BY <1>5 DEF vars
<1> QED
  BY <1>1, <1>2, <1>3, <1>4, <1>5 DEF Next

-----------------------------------------------------------------------------
(* One pattern *)

\* A task begins something, or is done with it, that has not changed the pattern.
\* Only the timer task begins with advance at once.
LEMMA Elsewhere ==
  ASSUME LedTypeOK, PatternInv, UNCHANGED <<pattern, len, step, met>>,
         NEW t \in Tasks, pc[t] \notin Changing, pc'[t] \notin Writing, pc'[t] # "store",
         Priority[t] = 3 \/ pc'[t] \notin Changing,
         want'[t] \in States,
         \A u \in Tasks \ {t} : pc'[u] = pc[u] /\ want'[u] = want[u], count' = count
  PROVE  PatternInv'
<1>1. Alone'
  BY Ranks DEF PatternInv, Alone, Writing, Changing
<1>2. LengthFollows'
  BY DEF PatternInv, LengthFollows, Writing, Changing
<1>3. LengthFits'
  BY DEF PatternInv, LengthFits, Writing, Changing
<1>4. StepFits'
  BY DEF PatternInv, StepFits, Writing, Changing
<1> QED
  BY <1>1, <1>2, <1>3, <1>4 DEF PatternInv

\* A task that goes on with advance, or is done with it.
LEMMA Advances ==
  ASSUME LedTypeOK, PatternInv, UNCHANGED <<pattern, len, met, want>>,
         NEW t \in Tasks, Runs(t), pc[t] \in Changing,
         pc'[t] \notin Writing,
         pc[t] \notin Writing,
         \A u \in Tasks \ {t} : pc'[u] = pc[u] /\ count'[u] = count[u],
         step' < len \/ ~(\A u \in Tasks : pc[u] \notin Writing) \/ met,
         pc'[t] = "store" => count'[t] < len
  PROVE  PatternInv'
<1>1. Alone'
  BY DEF PatternInv, Alone, Writing, Changing
<1>2. LengthFollows'
  BY DEF PatternInv, LengthFollows, Writing, Changing
<1>3. LengthFits'
  BY DEF PatternInv, LengthFits, Writing, Changing
<1>4. StepFits'
  BY DEF PatternInv, StepFits, Writing, Changing
<1> QED
  BY <1>1, <1>2, <1>3, <1>4 DEF PatternInv

LEMMA PatternStep ==
  ASSUME LedTypeOK, PatternInv, NEW t \in Tasks, Task(t)
  PROVE  PatternInv'
<1> USE DEF Goto, Show, shown, wifi, locals
<1>1. pc \in [Tasks -> {"idle", "fallback", "radio", "lost", "set"} \cup Changing]
  BY DEF LedTypeOK
<1>2. CASE Set(t)
  <2>1. CASE want[t] = pattern
    <3>1. UNCHANGED <<pattern, len, step, met, want, count>> /\ pc[t] = "set"
      BY <1>2, <2>1 DEF Set, At
    <3>2. pc' = [pc EXCEPT ![t] = "idle"]
      BY <1>2, <2>1 DEF Set
    <3>3. want'[t] \in States
      BY <3>1 DEF LedTypeOK
    <3> QED
      BY <1>1, <3>1, <3>2, <3>3, Elsewhere DEF Writing, Changing
  <2>2. CASE want[t] # pattern
    <3>1. /\ UNCHANGED <<len, step, want, count>> /\ pc[t] = "set" /\ Runs(t)
          /\ pc' = [pc EXCEPT ![t] = "length"] /\ pattern' = want[t]
      BY <1>2, <2>2 DEF Set, At
    <3>2. met' = (\E u \in Tasks \ {t} : pc[u] \in Changing)
      BY <1>2, <2>2 DEF Set
    <3>3. CASE \E u \in Tasks \ {t} : pc[u] \in Changing
      <4>1. met'
        BY <3>2, <3>3
      <4> QED
        BY <4>1 DEF PatternInv, Alone, LengthFollows, LengthFits, StepFits
    <3>4. CASE \A u \in Tasks \ {t} : pc[u] \notin Changing
      <4>1. pc'[t] = "length" /\ \A u \in Tasks \ {t} : pc'[u] = pc[u] /\ pc'[u] \notin Changing
        BY <1>1, <3>1, <3>4
      <4>2. Alone'
        BY <4>1, Ranks DEF Alone, Writing, Changing
      <4>3. LengthFollows'
        BY <3>1, <4>1 DEF LengthFollows, Changing
      <4>4. LengthFits' /\ StepFits'
        BY <4>1 DEF LengthFits, StepFits, Writing
      <4> QED
        BY <4>2, <4>3, <4>4 DEF PatternInv
    <3> QED
      BY <3>3, <3>4
  <2> QED
    BY <2>1, <2>2
<1>3. CASE Length(t)
  <2>1. /\ UNCHANGED <<pattern, step, want, count, met>> /\ pc[t] = "length" /\ Runs(t)
        /\ pc' = [pc EXCEPT ![t] = "rewind"] /\ len' = Size[want[t]]
    BY <1>3 DEF Length, At
  <2>2. pc'[t] = "rewind" /\ \A u \in Tasks \ {t} : pc'[u] = pc[u]
    BY <1>1, <2>1
  <2>3. Alone'
    BY <2>1, <2>2 DEF PatternInv, Alone, Writing, Changing
  <2>4. LengthFollows'
    BY <2>1, <2>2 DEF PatternInv, LengthFollows
  <2>5. LengthFits'
    BY <2>1 DEF PatternInv, LengthFits, LengthFollows
  <2>6. StepFits'
    BY <2>2 DEF StepFits, Writing
  <2> QED
    BY <2>3, <2>4, <2>5, <2>6 DEF PatternInv
<1>4. CASE Rewind(t)
  <2>1. /\ UNCHANGED <<pattern, len, want, count, met>> /\ pc[t] = "rewind" /\ Runs(t)
        /\ pc' = [pc EXCEPT ![t] = "stop"] /\ step' = 0
    BY <1>4 DEF Rewind, At
  <2>2. pc'[t] = "stop" /\ \A u \in Tasks \ {t} : pc'[u] = pc[u]
    BY <1>1, <2>1
  <2>3. Alone'
    BY <2>1, <2>2 DEF PatternInv, Alone, Writing, Changing
  <2>4. LengthFollows'
    BY <2>1, <2>2 DEF PatternInv, LengthFollows
  <2>5. LengthFits'
    BY <2>1, <2>2 DEF PatternInv, LengthFits
  <2>6. StepFits'
    <3> SUFFICES ASSUME ~met
             PROVE  step' < len' /\ \A u \in Tasks : pc'[u] = "store" => count'[u] < len'
      BY <2>1 DEF StepFits
    <3>1. \A u \in Tasks \ {t} : pc[u] \notin Changing
      BY <2>1, OnlyOne DEF PatternInv, Writing
    <3>2. step' < len'
      BY <2>1 DEF LedTypeOK
    <3> QED
      BY <2>2, <3>1, <3>2 DEF Changing
  <2> QED
    BY <2>3, <2>4, <2>5, <2>6 DEF PatternInv
<1>5. CASE Stop(t) \/ Light(t) \/ Start(t)
  <2>1. /\ UNCHANGED <<pattern, len, step, want, count, met>> /\ Runs(t)
        /\ pc[t] \in {"stop", "light", "start"}
    BY <1>5 DEF Stop, Light, Start, At
  <2>2. pc'[t] \in {"light", "read", "idle"} /\ \A u \in Tasks \ {t} : pc'[u] = pc[u]
    BY <1>1, <1>5 DEF Stop, Light, Start
  <2>3. step' < len \/ ~(\A u \in Tasks : pc[u] \notin Writing) \/ met
    BY <2>1 DEF PatternInv, StepFits
  <2> QED
    BY <2>1, <2>2, <2>3, Advances DEF Writing, Changing
<1>6. CASE Read(t)
  <2>1. /\ UNCHANGED <<pattern, len, step, want, met>> /\ Runs(t) /\ pc[t] = "read"
        /\ pc' = [pc EXCEPT ![t] = "store"] /\ count' = [count EXCEPT ![t] = (step + 1) % len]
    BY <1>6 DEF Read, At
  <2>2. /\ pc'[t] = "store" /\ count'[t] = (step + 1) % len
        /\ \A u \in Tasks \ {t} : pc'[u] = pc[u] /\ count'[u] = count[u]
    BY <1>1, <2>1 DEF LedTypeOK
  <2>3. (step + 1) % len < len
    BY DEF LedTypeOK
  <2>4. step' < len \/ ~(\A u \in Tasks : pc[u] \notin Writing) \/ met
    BY <2>1 DEF PatternInv, StepFits
  <2> QED
    BY <2>1, <2>2, <2>3, <2>4, Advances DEF Writing, Changing
<1>7. CASE Store(t)
  <2>1. /\ UNCHANGED <<pattern, len, want, count, met>> /\ Runs(t) /\ pc[t] = "store"
        /\ pc' = [pc EXCEPT ![t] = "start"] /\ step' = count[t]
    BY <1>7 DEF Store, At
  <2>2. pc'[t] = "start" /\ \A u \in Tasks \ {t} : pc'[u] = pc[u]
    BY <1>1, <2>1
  <2>3. step' < len \/ ~(\A u \in Tasks : pc[u] \notin Writing) \/ met
    BY <2>1 DEF PatternInv, StepFits
  <2> QED
    BY <2>1, <2>2, <2>3, Advances DEF Writing, Changing
<1>8. CASE Fallback(t) \/ RadioReady(t)
  <2>1. /\ UNCHANGED <<pattern, len, step, met, count>>
        /\ pc[t] \in {"fallback", "radio"}
    BY <1>8 DEF Fallback, RadioReady, At
  <2>2. /\ pc'[t] \in {"idle", "radio", "set"}
        /\ \A u \in Tasks \ {t} : pc'[u] = pc[u]
    BY <1>1, <1>8 DEF Fallback, RadioReady
  <2>3. want'[t] \in States /\ \A u \in Tasks \ {t} : want'[u] = want[u]
    BY <1>8, Sizes DEF Fallback, RadioReady, LedTypeOK
  <2> QED
    BY <2>1, <2>2, <2>3, Elsewhere DEF Writing, Changing
<1> QED
  BY <1>2, <1>3, <1>4, <1>5, <1>6, <1>7, <1>8 DEF Task

LEMMA PatternNext ==
  ASSUME LedTypeOK, PatternInv, [Next]_vars
  PROVE  PatternInv'
<1> USE DEF Goto, Show, shown, wifi, locals
<1>1. /\ pc \in [Tasks -> {"idle", "fallback", "radio", "lost", "set"} \cup Changing]
      /\ want \in [Tasks -> States]
  BY DEF LedTypeOK
<1>2. CASE Lost
  <2>1. /\ UNCHANGED <<pattern, len, step, met, count>> /\ pc["event"] = "lost"
        /\ pc'["event"] \in {"idle", "set"}
        /\ \A u \in Tasks \ {"event"} : pc'[u] = pc[u] /\ want'[u] = want[u]
        /\ want'["event"] \in States
    BY <1>1, <1>2, Ranks, Sizes DEF Lost, At
  <2> QED
    BY <2>1, Ranks, Elsewhere DEF Writing, Changing
<1>3. CASE Expire \/ FallbackExpires
  <2>1. /\ UNCHANGED <<pattern, len, step, met, count, want>> /\ pc["timer"] = "idle"
        /\ pc'["timer"] \in {"light", "fallback"}
        /\ \A u \in Tasks \ {"timer"} : pc'[u] = pc[u]
    BY <1>1, <1>3, Ranks DEF Expire, FallbackExpires, Idle
  <2>2. want'["timer"] \in States
    BY <1>1, <2>1, Ranks
  <2> QED
    BY <2>1, <2>2, Ranks, Elsewhere DEF Writing, Changing
<1>4. CASE Disconnected \/ GotIp
  <2>1. UNCHANGED <<pattern, len, step, met, count>> /\ pc["event"] = "idle"
    BY <1>4 DEF Disconnected, GotIp, Hear, Idle
  <2>2. CASE Disconnected
    <3>1. /\ pc'["event"] \in {"idle", "lost"} /\ want' = want
          /\ \A u \in Tasks \ {"event"} : pc'[u] = pc[u]
      BY <1>1, <2>1, <2>2, Ranks DEF Disconnected
    <3>2. want'["event"] \in States
      BY <1>1, <3>1, Ranks
    <3> QED
      BY <2>1, <3>1, <3>2, Ranks, Elsewhere DEF Writing, Changing
  <2>3. CASE GotIp
    <3>1. /\ pc'["event"] = "set" /\ want'["event"] \in States
          /\ \A u \in Tasks \ {"event"} : pc'[u] = pc[u] /\ want'[u] = want[u]
      BY <1>1, <2>3, Ranks, Sizes DEF GotIp
    <3> QED
      BY <2>1, <3>1, Ranks, Elsewhere DEF Writing, Changing
  <2> QED
    BY <1>4, <2>2, <2>3
<1>5. CASE UNCHANGED vars
  BY <1>5 DEF vars, PatternInv, Alone, LengthFollows, LengthFits, StepFits
<1> QED
  BY <1>2, <1>3, <1>4, <1>5, PatternStep DEF Next

-----------------------------------------------------------------------------

LEMMA InvInit == Init => LedInv
<1> SUFFICES ASSUME Init PROVE LedInv
  OBVIOUS
<1>1. LedTypeOK
  <2>1. pattern \in States /\ len \in {2, 4} /\ step \in 0 .. 3
    BY Sizes DEF Init
  <2>2. pc \in [Tasks -> {"idle", "fallback", "radio", "lost", "set"} \cup Changing]
    BY DEF Init
  <2>3. want \in [Tasks -> States] /\ count \in [Tasks -> 0 .. 3]
    BY Sizes DEF Init
  <2>4. heard \in 0 .. MaxEvents
    BY LedAssumption DEF Init
  <2>5. /\ armed \in BOOLEAN /\ lit \in BOOLEAN
        /\ connected \in BOOLEAN /\ ap \in BOOLEAN /\ fallback \in BOOLEAN
        /\ met \in BOOLEAN
    BY DEF Init
  <2> QED
    BY <2>1, <2>2, <2>3, <2>4, <2>5 DEF LedTypeOK
<1>2. \A t \in Tasks : pc[t] \in {"idle", "fallback"}
  BY DEF Init
<1>3. NeverDark
  BY DEF Init, NeverDark
<1>4. PatternInv
  BY <1>2, Sizes DEF Init, PatternInv, Alone, LengthFollows, LengthFits, StepFits, Writing
<1> QED
  BY <1>1, <1>3, <1>4 DEF LedInv

LEMMA InvNext == LedInv /\ [Next]_vars => LedInv'
BY TypeNext, NeverDarkNext, PatternNext DEF LedInv

\* The inductive invariant holds of every run of the tasks of status_led.c.
THEOREM LedInvCorrect == Spec => []LedInv
BY InvInit, InvNext, PTL DEF Spec

\* Every variable of status_led.c and of its tasks keeps its type.
THEOREM LedTypeCorrect == Spec => []LedTypeOK
<1>1. LedInv => LedTypeOK
  BY DEF LedInv
<1> QED
  BY <1>1, LedInvCorrect, PTL

\* status_led.h:13: however many events come, and however the tasks interrupt one
\* another, s_timer runs whenever no change is under way.
THEOREM NeverDarkCorrect == Spec => []NeverDark
<1>1. LedInv => NeverDark
  BY DEF LedInv
<1> QED
  BY <1>1, LedInvCorrect, PTL

\* status_led.c:16: the timer alone never makes a mixture of two patterns out of a
\* change it interrupts.
THEOREM OnePatternCorrect == Spec => []OnePattern
<1>1. LedInv => OnePattern
  <2> SUFFICES ASSUME LedInv, ~met, \A t \in Tasks : pc[t] \notin Writing
               PROVE  len = Size[pattern] /\ step < len
    BY DEF OnePattern
  <2>1. \A t \in Tasks : pc[t] # "length"
    BY DEF Writing
  <2> QED
    BY <2>1 DEF LedInv, PatternInv, LengthFits, StepFits
<1> QED
  BY <1>1, LedInvCorrect, PTL

-----------------------------------------------------------------------------
(* It blinks: the part of it that is no liveness *)

Odd(n) == n % 2 = 1

\* From the stop of the timer to its start.
Advancing == {"light", "read", "store", "start"}

\* What a change that cut into no other one meets until it has stopped the timer.
StopsAlone == ~met => \A t, u \in Tasks :
    pc[t] = "stop" /\ Priority[u] < Priority[t] => pc[u] \notin Changing

OneAdvances == ~met => \A t, u \in Tasks :
    pc[t] \in Advancing /\ pc[u] \in Advancing => t = u

\* While an advance goes on that no other change has met, the timer is stopped.
TimerWaits == ~met /\ armed => \A t \in Tasks : pc[t] \notin Advancing

\* The light is that of the step before the one to come.
LitByStep == ~met => \A t \in Tasks :
    /\ pc[t] = "read"  => lit = ~Odd(step)
    /\ pc[t] = "store" => lit = Odd(count[t])
    /\ pc[t] = "start" => lit = Odd(step)

Alternates == Settled => lit = Odd(step) \/ met

BlinkInv == StopsAlone /\ OneAdvances /\ TimerWaits /\ LitByStep /\ Alternates

LEMMA Parity ==
  ASSUME NEW n \in 0 .. 3, NEW m \in {2, 4}
  PROVE  /\ (n % 2 = 0) = ~Odd(n)
         /\ Odd((n + 1) % m) = ~Odd(n)
         /\ ~Odd(0)
BY DEF Odd

\* A task that changes nothing shown and is at no change before or after.
LEMMA Beside ==
  ASSUME BlinkInv, UNCHANGED <<step, lit, armed, met, count>>,
         NEW t \in Tasks, pc[t] \notin Changing, pc'[t] \notin Changing,
         \A u \in Tasks \ {t} : pc'[u] = pc[u]
  PROVE  BlinkInv'
<1>1. \A u \in Tasks : pc'[u] = pc[u] \/ (pc[u] \notin Changing /\ pc'[u] \notin Changing)
  OBVIOUS
<1>2. StopsAlone' /\ OneAdvances'
  BY <1>1 DEF BlinkInv, StopsAlone, OneAdvances, Advancing, Changing
<1>3. TimerWaits' /\ LitByStep'
  BY <1>1 DEF BlinkInv, TimerWaits, LitByStep, Advancing, Changing
<1>4. Alternates'
  BY <1>1 DEF BlinkInv, Alternates, Settled
<1> QED
  BY <1>2, <1>3, <1>4 DEF BlinkInv

LEMMA BlinkStep ==
  ASSUME LedTypeOK, PatternInv, BlinkInv, NEW t \in Tasks, Task(t)
  PROVE  BlinkInv'
<1> USE DEF Goto, Show, shown, wifi, locals
<1>1. pc \in [Tasks -> {"idle", "fallback", "radio", "lost", "set"} \cup Changing]
  BY DEF LedTypeOK
<1>2. CASE Set(t) /\ want[t] = pattern
  <2>1. UNCHANGED <<step, lit, armed, met, count>> /\ pc[t] = "set" /\ pc' = [pc EXCEPT ![t] = "idle"]
    BY <1>2 DEF Set, At
  <2> QED
    BY <1>1, <2>1, Beside DEF Changing
<1>3. CASE Set(t) /\ want[t] # pattern
  <2>1. /\ UNCHANGED <<step, lit, armed, count>> /\ pc[t] = "set" /\ Runs(t)
        /\ pc' = [pc EXCEPT ![t] = "length"]
        /\ met' = (\E u \in Tasks \ {t} : pc[u] \in Changing)
    BY <1>3 DEF Set, At
  <2>2. pc'[t] = "length" /\ \A u \in Tasks \ {t} : pc'[u] = pc[u]
    BY <1>1, <2>1
  <2>3. Alternates'
    BY <2>2 DEF Alternates, Settled, Changing
  <2>4. ~met' => \A u \in Tasks : pc'[u] = "length" \/ pc'[u] \notin Changing
    BY <2>1, <2>2
  <2>5. StopsAlone' /\ OneAdvances' /\ TimerWaits' /\ LitByStep'
    BY <2>4 DEF StopsAlone, OneAdvances, TimerWaits, LitByStep, Advancing, Changing
  <2> QED
    BY <2>3, <2>5 DEF BlinkInv
<1>4. CASE Length(t) \/ Rewind(t)
  <2>1. /\ UNCHANGED <<lit, armed, met, count>> /\ Runs(t) /\ pc[t] \in Writing
        /\ pc'[t] \in {"rewind", "stop"} /\ \A u \in Tasks \ {t} : pc'[u] = pc[u]
    BY <1>1, <1>4 DEF Length, Rewind, At, Writing
  <2>2. Alternates'
    BY <2>1 DEF Alternates, Settled, Changing
  <2>3. ~met => \A u \in Tasks \ {t} : pc'[u] \notin Changing
    BY <2>1, OnlyOne DEF PatternInv
  <2>4. StopsAlone' /\ OneAdvances'
    BY <2>1, <2>3, Ranks DEF StopsAlone, OneAdvances, Advancing, Changing
  <2>5. TimerWaits' /\ LitByStep'
    BY <2>1, <2>3 DEF TimerWaits, LitByStep, Advancing, Changing
  <2> QED
    BY <2>2, <2>4, <2>5 DEF BlinkInv
<1>5. CASE Stop(t)
  <2>1. /\ UNCHANGED <<step, lit, met, count>> /\ Runs(t) /\ pc[t] = "stop" /\ ~armed'
        /\ pc'[t] = "light" /\ \A u \in Tasks \ {t} : pc'[u] = pc[u]
    BY <1>1, <1>5 DEF Stop, At
  <2>2. ~met => \A u \in Tasks \ {t} : pc[u] \notin Changing
    BY <2>1, Either, Above DEF BlinkInv, StopsAlone
  <2>3. StopsAlone' /\ OneAdvances'
    BY <2>1, <2>2 DEF StopsAlone, OneAdvances, Advancing, Changing
  <2>4. TimerWaits' /\ LitByStep' /\ Alternates'
    BY <2>1, <2>2 DEF TimerWaits, LitByStep, Alternates, Settled, Advancing, Changing
  <2> QED
    BY <2>3, <2>4 DEF BlinkInv
<1>6. CASE Light(t) \/ Read(t) \/ Store(t) \/ Start(t)
  <2>1. /\ met' = met /\ pc[t] \in Advancing /\ pc'[t] \in Advancing \cup {"idle"}
        /\ \A u \in Tasks \ {t} : pc'[u] = pc[u] /\ count'[u] = count[u]
    BY <1>1, <1>6 DEF Light, Read, Store, Start, At, Advancing, LedTypeOK
  <2>2. ~met => ~armed /\ \A u \in Tasks \ {t} : pc[u] \notin Advancing
    BY <2>1 DEF BlinkInv, OneAdvances, TimerWaits
  <2>3. StopsAlone' /\ OneAdvances'
    BY <2>1, <2>2 DEF BlinkInv, StopsAlone, OneAdvances, Advancing, Changing
  <2>4. TimerWaits'
    <3>1. CASE pc'[t] \in Advancing
      <4>1. ~Start(t)
        BY <1>1, <3>1 DEF Start, Advancing
      <4>2. armed' = armed
        BY <1>6, <4>1 DEF Light, Read, Store
      <4> QED
        BY <2>1, <2>2, <4>2 DEF TimerWaits
    <3>2. CASE pc'[t] = "idle"
      BY <2>1, <2>2, <3>2 DEF TimerWaits, Advancing
    <3> QED
      BY <2>1, <3>1, <3>2
  <2>5. LitByStep' /\ Alternates'
    <3>1. CASE Light(t)
      <4>1. step \in 0 .. 3 /\ step' = step /\ pc'[t] = "read" /\ lit' = (step % 2 = 0)
        BY <1>1, <3>1 DEF Light, LedTypeOK
      <4>2. lit' = ~Odd(step')
        BY <4>1, Parity
      <4> QED
        BY <2>1, <2>2, <4>1, <4>2 DEF LitByStep, Alternates, Settled, Advancing, Changing
    <3>2. CASE Read(t)
      <4>1. /\ step \in 0 .. 3 /\ len \in {2, 4} /\ UNCHANGED <<step, lit>> /\ pc[t] = "read"
            /\ pc'[t] = "store" /\ count'[t] = (step + 1) % len
        BY <1>1, <3>2 DEF Read, LedTypeOK, At
      <4>2. ~met => lit' = Odd(count'[t])
        BY <4>1, Parity DEF BlinkInv, LitByStep
      <4> QED
        BY <2>1, <2>2, <4>1, <4>2 DEF LitByStep, Alternates, Settled, Advancing, Changing
    <3>3. CASE Store(t)
      <4>1. /\ UNCHANGED <<lit, count>> /\ pc[t] = "store" /\ pc'[t] = "start" /\ step' = count[t]
        BY <1>1, <3>3 DEF Store, At
      <4>2. ~met => lit' = Odd(step')
        BY <4>1 DEF BlinkInv, LitByStep
      <4> QED
        BY <2>1, <2>2, <4>1, <4>2 DEF LitByStep, Alternates, Settled, Advancing, Changing
    <3>4. CASE Start(t)
      <4>1. UNCHANGED <<lit, step>> /\ pc[t] = "start" /\ pc'[t] = "idle"
        BY <1>1, <3>4 DEF Start, At
      <4>2. ~met => lit' = Odd(step')
        BY <4>1 DEF BlinkInv, LitByStep
      <4> QED
        BY <2>1, <2>2, <4>1, <4>2 DEF LitByStep, Alternates, Settled, Advancing, Changing
    <3> QED
      BY <1>6, <3>1, <3>2, <3>3, <3>4
  <2> QED
    BY <2>3, <2>4, <2>5 DEF BlinkInv
<1>7. CASE Fallback(t) \/ RadioReady(t)
  <2>1. /\ UNCHANGED <<step, lit, armed, met, count>> /\ pc[t] \in {"fallback", "radio"}
        /\ pc'[t] \in {"idle", "radio", "set"} /\ \A u \in Tasks \ {t} : pc'[u] = pc[u]
    BY <1>1, <1>7 DEF Fallback, RadioReady, At
  <2> QED
    BY <2>1, Beside DEF Changing
<1> QED
  BY <1>2, <1>3, <1>4, <1>5, <1>6, <1>7 DEF Task

LEMMA BlinkNext ==
  ASSUME LedTypeOK, PatternInv, BlinkInv, [Next]_vars
  PROVE  BlinkInv'
<1> USE DEF Goto, Show, shown, wifi, locals
<1>1. pc \in [Tasks -> {"idle", "fallback", "radio", "lost", "set"} \cup Changing]
  BY DEF LedTypeOK
<1>2. CASE Lost \/ Disconnected \/ GotIp
  <2>1. /\ UNCHANGED <<step, lit, armed, met, count>> /\ pc["event"] \in {"lost", "idle"}
        /\ pc'["event"] \in {"idle", "set", "lost"} /\ \A u \in Tasks \ {"event"} : pc'[u] = pc[u]
    BY <1>1, <1>2, Ranks DEF Lost, Disconnected, GotIp, Hear, Idle, At
  <2> QED
    BY <2>1, Beside, Ranks DEF Changing
<1>3. CASE FallbackExpires
  <2>1. /\ UNCHANGED <<step, lit, armed, met, count>> /\ pc["timer"] = "idle"
        /\ pc'["timer"] = "fallback" /\ \A u \in Tasks \ {"timer"} : pc'[u] = pc[u]
    BY <1>1, <1>3, Ranks DEF FallbackExpires, Idle
  <2> QED
    BY <2>1, Beside, Ranks DEF Changing
<1>4. CASE Expire
  <2>1. /\ UNCHANGED <<step, lit, met, count>> /\ pc["timer"] = "idle" /\ armed /\ ~armed'
        /\ pc'["timer"] = "light" /\ \A u \in Tasks \ {"timer"} : pc'[u] = pc[u]
    BY <1>1, <1>4, Ranks DEF Expire, Idle
  <2>2. ~met => \A u \in Tasks : pc[u] \notin Advancing
    BY <2>1 DEF BlinkInv, TimerWaits
  <2>3. StopsAlone'
    BY <2>1, Ranks DEF BlinkInv, StopsAlone, Changing
  <2>4. OneAdvances' /\ TimerWaits' /\ LitByStep'
    BY <2>1, <2>2 DEF OneAdvances, TimerWaits, LitByStep, Advancing
  <2>5. Alternates'
    BY <2>1, Ranks DEF Alternates, Settled, Changing
  <2> QED
    BY <2>3, <2>4, <2>5 DEF BlinkInv
<1>5. CASE UNCHANGED vars
  BY <1>5 DEF vars, BlinkInv, StopsAlone, OneAdvances, TimerWaits, LitByStep, Alternates, Settled
<1> QED
  BY <1>2, <1>3, <1>4, <1>5, BlinkStep DEF Next

\* status_led.h:13: once a change that cut into no other one is over, the timer runs
\* and the light is that of the step before the one to come, so that each time it
\* goes off the LED changes.  KeepsBlinking needs no more than that it goes off,
\* and that one whole advance sets right what an interrupted change has left.
ReadyToBlink == Settled => armed /\ (lit = (step % 2 = 1) \/ met)

THEOREM ReadyToBlinkCorrect == Spec => []ReadyToBlink
<1>1. Init => LedInv /\ BlinkInv
  <2> SUFFICES ASSUME Init PROVE BlinkInv
    BY InvInit
  <2>1. \A t \in Tasks : pc[t] \in {"idle", "fallback"}
    BY DEF Init
  <2>2. lit /\ Odd(step)
    BY DEF Init, Odd
  <2> QED
    BY <2>1, <2>2 DEF BlinkInv, StopsAlone, OneAdvances, TimerWaits, LitByStep, Alternates, Advancing
<1>2. LedInv /\ BlinkInv /\ [Next]_vars => (LedInv /\ BlinkInv)'
  BY InvNext, BlinkNext DEF LedInv
<1>3. LedInv /\ BlinkInv => ReadyToBlink
  BY DEF LedInv, NeverDark, BlinkInv, Alternates, Odd, ReadyToBlink
<1> QED
  BY <1>1, <1>2, <1>3, PTL DEF Spec
===============================================================================
