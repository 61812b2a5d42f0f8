------------------------- MODULE DnsManagerProofs -------------------------
(***************************************************************************)
(* DnsManager implements DnsPromise, puts the configuration in force and   *)
(* leaves nothing behind: for any interfaces, configurations, failures of  *)
(* captures, settings and starts, and crashes, as long as one call at a    *)
(* time is in the manager and neither a restore nor a save fails.  RInv is *)
(* the invariant that carries the refinement; CInv adds what is in force   *)
(* and what is left to undo.                                               *)
(***************************************************************************)
EXTENDS DnsManager, FiniteSetTheorems, TLAPS

\* The conditions of the theorems.
Serial == MaxConcurrent = 1
Restorable == Unreliable \cap {"restore", "save"} = {}

\* ---- the steps a call may have ahead, named for the first of them ---------

ToAdopt == <<"adopt">>
ToPoint == <<"point", "adopt">>
ToSave == <<"save", "point", "adopt">>
ToEnumerate == <<"enumerate", "save", "point", "adopt">>
ToEnable == <<"start", "enumerate", "save", "point", "adopt">>
ToRestoreOff == <<"restore", "adopt">>
ToDisable == <<"stop", "restore", "adopt">>
ToRestoreMove == <<"restore", "enumerate", "save", "point", "adopt">>
ToStartMove == <<"start", "restore", "enumerate", "save", "point", "adopt">>
ToMove == <<"stop", "start", "restore", "enumerate", "save", "point", "adopt">>
ToStart == <<"start", "adopt">>
ToRestart == <<"stop", "start", "adopt">>
ToStop == <<"stop", "check">>
ToCheck == <<"check">>
ToRestore == <<"restore">>
ToRecover == <<"recover">>

Ahead == {ToAdopt, ToPoint, ToSave, ToEnumerate, ToEnable, ToRestoreOff, ToDisable,
          ToRestoreMove, ToStartMove, ToMove, ToStart, ToRestart, ToStop, ToCheck,
          ToRestore, ToRecover}

Calls == [steps : Ahead \cup {<<>>}, cfg : Configs, local : Captures,
          done : SUBSET Interfaces, set : SUBSET Interfaces]

\* ---- the invariant --------------------------------------------------------

\* What was captured is the user's setting.
Good(states) == \A i \in DOMAIN states : RestoredSetting(states[i]) = UserSetting[i]

Types ==
  /\ dns \in [Interfaces -> Settings] /\ up \subseteq Interfaces
  /\ file \in Captures /\ originals \in Captures
  /\ config \in Configs /\ cfg \in Configs
  /\ call \in [Threads -> Calls]
  /\ modified \in BOOLEAN

\* Every setting that is not in force is on disk, as the user made it.
OnDisk == Good(file) /\ Good(originals) /\ Altered \subseteq DOMAIN file

\* What restore_system_dns would need, and stop() would ask for.
Held == Altered \subseteq DOMAIN originals /\ (modified \/ Altered = {})

\* Between two calls.
Resting == life # "down" => Held /\ (cfg.enabled \/ Altered = {})

\* During a call of t, by the steps ahead.
Left(t) == Altered \subseteq DOMAIN originals \ call[t].done
Working(t) ==
  LET s == call[t].steps
      enabled == call[t].cfg.enabled
  IN \/ s = ToRecover /\ Good(call[t].local) /\ Altered \subseteq DOMAIN call[t].local \ call[t].done
     \/ s \in {ToEnable, ToEnumerate} /\ enabled /\ Altered = {}
     \/ s = ToSave /\ enabled /\ Altered = {} /\ call[t].local = originals
     \/ /\ s = ToPoint /\ enabled
        /\ call[t].local = originals /\ file = originals /\ Altered \subseteq call[t].set
     \/ s \in {ToMove, ToStartMove} /\ enabled /\ Held
     \/ s = ToRestoreMove /\ enabled /\ Left(t)
     \/ s \in {ToRestoreOff, ToRestore} /\ Left(t)
     \/ s \in {ToDisable, ToStop, ToCheck} /\ Held
     \/ s \in {ToStart, ToRestart} /\ enabled /\ Held
     \/ s = ToAdopt /\ Held /\ (enabled \/ Altered = {})

Calm == \A t \in Threads : ~Busy(t)
Alone == \A t, u \in Threads : Busy(t) /\ Busy(u) => t = u

RInv ==
  /\ Types
  /\ OnDisk
  /\ Alone
  /\ Calm => Resting
  /\ \A t \in Threads : Busy(t) => life # "down" /\ Working(t)

\* ---- lemmas ---------------------------------------------------------------

\* What each sequence of steps begins with, and what is left after its first step.
LEMMA Sequel ==
  /\ Head(ToAdopt) = "adopt" /\ Tail(ToAdopt) = <<>> /\ ToAdopt # <<>>
  /\ Head(ToPoint) = "point" /\ Tail(ToPoint) = ToAdopt /\ ToPoint # <<>>
  /\ Head(ToSave) = "save" /\ Tail(ToSave) = ToPoint /\ ToSave # <<>>
  /\ Head(ToEnumerate) = "enumerate" /\ Tail(ToEnumerate) = ToSave /\ ToEnumerate # <<>>
  /\ Head(ToEnable) = "start" /\ Tail(ToEnable) = ToEnumerate /\ ToEnable # <<>>
  /\ Head(ToRestoreOff) = "restore" /\ Tail(ToRestoreOff) = ToAdopt /\ ToRestoreOff # <<>>
  /\ Head(ToDisable) = "stop" /\ Tail(ToDisable) = ToRestoreOff /\ ToDisable # <<>>
  /\ Head(ToRestoreMove) = "restore" /\ Tail(ToRestoreMove) = ToEnumerate /\ ToRestoreMove # <<>>
  /\ Head(ToStartMove) = "start" /\ Tail(ToStartMove) = ToRestoreMove /\ ToStartMove # <<>>
  /\ Head(ToMove) = "stop" /\ Tail(ToMove) = ToStartMove /\ ToMove # <<>>
  /\ Head(ToStart) = "start" /\ Tail(ToStart) = ToAdopt /\ ToStart # <<>>
  /\ Head(ToRestart) = "stop" /\ Tail(ToRestart) = ToStart /\ ToRestart # <<>>
  /\ Head(ToStop) = "stop" /\ Tail(ToStop) = ToCheck /\ ToStop # <<>>
  /\ Head(ToCheck) = "check" /\ Tail(ToCheck) = <<>> /\ ToCheck # <<>>
  /\ Head(ToRestore) = "restore" /\ Tail(ToRestore) = <<>> /\ ToRestore # <<>>
  /\ Head(ToRecover) = "recover" /\ Tail(ToRecover) = <<>> /\ ToRecover # <<>>
<1>1. /\ Head(ToAdopt) = "adopt" /\ Tail(ToAdopt) = <<>> /\ ToAdopt # <<>>
      /\ Head(ToPoint) = "point" /\ Tail(ToPoint) = ToAdopt /\ ToPoint # <<>>
  BY DEF ToAdopt, ToPoint
<1>2. /\ Head(ToSave) = "save" /\ Tail(ToSave) = ToPoint /\ ToSave # <<>>
      /\ Head(ToEnumerate) = "enumerate" /\ Tail(ToEnumerate) = ToSave /\ ToEnumerate # <<>>
      /\ Head(ToEnable) = "start" /\ Tail(ToEnable) = ToEnumerate /\ ToEnable # <<>>
  BY DEF ToPoint, ToSave, ToEnumerate, ToEnable
<1>3. /\ Head(ToRestoreOff) = "restore" /\ Tail(ToRestoreOff) = ToAdopt /\ ToRestoreOff # <<>>
      /\ Head(ToDisable) = "stop" /\ Tail(ToDisable) = ToRestoreOff /\ ToDisable # <<>>
      /\ Head(ToRestoreMove) = "restore" /\ Tail(ToRestoreMove) = ToEnumerate /\ ToRestoreMove # <<>>
  BY DEF ToAdopt, ToRestoreOff, ToDisable, ToRestoreMove, ToEnumerate
<1>4. /\ Head(ToStartMove) = "start" /\ Tail(ToStartMove) = ToRestoreMove /\ ToStartMove # <<>>
      /\ Head(ToMove) = "stop" /\ Tail(ToMove) = ToStartMove /\ ToMove # <<>>
  BY DEF ToRestoreMove, ToStartMove, ToMove
<1>5. /\ Head(ToStart) = "start" /\ Tail(ToStart) = ToAdopt /\ ToStart # <<>>
      /\ Head(ToRestart) = "stop" /\ Tail(ToRestart) = ToStart /\ ToRestart # <<>>
      /\ Head(ToStop) = "stop" /\ Tail(ToStop) = ToCheck /\ ToStop # <<>>
  BY DEF ToAdopt, ToStart, ToRestart, ToStop, ToCheck
<1>6. /\ Head(ToCheck) = "check" /\ Tail(ToCheck) = <<>> /\ ToCheck # <<>>
      /\ Head(ToRestore) = "restore" /\ Tail(ToRestore) = <<>> /\ ToRestore # <<>>
      /\ Head(ToRecover) = "recover" /\ Tail(ToRecover) = <<>> /\ ToRecover # <<>>
  BY DEF ToCheck, ToRestore, ToRecover
<1>7. QED BY <1>1, <1>2, <1>3, <1>4, <1>5, <1>6

LEMMA NoCaptures == NoStates \in Captures /\ DOMAIN NoStates = {} /\ Good(NoStates)
<1>1. NoStates \in [{} -> InterfaceDnsState] /\ DOMAIN NoStates = {}
  BY DEF NoStates
<1>2. QED BY <1>1 DEF Captures, Good

\* A capture is of some interfaces, one record each.
LEMMA CaptureOfSome ==
  ASSUME NEW states \in Captures
  PROVE  /\ DOMAIN states \subseteq Interfaces
         /\ \A i \in DOMAIN states : states[i] \in InterfaceDnsState
BY DEF Captures

\* A capture without an interface is none: the state file is there or is empty.
LEMMA EmptyCapture ==
  ASSUME NEW states \in Captures, DOMAIN states = {}
  PROVE  states = NoStates
BY DEF Captures, NoStates

LEMMA IdleCall == Idle \in Calls /\ Idle.steps = <<>>
<1>1. {} \in SUBSET Interfaces OBVIOUS
<1>2. QED BY <1>1, NoCaptures, ManagerAssumption DEF Idle, Calls

\* What is safe on disk is what is in the file.
LEMMA SafeIsFile ==
  ASSUME Good(file)
  PROVE  Safe = DOMAIN file
BY DEF Safe, Good

\* A thread goes on, or is done.
LEMMA Going ==
  ASSUME Types, NEW t \in Threads, NEW steps \in Ahead \cup {<<>>}, Goes(t, steps)
  PROVE  /\ call' \in [Threads -> Calls]
         /\ \A u \in Threads \ {t} : call'[u] = call[u]
         /\ call'[t].steps = steps
         /\ steps # <<>> => /\ call'[t].cfg = call[t].cfg /\ call'[t].local = call[t].local
                            /\ call'[t].done = {} /\ call'[t].set = {}
<1>1. call \in [Threads -> Calls] BY DEF Types
<1>2. CASE steps = <<>>
  <2>1. call' = [call EXCEPT ![t] = Idle] BY <1>2 DEF Goes
  <2>2. QED BY <1>1, <1>2, <2>1, IdleCall
<1>3. CASE steps # <<>>
  <2> DEFINE r == [call[t] EXCEPT !.steps = steps, !.done = {}, !.set = {}]
  <2>1. call' = [call EXCEPT ![t] = r] BY <1>3 DEF Goes
  <2>2. r \in Calls BY <1>1 DEF Calls
  <2>3. r.steps = steps /\ r.cfg = call[t].cfg /\ r.local = call[t].local
        /\ r.done = {} /\ r.set = {}
    BY <1>1 DEF Calls
  <2> HIDE DEF r
  <2>4. QED BY <1>1, <2>1, <2>2, <2>3
<1>4. QED BY <1>2, <1>3

\* The step of one thread disturbs what the invariant says of that thread only: the
\* others are not in the manager.
LEMMA OneThread ==
  ASSUME RInv, NEW t \in Threads, Busy(t), life' = life,
         Types', OnDisk', \A u \in Threads \ {t} : call'[u] = call[u],
         call'[t].steps = <<>> => Resting', call'[t].steps # <<>> => Working(t)'
  PROVE  RInv'
<1>1. \A u \in Threads \ {t} : ~Busy(u) /\ ~Busy(u)'
  BY DEF RInv, Alone, Busy
<1>2. life # "down" BY DEF RInv
<1>3. Alone' BY <1>1 DEF Alone
<1>4. (Calm => Resting)' BY DEF Calm, Busy
<1>5. (\A u \in Threads : Busy(u) => life # "down" /\ Working(u))'
  <2> SUFFICES ASSUME NEW u \in Threads, Busy(u)' PROVE (life # "down" /\ Working(u))'
    OBVIOUS
  <2>1. u = t BY <1>1
  <2>2. QED BY <1>2, <2>1 DEF Busy
<1>6. QED BY <1>3, <1>4, <1>5 DEF RInv

\* Nothing is promised, and nothing broken, while Windows and the file stay.
LEMMA Still ==
  ASSUME UNCHANGED <<dns, file>>
  PROVE  Altered' = Altered /\ Safe' = Safe /\ (Good(file) => Good(file)')
BY DEF Altered, Safe, Good

\* The steps that may be next, and what the invariant says before each.
LEMMA Next_start ==
  ASSUME RInv, NEW t \in Threads, At(t, "start")
  PROVE  LET s == call[t].steps IN
         /\ call[t].cfg.enabled
         /\ \/ s = ToEnable /\ Altered = {} /\ Tail(s) = ToEnumerate
            \/ s = ToStartMove /\ Held /\ Tail(s) = ToRestoreMove
            \/ s = ToStart /\ Held /\ Tail(s) = ToAdopt
BY Sequel DEF RInv, At, Working

LEMMA Next_stop ==
  ASSUME RInv, NEW t \in Threads, At(t, "stop")
  PROVE  LET s == call[t].steps IN
         /\ Held
         /\ \/ s = ToMove /\ call[t].cfg.enabled /\ Tail(s) = ToStartMove
            \/ s = ToRestart /\ call[t].cfg.enabled /\ Tail(s) = ToStart
            \/ s = ToDisable /\ Tail(s) = ToRestoreOff
            \/ s = ToStop /\ Tail(s) = ToCheck
BY Sequel DEF RInv, At, Working

LEMMA Next_restore ==
  ASSUME RInv, NEW t \in Threads, At(t, "restore")
  PROVE  LET s == call[t].steps IN
         /\ Left(t)
         /\ \/ s = ToRestoreMove /\ call[t].cfg.enabled /\ Tail(s) = ToEnumerate
            \/ s = ToRestoreOff /\ Tail(s) = ToAdopt
            \/ s = ToRestore /\ Tail(s) = <<>>
BY Sequel DEF RInv, At, Working

LEMMA Next_set ==
  ASSUME RInv, NEW t \in Threads
  PROVE  LET s == call[t].steps IN
         /\ At(t, "enumerate") =>
              s = ToEnumerate /\ call[t].cfg.enabled /\ Altered = {} /\ Tail(s) = ToSave
         /\ At(t, "save") => /\ s = ToSave /\ call[t].cfg.enabled /\ Tail(s) = ToPoint
                             /\ Altered = {} /\ call[t].local = originals
         /\ At(t, "point") => /\ s = ToPoint /\ call[t].cfg.enabled /\ Tail(s) = ToAdopt
                              /\ call[t].local = originals /\ file = originals
                              /\ Altered \subseteq call[t].set
BY Sequel DEF RInv, At, Working

LEMMA Next_last ==
  ASSUME RInv, NEW t \in Threads
  PROVE  LET s == call[t].steps IN
         /\ At(t, "adopt") =>
              /\ s = ToAdopt /\ Tail(s) = <<>>
              /\ Held /\ (call[t].cfg.enabled \/ Altered = {})
         /\ At(t, "check") => s = ToCheck /\ Held
         /\ At(t, "recover") => /\ s = ToRecover /\ Tail(s) = <<>>
                                /\ Good(call[t].local)
                                /\ Altered \subseteq DOMAIN call[t].local \ call[t].done
BY Sequel DEF RInv, At, Working

\* ---- one lemma per action -------------------------------------------------

Kept == RInv' /\ [Promise!Next]_<<Altered, Safe>>

LEMMA KeptStart ==
  ASSUME RInv, NEW t \in Threads, StartForwarder(t)
  PROVE  Kept
<1> DEFINE rest == Tail(call[t].steps)
<1>1. At(t, "start") /\ UNCHANGED <<dnsVars, config, cfg, modified, originals, lifeVars>>
      /\ Goes(t, rest)
  BY DEF StartForwarder, Proceeds
<1>2. Types /\ OnDisk /\ Busy(t) BY <1>1 DEF RInv, At
<1>3. /\ call[t].cfg.enabled
      /\ \/ rest = ToEnumerate /\ Altered = {}
         \/ rest \in {ToRestoreMove, ToAdopt} /\ Held
  BY <1>1, Next_start
<1>4. rest \in Ahead /\ rest # <<>> BY <1>3, Sequel DEF Ahead
<1> HIDE DEF rest
<1>5. /\ call' \in [Threads -> Calls] /\ \A u \in Threads \ {t} : call'[u] = call[u]
      /\ call'[t].steps = rest /\ call'[t].cfg = call[t].cfg /\ call'[t].done = {}
  BY <1>1, <1>2, <1>4, Going
<1>6. Altered' = Altered /\ Safe' = Safe /\ Good(file)' BY <1>1, <1>2, Still DEF dnsVars, OnDisk
<1>7. Types' /\ OnDisk' BY <1>1, <1>2, <1>5, <1>6 DEF Types, OnDisk, Good, dnsVars
<1>8. Working(t)'
  <2>1. CASE rest = ToEnumerate /\ Altered = {} BY <1>3, <1>5, <1>6, <2>1 DEF Working
  <2>2. CASE rest \in {ToRestoreMove, ToAdopt} /\ Held
    BY <1>1, <1>3, <1>5, <1>6, <2>2 DEF Working, Held, Left
  <2>3. QED BY <1>3, <2>1, <2>2
<1>9. RInv' BY <1>1, <1>2, <1>4, <1>5, <1>7, <1>8, OneThread DEF lifeVars
<1>10. QED BY <1>6, <1>9 DEF Kept

LEMMA KeptStop ==
  ASSUME RInv, NEW t \in Threads, StopForwarder(t)
  PROVE  Kept
<1> DEFINE rest == Tail(call[t].steps)
<1>1. At(t, "stop") /\ UNCHANGED <<dnsVars, config, cfg, modified, originals, lifeVars>>
      /\ Goes(t, rest)
  BY DEF StopForwarder, Proceeds
<1>2. Types /\ OnDisk /\ Busy(t) BY <1>1 DEF RInv, At
<1>3. /\ Held
      /\ \/ rest \in {ToStartMove, ToStart} /\ call[t].cfg.enabled
         \/ rest \in {ToRestoreOff, ToCheck}
  BY <1>1, Next_stop
<1>4. rest \in Ahead /\ rest # <<>> BY <1>3, Sequel DEF Ahead
<1> HIDE DEF rest
<1>5. /\ call' \in [Threads -> Calls] /\ \A u \in Threads \ {t} : call'[u] = call[u]
      /\ call'[t].steps = rest /\ call'[t].cfg = call[t].cfg /\ call'[t].done = {}
  BY <1>1, <1>2, <1>4, Going
<1>6. Altered' = Altered /\ Safe' = Safe /\ Good(file)' BY <1>1, <1>2, Still DEF dnsVars, OnDisk
<1>7. Types' /\ OnDisk' BY <1>1, <1>2, <1>5, <1>6 DEF Types, OnDisk, Good, dnsVars
<1>8. Working(t)' BY <1>1, <1>3, <1>5, <1>6 DEF Working, Held, Left
<1>9. RInv' BY <1>1, <1>2, <1>4, <1>5, <1>7, <1>8, OneThread DEF lifeVars
<1>10. QED BY <1>6, <1>9 DEF Kept

\* What is captured while every interface has the user's setting is that setting.
LEMMA CapturedGood ==
  ASSUME Types, Altered = {}, NEW states \in Captured
  PROVE  states \in Captures /\ Good(states)
<1>1. PICK S \in SUBSET up : states = [i \in S |-> Capture(i)] BY DEF Captured
<1>2. S \subseteq Interfaces BY <1>1 DEF Types
<1>3. \A i \in Interfaces : dns[i] = UserSetting[i] BY DEF Altered
<1>4. \A i \in Interfaces : Capture(i) \in InterfaceDnsState
  BY <1>3, DnsAssumption DEF Capture, InterfaceDnsState
<1>5. states \in [S -> InterfaceDnsState] BY <1>1, <1>2, <1>4
<1>6. states \in Captures BY <1>2, <1>5 DEF Captures
<1>7. \A i \in Interfaces : RestoredSetting(Capture(i)) = dns[i]
  BY DEF RestoredSetting, Capture
<1>8. QED BY <1>1, <1>2, <1>3, <1>6, <1>7 DEF Good

LEMMA KeptEnumerate ==
  ASSUME RInv, NEW t \in Threads, Enumerate(t)
  PROVE  Kept
<1>1. At(t, "enumerate") /\ UNCHANGED <<dnsVars, config, cfg, modified, lifeVars>>
  BY DEF Enumerate
<1>2. Types /\ OnDisk /\ Busy(t) BY <1>1 DEF RInv, At
<1>3. /\ call[t].cfg.enabled /\ Altered = {} /\ call[t].steps = ToEnumerate
      /\ Tail(call[t].steps) = ToSave
  BY <1>1, Next_set
<1>4. Altered' = {} /\ Safe' = Safe /\ Good(file)'
  BY <1>1, <1>2, <1>3, Still DEF dnsVars, OnDisk
<1>5. PICK states \in Captured :
        IF DOMAIN states = {}
        THEN Goes(t, <<"adopt">>) /\ UNCHANGED originals
        ELSE /\ originals' = states
             /\ call' = [call EXCEPT ![t].steps = Tail(@), ![t].local = states]
  BY DEF Enumerate
<1>6. states \in Captures /\ Good(states) BY <1>2, <1>3, CapturedGood
<1>7. ASSUME DOMAIN states = {} PROVE RInv'
  <2>1. Goes(t, ToAdopt) /\ originals' = originals BY <1>5, <1>7 DEF ToAdopt
  <2>2. /\ call' \in [Threads -> Calls] /\ \A u \in Threads \ {t} : call'[u] = call[u]
        /\ call'[t].steps = ToAdopt /\ call'[t].cfg = call[t].cfg
    BY <1>2, <2>1, Going, Sequel DEF Ahead
  <2>3. Types' /\ OnDisk' BY <1>1, <1>2, <1>4, <2>1, <2>2 DEF Types, OnDisk, Good, dnsVars
  <2>4. Working(t)' BY <1>3, <1>4, <2>2 DEF Working, Held
  <2>5. QED BY <1>1, <1>2, <2>2, <2>3, <2>4, OneThread, Sequel DEF lifeVars
<1>8. ASSUME DOMAIN states # {} PROVE RInv'
  <2> DEFINE r == [call[t] EXCEPT !.steps = ToSave, !.local = states]
  <2>1. originals' = states /\ call' = [call EXCEPT ![t] = r] BY <1>3, <1>5, <1>8
  <2>2. call[t] \in Calls BY <1>2 DEF Types
  <2>3. /\ r \in Calls /\ r.steps = ToSave /\ r.local = states /\ r.cfg = call[t].cfg
    BY <1>6, <2>2 DEF Calls, Ahead
  <2> HIDE DEF r
  <2>4. /\ call' \in [Threads -> Calls] /\ \A u \in Threads \ {t} : call'[u] = call[u]
        /\ call'[t] = r
    BY <1>2, <2>1, <2>3 DEF Types
  <2>5. Types' /\ OnDisk'
    BY <1>1, <1>2, <1>4, <1>6, <2>1, <2>4 DEF Types, OnDisk, Good, dnsVars
  <2>6. Working(t)' BY <1>3, <1>4, <2>1, <2>3, <2>4 DEF Working
  <2>7. call'[t].steps # <<>> BY <2>3, <2>4, Sequel
  <2>8. QED BY <1>1, <1>2, <2>4, <2>5, <2>6, <2>7, OneThread DEF lifeVars
<1>9. QED BY <1>3, <1>4, <1>7, <1>8 DEF Kept

LEMMA KeptSave ==
  ASSUME RInv, Restorable, NEW t \in Threads, Save(t)
  PROVE  Kept
<1> DEFINE rest == Tail(call[t].steps)
<1>1. At(t, "save") /\ UNCHANGED <<dns, up, config, managerVars, lifeVars>> /\ Goes(t, rest)
  BY DEF Save, Proceeds
<1>2. Types /\ OnDisk /\ Busy(t) BY <1>1 DEF RInv, At
<1>3. /\ rest = ToPoint /\ call[t].cfg.enabled /\ Altered = {} /\ call[t].local = originals
  BY <1>1, Next_set
<1>4. file' = originals BY DEF Save, SaveState, Outcomes, Restorable
<1>5. /\ call' \in [Threads -> Calls] /\ \A u \in Threads \ {t} : call'[u] = call[u]
      /\ call'[t].steps = ToPoint /\ call'[t].cfg = call[t].cfg
      /\ call'[t].local = call[t].local
  BY <1>1, <1>2, <1>3, Going, Sequel DEF Ahead
<1>6. Altered' = {} BY <1>1, <1>3 DEF Altered
<1>7. originals' = originals BY <1>1 DEF managerVars
<1>8. Types' BY <1>1, <1>2, <1>4, <1>5, <1>7 DEF Types, managerVars
<1>9. OnDisk' BY <1>2, <1>4, <1>6, <1>7 DEF OnDisk, Good
<1>10. Working(t)' BY <1>3, <1>4, <1>5, <1>6, <1>7 DEF Working
<1>11. RInv' BY <1>1, <1>2, <1>5, <1>8, <1>9, <1>10, OneThread, Sequel DEF lifeVars
<1>12. Safe' \in SUBSET Interfaces
  BY <1>8, CaptureOfSome DEF Safe, Types, Captures
<1>13. Promise!Record BY <1>3, <1>6, <1>12 DEF Promise!Record
<1>14. QED BY <1>11, <1>13 DEF Kept, Promise!Next

LEMMA KeptPoint ==
  ASSUME RInv, NEW t \in Threads, Point(t)
  PROVE  Kept
<1>1. At(t, "point") /\ UNCHANGED <<up, file, config, managerVars, lifeVars>>
  BY DEF Point
<1>2. Types /\ OnDisk /\ Busy(t) BY <1>1 DEF RInv, At
<1>3. /\ call[t].steps = ToPoint /\ call[t].cfg.enabled
      /\ call[t].local = originals /\ file = originals /\ Altered \subseteq call[t].set
  BY <1>1, Next_set
<1>4. PICK i \in DOMAIN call[t].local \ call[t].done, ok \in BOOLEAN :
        /\ SetInterfaceDns(i, call[t].cfg.listen, ok)
        /\ call' = [call EXCEPT ![t].done = @ \cup {i},
                                ![t].set = IF ok THEN @ \cup {i} ELSE @]
  BY DEF Point, Outcomes
<1>5. i \in Interfaces /\ i \in DOMAIN file /\ file \in Captures
  BY <1>2, <1>3, <1>4, CaptureOfSome DEF Types
<1> DEFINE r == [call[t] EXCEPT !.done = @ \cup {i}, !.set = IF ok THEN @ \cup {i} ELSE @]
<1>6. call' = [call EXCEPT ![t] = r] BY <1>2, <1>4 DEF Types
<1>7. call[t] \in Calls BY <1>2 DEF Types
<1>8. /\ r \in Calls /\ r.steps = ToPoint /\ r.cfg = call[t].cfg /\ r.local = call[t].local
      /\ r.set = IF ok THEN call[t].set \cup {i} ELSE call[t].set
  BY <1>3, <1>5, <1>7 DEF Calls
<1> HIDE DEF r
<1>9. /\ call' \in [Threads -> Calls] /\ \A u \in Threads \ {t} : call'[u] = call[u]
      /\ call'[t] = r
  BY <1>2, <1>6, <1>8 DEF Types
<1>10. call[t].cfg.listen \in Settings BY <1>7 DEF Calls, Configs, Settings
<1>11. dns' \in [Interfaces -> Settings] BY <1>2, <1>4, <1>10 DEF SetInterfaceDns, Types
<1>12. Altered' \subseteq IF ok THEN Altered \cup {i} ELSE Altered
  BY <1>2, <1>4, <1>5 DEF SetInterfaceDns, Altered, Types
<1>13. Altered' = Altered \/ Altered' = Altered \cup {i}
  <2>1. CASE ~ok BY <1>4, <2>1 DEF SetInterfaceDns, Altered
  <2>2. CASE ok
    <3>1. call[t].cfg.listen # UserSetting[i]
      BY <1>5, <1>7, DnsAssumption DEF Calls, Configs
    <3>2. QED BY <1>2, <1>4, <1>5, <2>2, <3>1 DEF SetInterfaceDns, Altered, Types
  <2>3. QED BY <2>1, <2>2
<1>14. Types' BY <1>1, <1>2, <1>9, <1>11 DEF Types, managerVars
<1>15. Good(file)' /\ Good(originals)' /\ Safe' = Safe
  BY <1>1, <1>2 DEF OnDisk, Good, managerVars, Safe
<1>16. OnDisk' BY <1>1, <1>2, <1>5, <1>12, <1>15 DEF OnDisk
<1>17. Working(t)' BY <1>1, <1>3, <1>8, <1>9, <1>12 DEF Working, managerVars
<1>18. RInv' BY <1>1, <1>2, <1>8, <1>9, <1>14, <1>16, <1>17, OneThread, Sequel DEF lifeVars
<1>19. i \in Safe BY <1>2, <1>5, SafeIsFile DEF OnDisk
<1>20. Promise!Take \/ UNCHANGED <<Altered, Safe>>
  BY <1>13, <1>15, <1>19 DEF Promise!Take
<1>21. QED BY <1>18, <1>20 DEF Kept, Promise!Next

\* A file that is deleted when nothing is taken over is a new record, of nothing.
LEMMA Deleted ==
  ASSUME Altered = {}, dns' = dns, file' = NoStates
  PROVE  Promise!Record /\ Altered' = {} /\ Good(file)' /\ file' \in Captures
<1>1. Altered' = {} BY DEF Altered
<1>2. Safe' = {} BY NoCaptures DEF Safe
<1>3. QED BY <1>1, <1>2, NoCaptures DEF Promise!Record, Good

LEMMA KeptPointDone ==
  ASSUME RInv, NEW t \in Threads, PointDone(t)
  PROVE  Kept
<1> DEFINE rest == Tail(call[t].steps)
<1>1. /\ At(t, "point") /\ UNCHANGED <<dns, up, config, cfg, lifeVars>> /\ Goes(t, rest)
      /\ modified' = (call[t].set # {})
      /\ IF call[t].set = {} THEN file' = NoStates /\ originals' = NoStates
                             ELSE UNCHANGED <<file, originals>>
  BY DEF PointDone, Proceeds, DeleteState
<1>2. Types /\ OnDisk /\ Busy(t) BY <1>1 DEF RInv, At
<1>3. /\ rest = ToAdopt /\ call[t].cfg.enabled /\ file = originals
      /\ Altered \subseteq call[t].set
  BY <1>1, Next_set
<1>4. /\ call' \in [Threads -> Calls] /\ \A u \in Threads \ {t} : call'[u] = call[u]
      /\ call'[t].steps = ToAdopt /\ call'[t].cfg = call[t].cfg
  BY <1>1, <1>2, <1>3, Going, Sequel DEF Ahead
<1>5. modified' \in BOOLEAN BY <1>1
<1>6. CASE call[t].set = {}
  <2>1. Altered = {} BY <1>3, <1>6
  <2>2. Promise!Record /\ Altered' = {} /\ Good(file)' BY <1>1, <1>6, <2>1, Deleted
  <2>3. Types' BY <1>1, <1>2, <1>4, <1>5, <1>6, NoCaptures DEF Types
  <2>4. OnDisk' BY <1>1, <1>6, <2>2, NoCaptures DEF OnDisk, Good
  <2>5. Working(t)' BY <1>3, <1>4, <2>2 DEF Working, Held
  <2>6. RInv' BY <1>1, <1>2, <1>4, <2>3, <2>4, <2>5, OneThread, Sequel DEF lifeVars
  <2>7. QED BY <2>2, <2>6 DEF Kept, Promise!Next
<1>7. CASE call[t].set # {}
  <2>1. UNCHANGED <<file, originals>> /\ modified' = TRUE BY <1>1, <1>7
  <2>2. Altered' = Altered /\ Safe' = Safe /\ Good(file)' BY <1>1, <1>2, <2>1, Still DEF OnDisk
  <2>3. Types' BY <1>1, <1>2, <1>4, <2>1 DEF Types
  <2>4. OnDisk' BY <1>2, <2>1, <2>2 DEF OnDisk, Good
  <2>5. Working(t)' BY <1>2, <1>3, <1>4, <2>1, <2>2 DEF Working, Held, OnDisk
  <2>6. RInv' BY <1>1, <1>2, <1>4, <2>3, <2>4, <2>5, OneThread, Sequel DEF lifeVars
  <2>7. QED BY <2>2, <2>6 DEF Kept
<1>8. QED BY <1>6, <1>7

\* An interface that is given its captured setting back has the user's again.
LEMMA GivenBack ==
  ASSUME Types, OnDisk, Restorable, UNCHANGED <<file, originals>>,
         NEW i \in Interfaces, NEW st, RestoredSetting(st) = UserSetting[i],
         RestoreInterfaceDns(i, st)
  PROVE  /\ Altered' = Altered \ {i} /\ Safe' = Safe /\ OnDisk'
         /\ dns' \in [Interfaces -> Settings]
         /\ Promise!GiveBack \/ UNCHANGED <<Altered, Safe>>
<1>1. dns' = [dns EXCEPT ![i] = UserSetting[i]]
  BY DEF RestoreInterfaceDns, SetInterfaceDns, Outcomes, Restorable
<1>2. UserSetting[i] \in Settings BY DnsAssumption DEF Settings
<1>3. dns' \in [Interfaces -> Settings] BY <1>1, <1>2 DEF Types
<1>4. Altered' = Altered \ {i} BY <1>1 DEF Altered, Types
<1>5. Safe' = Safe BY DEF Safe
<1>6. OnDisk' BY <1>4 DEF OnDisk, Good
<1>7. Promise!GiveBack \/ UNCHANGED <<Altered, Safe>>
  <2>1. CASE i \in Altered BY <1>4, <1>5, <2>1 DEF Promise!GiveBack
  <2>2. CASE i \notin Altered BY <1>4, <1>5, <2>2
  <2>3. QED BY <2>1, <2>2
<1>8. QED BY <1>3, <1>4, <1>5, <1>6, <1>7

\* A call that has done one more interface.
LEMMA Visiting ==
  ASSUME Types, NEW t \in Threads, NEW i \in Interfaces, Visits(t, i)
  PROVE  /\ call' \in [Threads -> Calls]
         /\ \A u \in Threads \ {t} : call'[u] = call[u]
         /\ call'[t].steps = call[t].steps /\ call'[t].cfg = call[t].cfg
         /\ call'[t].local = call[t].local /\ call'[t].done = call[t].done \cup {i}
<1> DEFINE r == [call[t] EXCEPT !.done = @ \cup {i}]
<1>1. call[t] \in Calls BY DEF Types
<1>2. /\ r \in Calls /\ r.steps = call[t].steps /\ r.cfg = call[t].cfg
      /\ r.local = call[t].local /\ r.done = call[t].done \cup {i}
  BY <1>1 DEF Calls
<1>3. call' = [call EXCEPT ![t] = r] BY DEF Visits, Types
<1> HIDE DEF r
<1>4. QED BY <1>2, <1>3 DEF Types

LEMMA KeptRestore ==
  ASSUME RInv, Restorable, NEW t \in Threads, Restore(t)
  PROVE  Kept
<1>1. At(t, "restore") /\ UNCHANGED <<up, file, config, managerVars, lifeVars>>
  BY DEF Restore
<1>2. Types /\ OnDisk /\ Busy(t) BY <1>1 DEF RInv, At
<1>3. /\ Left(t)
      /\ \/ call[t].steps = ToRestoreMove /\ call[t].cfg.enabled
         \/ call[t].steps \in {ToRestoreOff, ToRestore}
  BY <1>1, Next_restore
<1>4. PICK i \in DOMAIN originals \ call[t].done :
        RestoreInterfaceDns(i, originals[i]) /\ Visits(t, i)
  BY DEF Restore
<1>5. i \in Interfaces /\ RestoredSetting(originals[i]) = UserSetting[i]
  BY <1>2, <1>4, CaptureOfSome DEF Types, OnDisk, Good
<1>6. UNCHANGED <<file, originals>> BY <1>1 DEF managerVars
<1>7. /\ Altered' = Altered \ {i} /\ OnDisk' /\ dns' \in [Interfaces -> Settings]
      /\ Promise!GiveBack \/ UNCHANGED <<Altered, Safe>>
  BY <1>2, <1>4, <1>5, <1>6, GivenBack
<1>8. /\ call' \in [Threads -> Calls] /\ \A u \in Threads \ {t} : call'[u] = call[u]
      /\ call'[t].steps = call[t].steps /\ call'[t].cfg = call[t].cfg
      /\ call'[t].done = call[t].done \cup {i}
  BY <1>2, <1>4, <1>5, Visiting
<1>9. Types' BY <1>1, <1>2, <1>7, <1>8 DEF Types, managerVars
<1>10. Left(t)' BY <1>3, <1>6, <1>7, <1>8 DEF Left
<1>11. Working(t)' BY <1>3, <1>8, <1>10 DEF Working
<1>12. call'[t].steps # <<>> BY <1>2, <1>8 DEF Busy
<1>13. RInv' BY <1>1, <1>2, <1>7, <1>8, <1>9, <1>11, <1>12, OneThread DEF lifeVars
<1>14. QED BY <1>7, <1>13 DEF Kept, Promise!Next

LEMMA KeptRestoreDone ==
  ASSUME RInv, NEW t \in Threads, RestoreDone(t)
  PROVE  Kept
<1> DEFINE rest == Tail(call[t].steps)
<1>1. /\ At(t, "restore") /\ DOMAIN originals \subseteq call[t].done
      /\ file' = NoStates /\ originals' = NoStates /\ modified' = FALSE /\ Goes(t, rest)
      /\ UNCHANGED <<dns, up, config, cfg, proxy, forwarder, lifeVars>>
  BY DEF RestoreDone, Proceeds, DeleteState
<1>2. Types /\ OnDisk /\ Busy(t) BY <1>1 DEF RInv, At
<1>3. /\ Left(t)
      /\ \/ rest = ToEnumerate /\ call[t].cfg.enabled
         \/ rest \in {ToAdopt, <<>>}
  BY <1>1, Next_restore
<1>4. Altered = {} BY <1>1, <1>3 DEF Left
<1>5. Promise!Record /\ Altered' = {} /\ Good(file)' /\ file' \in Captures
  BY <1>1, <1>4, Deleted
<1>6. rest \in Ahead \cup {<<>>} BY <1>3 DEF Ahead
<1> HIDE DEF rest
<1>7. /\ call' \in [Threads -> Calls] /\ \A u \in Threads \ {t} : call'[u] = call[u]
      /\ call'[t].steps = rest /\ (rest # <<>> => call'[t].cfg = call[t].cfg)
  BY <1>1, <1>2, <1>6, Going
<1>8. Types' BY <1>1, <1>2, <1>5, <1>7, NoCaptures DEF Types
<1>9. OnDisk' BY <1>1, <1>5, NoCaptures DEF OnDisk, Good
<1>10. Resting' BY <1>5 DEF Resting, Held
<1>11. rest # <<>> => Working(t)' BY <1>3, <1>5, <1>7 DEF Working, Held
<1>12. RInv' BY <1>1, <1>2, <1>7, <1>8, <1>9, <1>10, <1>11, OneThread DEF lifeVars
<1>13. QED BY <1>5, <1>12 DEF Kept, Promise!Next

LEMMA KeptAdopt ==
  ASSUME RInv, NEW t \in Threads, Adopt(t)
  PROVE  Kept
<1>1. /\ At(t, "adopt") /\ cfg' = call[t].cfg /\ Goes(t, Tail(call[t].steps))
      /\ UNCHANGED <<dnsVars, config, proxy, forwarder, modified, originals, lifeVars>>
  BY DEF Adopt, Proceeds
<1>2. Types /\ OnDisk /\ Busy(t) BY <1>1 DEF RInv, At
<1>3. Tail(call[t].steps) = <<>> /\ Held /\ (call[t].cfg.enabled \/ Altered = {})
  BY <1>1, Next_last
<1>4. /\ call' \in [Threads -> Calls] /\ \A u \in Threads \ {t} : call'[u] = call[u]
      /\ call'[t].steps = <<>>
  BY <1>1, <1>2, <1>3, Going
<1>5. Altered' = Altered /\ Safe' = Safe /\ Good(file)' BY <1>1, <1>2, Still DEF dnsVars, OnDisk
<1>6. call[t].cfg \in Configs BY <1>2 DEF Types, Calls
<1>7. Types' /\ OnDisk' BY <1>1, <1>2, <1>4, <1>5, <1>6 DEF Types, OnDisk, Good, dnsVars
<1>8. Resting' BY <1>1, <1>3, <1>5 DEF Resting, Held
<1>9. RInv' BY <1>1, <1>2, <1>4, <1>7, <1>8, OneThread DEF lifeVars
<1>10. QED BY <1>5, <1>9 DEF Kept

LEMMA KeptCheck ==
  ASSUME RInv, NEW t \in Threads, CheckModified(t)
  PROVE  Kept
<1> DEFINE rest == IF modified THEN ToRestore ELSE <<>>
<1>1. At(t, "check") /\ Goes(t, rest) /\ UNCHANGED <<dnsVars, config, managerVars, lifeVars>>
  BY DEF CheckModified, ToRestore
<1>2. Types /\ OnDisk /\ Busy(t) BY <1>1 DEF RInv, At
<1>3. Held BY <1>1, Next_last
<1>4. rest \in Ahead \cup {<<>>} BY DEF Ahead
<1>5. rest # <<>> => rest = ToRestore OBVIOUS
<1>6. rest = <<>> => Altered = {} BY <1>3, Sequel DEF Held
<1> HIDE DEF rest
<1>7. /\ call' \in [Threads -> Calls] /\ \A u \in Threads \ {t} : call'[u] = call[u]
      /\ call'[t].steps = rest /\ (rest # <<>> => call'[t].done = {})
  BY <1>1, <1>2, <1>4, Going
<1>8. Altered' = Altered /\ Safe' = Safe /\ Good(file)' BY <1>1, <1>2, Still DEF dnsVars, OnDisk
<1>9. Types' /\ OnDisk'
  BY <1>1, <1>2, <1>7, <1>8 DEF Types, OnDisk, Good, dnsVars, managerVars
<1>10. rest = <<>> => Resting' BY <1>6, <1>8 DEF Resting, Held
<1>11. rest # <<>> => Working(t)'
  BY <1>1, <1>3, <1>5, <1>7, <1>8 DEF Working, Held, Left, managerVars
<1>12. RInv' BY <1>1, <1>2, <1>7, <1>9, <1>10, <1>11, OneThread DEF lifeVars
<1>13. QED BY <1>8, <1>12 DEF Kept

LEMMA KeptRecover ==
  ASSUME RInv, Restorable, NEW t \in Threads, Recover(t)
  PROVE  Kept
<1>1. At(t, "recover") /\ UNCHANGED <<up, file, config, managerVars, lifeVars>>
  BY DEF Recover
<1>2. Types /\ OnDisk /\ Busy(t) BY <1>1 DEF RInv, At
<1>3. /\ call[t].steps = ToRecover /\ Good(call[t].local)
      /\ Altered \subseteq DOMAIN call[t].local \ call[t].done
  BY <1>1, Next_last
<1>4. PICK i \in DOMAIN call[t].local \ call[t].done :
        RestoreInterfaceDns(i, call[t].local[i]) /\ Visits(t, i)
  BY DEF Recover
<1>5. call[t].local \in Captures BY <1>2 DEF Types, Calls
<1>6. i \in Interfaces /\ RestoredSetting(call[t].local[i]) = UserSetting[i]
  BY <1>3, <1>4, <1>5, CaptureOfSome DEF Good
<1>7. UNCHANGED <<file, originals>> BY <1>1 DEF managerVars
<1>8. /\ Altered' = Altered \ {i} /\ OnDisk' /\ dns' \in [Interfaces -> Settings]
      /\ Promise!GiveBack \/ UNCHANGED <<Altered, Safe>>
  BY <1>2, <1>4, <1>6, <1>7, GivenBack
<1>9. /\ call' \in [Threads -> Calls] /\ \A u \in Threads \ {t} : call'[u] = call[u]
      /\ call'[t].steps = call[t].steps /\ call'[t].local = call[t].local
      /\ call'[t].done = call[t].done \cup {i}
  BY <1>2, <1>4, <1>6, Visiting
<1>10. Types' BY <1>1, <1>2, <1>8, <1>9 DEF Types, managerVars
<1>11. Working(t)' BY <1>3, <1>8, <1>9 DEF Working, Good
<1>12. call'[t].steps # <<>> BY <1>2, <1>9 DEF Busy
<1>13. RInv' BY <1>1, <1>2, <1>8, <1>9, <1>10, <1>11, <1>12, OneThread DEF lifeVars
<1>14. QED BY <1>8, <1>13 DEF Kept, Promise!Next

LEMMA KeptRecoverDone ==
  ASSUME RInv, NEW t \in Threads, RecoverDone(t)
  PROVE  Kept
<1>1. /\ At(t, "recover") /\ call[t].done = DOMAIN call[t].local /\ file' = NoStates
      /\ Goes(t, Tail(call[t].steps)) /\ UNCHANGED <<dns, up, config, managerVars, lifeVars>>
  BY DEF RecoverDone, Proceeds, DeleteState
<1>2. Types /\ OnDisk /\ Busy(t) BY <1>1 DEF RInv, At
<1>3. Tail(call[t].steps) = <<>> /\ Altered = {} BY <1>1, Next_last
<1>4. Promise!Record /\ Altered' = {} /\ Good(file)' /\ file' \in Captures
  BY <1>1, <1>3, Deleted
<1>5. /\ call' \in [Threads -> Calls] /\ \A u \in Threads \ {t} : call'[u] = call[u]
      /\ call'[t].steps = <<>>
  BY <1>1, <1>2, <1>3, Going
<1>6. Types' BY <1>1, <1>2, <1>4, <1>5 DEF Types, managerVars
<1>7. OnDisk' BY <1>1, <1>2, <1>4 DEF OnDisk, Good, managerVars
<1>8. Resting' BY <1>4 DEF Resting, Held
<1>9. RInv' BY <1>1, <1>2, <1>5, <1>6, <1>7, <1>8, OneThread DEF lifeVars
<1>10. QED BY <1>4, <1>9 DEF Kept, Promise!Next

\* ---- the life of the application ------------------------------------------

\* With one call at a time there is room for another only when nobody is in the manager.
LEMMA RoomIsCalm ==
  ASSUME Serial, Room
  PROVE  Calm
<1> DEFINE busy == {t \in Threads : Busy(t)}
<1>1. IsFiniteSet(Threads) BY ManagerAssumption, FS_Singleton, FS_Union DEF Threads
<1>2. IsFiniteSet(busy) BY <1>1, FS_Subset
<1>3. Cardinality(busy) \in Nat /\ Cardinality(busy) < 1
  BY <1>2, FS_CardinalityType DEF Room, Serial
<1>4. busy = {} BY <1>2, <1>3, FS_EmptySet
<1>5. QED BY <1>4 DEF Calm

\* A thread enters the manager while nobody is in it.
LEMMA Entering ==
  ASSUME RInv, Calm, NEW t \in Threads, NEW r \in Calls, call' = [call EXCEPT ![t] = r],
         life' # "down", Types', OnDisk', Resting',
         r.steps # <<>> => Working(t)'
  PROVE  RInv'
<1>1. \A u \in Threads \ {t} : ~Busy(u) /\ ~Busy(u)' BY DEF Calm, Busy, RInv, Types
<1>2. call'[t] = r BY DEF RInv, Types
<1>3. Alone' BY <1>1 DEF Alone
<1>4. (\A u \in Threads : Busy(u) => life # "down" /\ Working(u))'
  <2> SUFFICES ASSUME NEW u \in Threads, Busy(u)' PROVE (life # "down" /\ Working(u))'
    OBVIOUS
  <2>1. u = t BY <1>1
  <2>2. QED BY <1>2, <2>1 DEF Busy
<1>5. QED BY <1>3, <1>4 DEF RInv

\* The steps of apply fit the state it finds between two calls.
LEMMA Applying ==
  ASSUME Held, cfg.enabled \/ Altered = {}, NEW c \in Configs
  PROVE  LET s == ApplySteps(c) IN
         /\ s \in Ahead
         /\ \/ s = ToAdopt /\ (c.enabled \/ Altered = {})
            \/ s = ToEnable /\ c.enabled /\ Altered = {}
            \/ s = ToDisable
            \/ s \in {ToMove, ToRestart} /\ c.enabled
<1>1. CASE ~cfg.enabled /\ ~Wanted(c)
  <2>1. ApplySteps(c) = ToAdopt BY <1>1 DEF ApplySteps, ToAdopt
  <2>2. QED BY <1>1, <2>1 DEF Ahead
<1>2. CASE ~cfg.enabled /\ Wanted(c)
  <2>1. ApplySteps(c) = ToEnable BY <1>2 DEF ApplySteps, ToEnable
  <2>2. QED BY <1>2, <2>1 DEF Ahead, Wanted
<1>3. CASE cfg.enabled /\ ~Wanted(c)
  <2>1. ApplySteps(c) = ToDisable BY <1>3 DEF ApplySteps, ToDisable
  <2>2. QED BY <2>1 DEF Ahead
<1>4. CASE cfg.enabled /\ Wanted(c)
  <2>1. ApplySteps(c) = BothOnSteps(c) BY <1>4 DEF ApplySteps
  <2>2. CASE cfg.listen # c.listen
    <3>1. BothOnSteps(c) = ToMove BY <2>2 DEF BothOnSteps, ToMove
    <3>2. QED BY <1>4, <2>1, <3>1 DEF Ahead, Wanted
  <2>3. CASE cfg.listen = c.listen /\ TargetChanged(c)
    <3>1. BothOnSteps(c) = ToRestart BY <2>3 DEF BothOnSteps, ToRestart
    <3>2. QED BY <1>4, <2>1, <3>1 DEF Ahead, Wanted
  <2>4. CASE cfg.listen = c.listen /\ ~TargetChanged(c)
    <3>1. BothOnSteps(c) = ToAdopt BY <2>4 DEF BothOnSteps, ToAdopt
    <3>2. QED BY <1>4, <2>1, <3>1 DEF Ahead, Wanted
  <2>5. QED BY <2>2, <2>3, <2>4
<1>5. QED BY <1>1, <1>2, <1>3, <1>4

\* A call of apply, or of stop, begins while nobody is in the manager.
LEMMA Beginning ==
  ASSUME RInv, Calm, life # "down", life' # "down", NEW t \in Threads, NEW c \in Configs,
         NEW steps \in {ApplySteps(c), StopSteps},
         call' = [call EXCEPT ![t] = Begun(steps, c)],
         config' \in Configs, UNCHANGED <<dnsVars, managerVars>>
  PROVE  Kept
<1> DEFINE r == Begun(steps, c)
<1>1. Types /\ OnDisk /\ Held /\ (cfg.enabled \/ Altered = {}) BY DEF RInv, Resting
<1>2. /\ steps \in Ahead
      /\ \/ steps = ToAdopt /\ (c.enabled \/ Altered = {})
         \/ steps = ToEnable /\ c.enabled /\ Altered = {}
         \/ steps \in {ToDisable, ToStop}
         \/ steps \in {ToMove, ToRestart} /\ c.enabled
  BY <1>1, Applying DEF StopSteps, ToStop, Ahead
<1>3. r \in Calls /\ r.steps = steps /\ r.cfg = c
  BY <1>2, IdleCall DEF Begun, Calls
<1>0. call' = [call EXCEPT ![t] = r] OBVIOUS
<1> HIDE DEF r
<1>4. call' \in [Threads -> Calls] /\ call'[t] = r BY <1>0, <1>1, <1>3 DEF Types
<1>5. Altered' = Altered /\ Safe' = Safe /\ Good(file)' BY <1>1, Still DEF dnsVars, OnDisk
<1>6. Types' /\ OnDisk' BY <1>1, <1>4, <1>5 DEF Types, OnDisk, Good, dnsVars, managerVars
<1>7. Held' /\ Resting' BY <1>1, <1>5 DEF Resting, Held, managerVars
<1>8. Working(t)' BY <1>2, <1>3, <1>4, <1>5, <1>7 DEF Working
<1>9. RInv' BY <1>0, <1>3, <1>6, <1>7, <1>8, Entering
<1>10. QED BY <1>5, <1>9 DEF Kept

LEMMA KeptLife ==
  ASSUME RInv, Serial, ApplyInitial \/ (\E h \in Handlers : Apply(h)) \/ Shutdown \/ Close
  PROVE  Kept
<1>1. config \in Configs /\ Main \in Threads BY DEF RInv, Types, Threads
<1>2. CASE ApplyInitial
  BY <1>1, <1>2, RoomIsCalm, Beginning DEF ApplyInitial, Begins
<1>3. CASE Shutdown
  BY <1>1, <1>3, RoomIsCalm, Beginning DEF Shutdown, Begins
<1>4. CASE Close
  BY <1>1, <1>4, Beginning DEF Close, Begins, Calm
<1>5. CASE \E h \in Handlers : Apply(h)
  <2>1. PICK h \in Handlers : Apply(h) BY <1>5
  <2>2. PICK c \in Configs : config' = c /\ call' = [call EXCEPT ![h] = Begun(ApplySteps(c), c)]
    BY <2>1 DEF Apply
  <2>3. h \in Threads /\ Calm /\ life # "down" /\ life' # "down"
        /\ UNCHANGED <<dnsVars, managerVars>>
    BY <2>1, RoomIsCalm DEF Apply, Threads
  <2>4. QED BY <2>2, <2>3, Beginning
<1>6. QED BY <1>2, <1>3, <1>4, <1>5

\* Steps that leave the manager, Windows' settings and the file as they are.
LEMMA Unmoved ==
  ASSUME RInv, UNCHANGED <<dns, file, cfg, modified, originals, config, call>>,
         up' \subseteq Interfaces, life = "down" <=> life' = "down"
  PROVE  Kept
<1>1. Altered' = Altered /\ Safe' = Safe /\ Good(file)' BY Still DEF RInv, OnDisk
<1>2. Types' /\ OnDisk' BY <1>1 DEF RInv, Types, OnDisk, Good
<1>3. Alone' BY DEF RInv, Alone, Busy
<1>4. (Calm => Resting)' BY <1>1 DEF RInv, Calm, Busy, Resting, Held
<1>5. (\A t \in Threads : Busy(t) => life # "down" /\ Working(t))'
  BY <1>1 DEF RInv, Busy, Working, Held, Left, Good
<1>6. QED BY <1>1, <1>2, <1>3, <1>4, <1>5 DEF Kept, RInv

LEMMA KeptLaunch ==
  ASSUME RInv, Launch
  PROVE  Kept
<1>1. /\ life = "down" /\ life' = "recovering" /\ UNCHANGED <<dnsVars, config>>
      /\ cfg' = DefaultConfig /\ modified' = FALSE /\ originals' = NoStates
  BY DEF Launch, FreshManager
<1>2. Types /\ OnDisk /\ Calm /\ Main \in Threads BY <1>1 DEF RInv, Calm, Threads
<1>3. Altered' = Altered /\ Safe' = Safe /\ Good(file)' BY <1>1, <1>2, Still DEF dnsVars, OnDisk
<1> DEFINE r == IF file = NoStates THEN Idle
                ELSE [Begun(<<"recover">>, config) EXCEPT !.local = file]
<1>4. call' = [call EXCEPT ![Main] = r] BY DEF Launch
<1>5. r.steps = <<>> => file = NoStates
  BY IdleCall, Sequel DEF Idle, Begun, ToRecover
<1>6. r.steps # <<>> => r.steps = ToRecover /\ r.local = file /\ r.done = {}
  BY IdleCall DEF Idle, Begun, ToRecover
<1>7. r \in Calls
  <2>1. CASE file = NoStates BY <2>1, IdleCall
  <2>2. CASE file # NoStates
    BY <1>2, <2>2, IdleCall DEF Calls, Begun, Types, Ahead, ToRecover, Idle
  <2>3. QED BY <2>1, <2>2
<1> HIDE DEF r
<1>8. call' \in [Threads -> Calls] /\ call'[Main] = r BY <1>2, <1>4, <1>7 DEF Types
<1>9. Types' BY <1>1, <1>2, <1>8, NoCaptures, ManagerAssumption DEF Types, dnsVars
<1>10. OnDisk' BY <1>1, <1>2, <1>3, NoCaptures DEF OnDisk, Good, dnsVars
<1>11. r.steps = <<>> => Resting'
  BY <1>1, <1>2, <1>3, <1>5, NoCaptures DEF Resting, Held, OnDisk
<1>12. r.steps # <<>> => Working(Main)'
  BY <1>2, <1>3, <1>6, <1>8 DEF Working, OnDisk, Good
<1>13. (Calm => Resting)' BY <1>2, <1>8, <1>11 DEF Calm, Busy
<1>14. \A u \in Threads \ {Main} : ~Busy(u)'
  BY <1>2, <1>4 DEF Calm, Busy, Types
<1>15. Alone' BY <1>14 DEF Alone
<1>16. (\A u \in Threads : Busy(u) => life # "down" /\ Working(u))'
  <2> SUFFICES ASSUME NEW u \in Threads, Busy(u)' PROVE (life # "down" /\ Working(u))'
    OBVIOUS
  <2>1. u = Main BY <1>14
  <2>2. QED BY <1>1, <1>8, <1>12, <2>1 DEF Busy
<1>17. RInv' BY <1>9, <1>10, <1>13, <1>15, <1>16 DEF RInv
<1>18. QED BY <1>3, <1>17 DEF Kept

\* An exit or a crash forgets all but the file.
LEMMA KeptGone ==
  ASSUME RInv, Exit \/ Crash
  PROVE  Kept
<1>1. /\ life' = "down" /\ UNCHANGED <<dnsVars, config>>
      /\ call' = [t \in Threads |-> Idle]
      /\ cfg' = DefaultConfig /\ modified' = FALSE /\ originals' = NoStates
  BY DEF Exit, Crash, Gone, FreshManager
<1>2. Types /\ OnDisk BY DEF RInv
<1>3. Altered' = Altered /\ Safe' = Safe /\ Good(file)' BY <1>1, <1>2, Still DEF dnsVars, OnDisk
<1>4. \A t \in Threads : ~Busy(t)' BY <1>1, IdleCall DEF Busy
<1>5. Types' BY <1>1, <1>2, IdleCall, NoCaptures, ManagerAssumption DEF Types, dnsVars
<1>6. OnDisk' BY <1>1, <1>2, <1>3, NoCaptures DEF OnDisk, Good, dnsVars
<1>7. Alone' /\ (Calm => Resting)' BY <1>1, <1>4 DEF Alone, Resting
<1>8. RInv' BY <1>4, <1>5, <1>6, <1>7 DEF RInv
<1>9. QED BY <1>3, <1>8 DEF Kept

\* ---- the theorem ----------------------------------------------------------

LEMMA KeptInit ==
  ASSUME Init
  PROVE  RInv /\ Promise!Init
<1>1. /\ dns = UserSetting /\ up = Interfaces /\ file = NoStates /\ config \in Configs
      /\ cfg = DefaultConfig /\ modified = FALSE /\ originals = NoStates
      /\ call = [t \in Threads |-> Idle] /\ life = "down"
  BY DEF Init, DnsInit, FreshManager
<1>2. Altered = {} BY <1>1 DEF Altered
<1>3. Safe = {} BY <1>1, NoCaptures DEF Safe
<1>4. dns \in [Interfaces -> Settings] BY <1>1, DnsAssumption DEF Settings
<1>5. Types BY <1>1, <1>4, IdleCall, NoCaptures, ManagerAssumption DEF Types
<1>6. OnDisk BY <1>1, <1>2, NoCaptures DEF OnDisk
<1>7. \A t \in Threads : ~Busy(t) BY <1>1, IdleCall DEF Busy
<1>8. QED BY <1>1, <1>2, <1>3, <1>5, <1>6, <1>7 DEF RInv, Alone, Resting, Promise!Init

LEMMA KeptNext ==
  ASSUME RInv, Serial, Restorable, [Next]_vars
  PROVE  Kept
<1>1. ASSUME NEW t \in Threads, Step(t) PROVE Kept
  BY <1>1, KeptStart, KeptStop, KeptEnumerate, KeptSave, KeptPoint, KeptPointDone,
     KeptRestore, KeptRestoreDone, KeptAdopt, KeptCheck, KeptRecover, KeptRecoverDone
     DEF Step
<1>2. CASE ApplyInitial \/ (\E h \in Handlers : Apply(h)) \/ Shutdown \/ Close
  BY <1>2, KeptLife
<1>3. CASE Launch BY <1>3, KeptLaunch
<1>4. CASE Exit \/ Crash BY <1>4, KeptGone
<1>5. CASE Serve \/ Started
  BY <1>5, Unmoved DEF Serve, Started, dnsVars, managerVars, RInv, Types
<1>6. CASE LinkChange /\ UNCHANGED <<config, managerVars, call, lifeVars>>
  BY <1>6, Unmoved DEF LinkChange, managerVars, lifeVars, RInv, Types
<1>7. CASE UNCHANGED vars
  BY <1>7, Unmoved DEF vars, dnsVars, managerVars, lifeVars, RInv, Types
<1>8. QED BY <1>1, <1>2, <1>3, <1>4, <1>5, <1>6, <1>7 DEF Next

\* DnsManager implements DnsPromise: an interface is taken over only while its setting
\* is on disk, and the record is given up only when none is, whatever the interfaces,
\* the changes of the configuration, the other failures and the crashes.
THEOREM PromiseKept ==
  ASSUME Serial, Restorable
  PROVE  Spec => KeepsPromise
<1>1. Init => RInv /\ Promise!Init BY KeptInit
<1>2. RInv /\ [Next]_vars => RInv' BY KeptNext DEF Kept
<1>3. RInv /\ [Next]_vars => [Promise!Next]_<<Altered, Safe>> BY KeptNext DEF Kept
<1>4. QED BY <1>1, <1>2, <1>3, PTL DEF Spec, KeepsPromise, Promise!Spec, Promise!promiseVars

\* The consequence a user sees: at any moment, a crash included, an interface without
\* the user's setting has it in the state file.
AlwaysOnDisk == Altered \subseteq Safe

THEOREM SettingOnDisk ==
  ASSUME Serial, Restorable
  PROVE  Spec => []AlwaysOnDisk
<1>1. Init => RInv BY KeptInit
<1>2. RInv /\ [Next]_vars => RInv' BY KeptNext DEF Kept
<1>3. RInv => AlwaysOnDisk BY SafeIsFile DEF RInv, OnDisk, AlwaysOnDisk
<1>4. QED BY <1>1, <1>2, <1>3, PTL DEF Spec
\* ---- the configuration, and what is left behind ---------------------------

\* The forwarder, if it runs, is the one c asks for, and the proxy remembered is its.
TargetOf(c) == [listen |-> c.listen, upstream |-> c.upstream, proxy |-> c.proxy]
Runs(c) ==
  forwarder = None \/ (Wanted(c) /\ forwarder = TargetOf(c) /\ proxy = c.proxy)

\* An interface that was taken over points where the forwarder of c listens.
Points(c) == \A i \in Altered : Wanted(c) /\ dns[i] = c.listen

\* A call of apply works towards what is configured, by the steps ahead.
Towards(t) ==
  /\ call[t].cfg = config
  /\ LET s == call[t].steps IN
     \/ s = ToAdopt /\ Runs(config) /\ Points(config)
     \/ s = ToPoint /\ Wanted(config) /\ Runs(config) /\ Points(config)
     \/ s \in {ToSave, ToEnumerate, ToRestoreMove} /\ Wanted(config) /\ Runs(config)
     \/ s \in {ToEnable, ToMove, ToStartMove} /\ Wanted(config)
     \/ s \in {ToStart, ToRestart} /\ Wanted(config) /\ Points(config)
     \/ s = ToRestoreOff /\ forwarder = None
     \/ s = ToDisable

\* What a call has applied is in force; from the initial apply on it is what is configured.
Settled == Runs(cfg) /\ Points(cfg) /\ (life # "serving" => cfg = config)

Agreement ==
  life \in {"serving", "applying", "up"} =>
    /\ Calm => Settled
    /\ \A t \in Threads : Busy(t) => Towards(t)

\* Without a mark that system DNS was modified there is no file, outside of the steps
\* that are about to make or to delete one.
Tidy ==
  life # "down" =>
    \/ modified \/ file = NoStates
    \/ \E t \in Threads : call[t].steps \in {ToPoint, ToRecover}

\* Before the application serves, and once it has stopped serving, only the main thread
\* is in the manager, and what it ends with is nothing.
Ends ==
  /\ life = "recovering" => forwarder = None
  /\ life \in {"recovering", "closing"} =>
       /\ \A h \in Handlers : ~Busy(h)
       /\ call[Main].steps \in {<<>>, ToRecover, ToStop, ToCheck, ToRestore}
       /\ ~Busy(Main) => Altered = {} /\ file = NoStates

CInv == RInv /\ Agreement /\ Tidy /\ Ends

\* A call that is over has no steps, and is nobody's.
LEMMA Others ==
  ASSUME RInv, NEW t \in Threads, Busy(t), NEW u \in Threads \ {t}
  PROVE  call[u].steps = <<>> /\ ~Busy(u)
BY DEF RInv, Alone, Busy

\* What a thread that is about to take a step may rely on.
LEMMA Midway ==
  ASSUME CInv, NEW t \in Threads, Busy(t)
  PROVE  /\ life \in {"serving", "applying", "up"} => Towards(t)
         /\ call[t].steps \notin {ToPoint, ToRecover} => modified \/ file = NoStates
         /\ life \in {"recovering", "closing"} =>
              call[t].steps \in {ToRecover, ToStop, ToCheck, ToRestore}
<1>1. life # "down" BY DEF CInv, RInv
<1>2. life \in {"serving", "applying", "up"} => Towards(t) BY DEF CInv, Agreement
<1>3. \A u \in Threads : call[u].steps \in {ToPoint, ToRecover} => u = t
  BY Others, Sequel DEF CInv
<1>4. call[t].steps \notin {ToPoint, ToRecover} => modified \/ file = NoStates
  BY <1>1, <1>3 DEF CInv, Tidy
<1>5. ASSUME life \in {"recovering", "closing"}
      PROVE  call[t].steps \in {ToRecover, ToStop, ToCheck, ToRestore}
  BY <1>5 DEF CInv, Ends, Busy, Threads
<1>6. QED BY <1>2, <1>4, <1>5

\* The step of one thread, as far as the configuration and what is left are concerned.
Agreed == Agreement /\ Tidy /\ Ends

LEMMA Onward ==
  ASSUME CInv, NEW t \in Threads, Busy(t), UNCHANGED life,
         \A u \in Threads \ {t} : call'[u] = call[u],
         life \in {"serving", "applying", "up"} =>
           IF call'[t].steps = <<>> THEN Settled' ELSE Towards(t)',
         modified' \/ file' = NoStates \/ call'[t].steps \in {ToPoint, ToRecover},
         life \in {"recovering", "closing"} =>
           /\ forwarder' \in {forwarder, None}
           /\ call'[t].steps \in {<<>>, ToRecover, ToStop, ToCheck, ToRestore}
           /\ call'[t].steps = <<>> => Altered' = {} /\ file' = NoStates
  PROVE  Agreed'
<1>1. \A u \in Threads \ {t} : call'[u].steps = <<>> /\ ~Busy(u)' BY Others DEF Busy, CInv
<1>2. Agreement'
  <2> SUFFICES ASSUME life \in {"serving", "applying", "up"}
               PROVE  (Calm => Settled)' /\ (\A u \in Threads : Busy(u) => Towards(u))'
    BY DEF Agreement
  <2>1. (Calm => Settled)' BY DEF Calm, Busy
  <2>2. (\A u \in Threads : Busy(u) => Towards(u))'
    <3> SUFFICES ASSUME NEW u \in Threads, Busy(u)' PROVE Towards(u)' OBVIOUS
    <3>1. u = t BY <1>1
    <3>2. Towards(t)' BY <3>1 DEF Busy
    <3>3. QED BY <3>1, <3>2
  <2>3. QED BY <2>1, <2>2
<1>3. Tidy' BY DEF Tidy
<1>4. Ends'
  <2>1. life = "recovering" => forwarder' = None BY DEF CInv, Ends
  <2>2. ASSUME life \in {"recovering", "closing"}
        PROVE  /\ \A h \in Handlers : ~Busy(h)'
               /\ call'[Main].steps \in {<<>>, ToRecover, ToStop, ToCheck, ToRestore}
               /\ ~Busy(Main)' => Altered' = {} /\ file' = NoStates
    <3>1. t = Main BY <2>2 DEF CInv, Ends, Threads
    <3>2. \A h \in Handlers : ~Busy(h)' BY <1>1, <3>1, ManagerAssumption DEF Threads
    <3>3. QED BY <2>2, <3>1, <3>2 DEF Busy
  <2>3. QED BY <2>1, <2>2 DEF Ends
<1>5. QED BY <1>2, <1>3, <1>4 DEF Agreed

LEMMA AgreedStart ==
  ASSUME CInv, NEW t \in Threads, StartForwarder(t)
  PROVE  Agreed'
<1> DEFINE rest == Tail(call[t].steps)
<1>1. At(t, "start") /\ UNCHANGED <<dnsVars, config, cfg, modified, originals, lifeVars>>
      /\ Goes(t, rest)
  BY DEF StartForwarder, Proceeds
<1>2. Types /\ Busy(t) BY <1>1 DEF CInv, RInv, At
<1>3. rest \in {ToEnumerate, ToRestoreMove, ToAdopt}
      /\ call[t].steps \in {ToEnable, ToStartMove, ToStart}
  BY <1>1, Next_start DEF CInv
<1>4. rest \in Ahead /\ rest # <<>> BY <1>3, Sequel DEF Ahead
<1>5. PICK ok \in BOOLEAN :
        /\ forwarder' = IF ok THEN TargetOf(call[t].cfg) ELSE None
        /\ proxy' = IF ok THEN call[t].cfg.proxy ELSE proxy
  BY DEF StartForwarder, Outcomes, TargetOf
<1>6. call[t].steps \notin {ToPoint, ToRecover, ToStop, ToCheck, ToRestore}
  BY <1>3, Sequel DEF ToEnable, ToStartMove, ToStart, ToPoint, ToRecover, ToStop, ToCheck, ToRestore
<1>7. ASSUME life \in {"serving", "applying", "up"}
      PROVE  /\ call[t].cfg = config /\ Wanted(config)
             /\ rest = ToAdopt => Points(config)
  <2>1. Towards(t) BY <1>2, <1>7, Midway
  <2>2. QED BY <1>1, <2>1, Sequel DEF Towards, At
<1> HIDE DEF rest
<1>8. /\ call' \in [Threads -> Calls] /\ \A u \in Threads \ {t} : call'[u] = call[u]
      /\ call'[t].steps = rest /\ call'[t].cfg = call[t].cfg
  BY <1>1, <1>2, <1>4, Going
<1>9. ASSUME life \in {"serving", "applying", "up"}
      PROVE  Towards(t)'
  <2>1. Runs(config)' BY <1>1, <1>5, <1>7, <1>9 DEF Runs, Wanted, TargetOf
  <2>2. rest = ToAdopt => Points(config)'
    BY <1>1, <1>7, <1>9 DEF Points, Altered, dnsVars, Wanted
  <2>3. (call[t].cfg = config)' /\ Wanted(config)' BY <1>1, <1>7, <1>8, <1>9 DEF Wanted
  <2>4. QED BY <1>3, <1>8, <2>1, <2>2, <2>3 DEF Towards
<1>10. modified' \/ file' = NoStates BY <1>1, <1>2, <1>6, Midway DEF dnsVars
<1>11. life \notin {"recovering", "closing"} BY <1>2, <1>6, Midway
<1>12. QED BY <1>1, <1>2, <1>4, <1>8, <1>9, <1>10, <1>11, Onward DEF lifeVars

LEMMA AgreedStop ==
  ASSUME CInv, NEW t \in Threads, StopForwarder(t)
  PROVE  Agreed'
<1> DEFINE rest == Tail(call[t].steps)
<1>1. At(t, "stop") /\ UNCHANGED <<dnsVars, config, cfg, proxy, modified, originals, lifeVars>>
      /\ Goes(t, rest) /\ forwarder' = None
  BY DEF StopForwarder, Proceeds
<1>2. Types /\ Busy(t) BY <1>1 DEF CInv, RInv, At
<1>3. rest \in {ToStartMove, ToStart, ToRestoreOff, ToCheck} BY <1>1, Next_stop DEF CInv
<1>4. rest \in Ahead /\ rest # <<>> BY <1>3, Sequel DEF Ahead
<1>5. call[t].steps \notin {ToPoint, ToRecover} BY <1>1, Sequel DEF At
<1>6. ASSUME life \in {"serving", "applying", "up"}
      PROVE  /\ call[t].cfg = config
             /\ \/ rest = ToStartMove /\ Wanted(config)
                \/ rest = ToStart /\ Wanted(config) /\ Points(config)
                \/ rest = ToRestoreOff
  <2>1. Towards(t) BY <1>2, <1>6, Midway
  <2>2. QED BY <1>1, <2>1, Sequel DEF Towards, At
<1>7. life \in {"recovering", "closing"} => rest = ToCheck
  BY <1>1, <1>2, Midway, Sequel DEF At
<1> HIDE DEF rest
<1>8. /\ call' \in [Threads -> Calls] /\ \A u \in Threads \ {t} : call'[u] = call[u]
      /\ call'[t].steps = rest /\ call'[t].cfg = call[t].cfg
  BY <1>1, <1>2, <1>4, Going
<1>9. ASSUME life \in {"serving", "applying", "up"}
      PROVE  Towards(t)'
  <2>1. Points(config) => Points(config)' BY <1>1 DEF Points, Altered, dnsVars, Wanted
  <2>2. (call[t].cfg = config)' /\ (Wanted(config) => Wanted(config)')
    BY <1>1, <1>6, <1>8, <1>9 DEF Wanted
  <2>3. QED BY <1>1, <1>6, <1>8, <1>9, <2>1, <2>2 DEF Towards
<1>10. modified' \/ file' = NoStates BY <1>1, <1>2, <1>5, Midway DEF dnsVars
<1>11. QED BY <1>1, <1>2, <1>4, <1>7, <1>8, <1>9, <1>10, Onward DEF lifeVars

LEMMA AgreedEnumerate ==
  ASSUME CInv, NEW t \in Threads, Enumerate(t)
  PROVE  Agreed'
<1>1. At(t, "enumerate")
      /\ UNCHANGED <<dnsVars, config, cfg, proxy, forwarder, modified, lifeVars>>
  BY DEF Enumerate
<1>2. Types /\ Busy(t) BY <1>1 DEF CInv, RInv, At
<1>3. /\ Altered = {} /\ call[t].steps = ToEnumerate /\ Tail(call[t].steps) = ToSave
  BY <1>1, Next_set DEF CInv
<1>4. call[t].steps \notin {ToPoint, ToRecover, ToStop, ToCheck, ToRestore}
  BY <1>1, Sequel DEF At
<1>5. life \in {"serving", "applying", "up"} =>
        call[t].cfg = config /\ Wanted(config) /\ Runs(config)
  <2>1. ASSUME Towards(t) PROVE call[t].cfg = config /\ Wanted(config) /\ Runs(config)
    BY <1>1, <2>1, Sequel DEF Towards, At
  <2>2. QED BY <1>2, <2>1, Midway
<1>6. /\ \A u \in Threads \ {t} : call'[u] = call[u]
      /\ call'[t].steps \in {ToAdopt, ToSave} /\ call'[t].cfg = call[t].cfg
  <2>1. PICK states \in Captured :
          IF DOMAIN states = {}
          THEN Goes(t, <<"adopt">>) /\ UNCHANGED originals
          ELSE /\ originals' = states
               /\ call' = [call EXCEPT ![t].steps = Tail(@), ![t].local = states]
    BY DEF Enumerate
  <2>2. CASE DOMAIN states = {}
    <3>1. Goes(t, ToAdopt) BY <2>1, <2>2 DEF ToAdopt
    <3>2. QED BY <1>2, <3>1, Going, Sequel DEF Ahead
  <2>3. CASE DOMAIN states # {}
    <3> DEFINE r == [call[t] EXCEPT !.steps = ToSave, !.local = states]
    <3>1. call' = [call EXCEPT ![t] = r] BY <1>3, <2>1, <2>3
    <3>2. call[t] \in Calls BY <1>2 DEF Types
    <3>3. r.steps = ToSave /\ r.cfg = call[t].cfg BY <3>2 DEF Calls
    <3> HIDE DEF r
    <3>4. QED BY <1>2, <3>1, <3>3 DEF Types
  <2>4. QED BY <2>2, <2>3
<1>7. ASSUME life \in {"serving", "applying", "up"}
      PROVE  Towards(t)'
  <2>1. Runs(config)' BY <1>1, <1>5, <1>7 DEF Runs, Wanted, TargetOf
  <2>2. Points(config)' BY <1>1, <1>3 DEF Points, Altered, dnsVars
  <2>3. (call[t].cfg = config)' /\ Wanted(config)' BY <1>1, <1>5, <1>6, <1>7 DEF Wanted
  <2>4. QED BY <1>6, <2>1, <2>2, <2>3 DEF Towards
<1>8. modified' \/ file' = NoStates BY <1>1, <1>2, <1>4, Midway DEF dnsVars
<1>9. life \notin {"recovering", "closing"} BY <1>2, <1>4, Midway
<1>10. call'[t].steps # <<>> BY <1>6, Sequel
<1>11. QED BY <1>1, <1>2, <1>6, <1>7, <1>8, <1>9, <1>10, Onward DEF lifeVars

LEMMA AgreedSave ==
  ASSUME CInv, NEW t \in Threads, Save(t)
  PROVE  Agreed'
<1> DEFINE rest == Tail(call[t].steps)
<1>1. At(t, "save") /\ UNCHANGED <<dns, up, config, managerVars, lifeVars>> /\ Goes(t, rest)
  BY DEF Save, Proceeds
<1>2. Types /\ Busy(t) BY <1>1 DEF CInv, RInv, At
<1>3. rest = ToPoint /\ Altered = {} BY <1>1, Next_set DEF CInv
<1>4. call[t].steps \notin {ToRecover, ToStop, ToCheck, ToRestore} BY <1>1, Sequel DEF At
<1>5. life \in {"serving", "applying", "up"} =>
        call[t].cfg = config /\ Wanted(config) /\ Runs(config)
  <2>1. ASSUME Towards(t) PROVE call[t].cfg = config /\ Wanted(config) /\ Runs(config)
    BY <1>1, <2>1, Sequel DEF Towards, At
  <2>2. QED BY <1>2, <2>1, Midway
<1>6. /\ call' \in [Threads -> Calls] /\ \A u \in Threads \ {t} : call'[u] = call[u]
      /\ call'[t].steps = ToPoint /\ call'[t].cfg = call[t].cfg
  BY <1>1, <1>2, <1>3, Going, Sequel DEF Ahead
<1>7. ASSUME life \in {"serving", "applying", "up"}
      PROVE  Towards(t)'
  <2>1. Runs(config)' BY <1>1, <1>5, <1>7 DEF Runs, Wanted, TargetOf, managerVars
  <2>2. Points(config)' BY <1>1, <1>3 DEF Points, Altered
  <2>3. (call[t].cfg = config)' /\ Wanted(config)' BY <1>1, <1>5, <1>6, <1>7 DEF Wanted
  <2>4. QED BY <1>6, <2>1, <2>2, <2>3 DEF Towards
<1>8. life \notin {"recovering", "closing"} BY <1>2, <1>4, Midway
<1>9. QED BY <1>1, <1>2, <1>6, <1>7, <1>8, Onward, Sequel DEF lifeVars

LEMMA AgreedPoint ==
  ASSUME CInv, NEW t \in Threads, Point(t)
  PROVE  Agreed'
<1>1. At(t, "point") /\ UNCHANGED <<up, file, config, managerVars, lifeVars>>
  BY DEF Point
<1>2. Types /\ Busy(t) BY <1>1 DEF CInv, RInv, At
<1>3. call[t].steps = ToPoint BY <1>1, Next_set DEF CInv
<1>4. call[t].steps \notin {ToRecover, ToStop, ToCheck, ToRestore} BY <1>1, Sequel DEF At
<1>5. life \in {"serving", "applying", "up"} =>
        call[t].cfg = config /\ Wanted(config) /\ Runs(config) /\ Points(config)
  <2>1. ASSUME Towards(t)
        PROVE  call[t].cfg = config /\ Wanted(config) /\ Runs(config) /\ Points(config)
    BY <1>1, <2>1, Sequel DEF Towards, At
  <2>2. QED BY <1>2, <2>1, Midway
<1>6. PICK i \in DOMAIN call[t].local \ call[t].done, ok \in BOOLEAN :
        /\ SetInterfaceDns(i, call[t].cfg.listen, ok)
        /\ call' = [call EXCEPT ![t].done = @ \cup {i},
                                ![t].set = IF ok THEN @ \cup {i} ELSE @]
  BY DEF Point, Outcomes
<1> DEFINE r == [call[t] EXCEPT !.done = @ \cup {i}, !.set = IF ok THEN @ \cup {i} ELSE @]
<1>7. call' = [call EXCEPT ![t] = r] BY <1>2, <1>6 DEF Types
<1>8. call[t] \in Calls BY <1>2 DEF Types
<1>9. r.steps = ToPoint /\ r.cfg = call[t].cfg BY <1>3, <1>8 DEF Calls
<1> HIDE DEF r
<1>10. /\ \A u \in Threads \ {t} : call'[u] = call[u]
       /\ call'[t].steps = ToPoint /\ call'[t].cfg = call[t].cfg
  BY <1>2, <1>7, <1>9 DEF Types
<1>11. ASSUME life \in {"serving", "applying", "up"}
       PROVE  Towards(t)'
  <2>1. Runs(config)' BY <1>1, <1>5, <1>11 DEF Runs, Wanted, TargetOf, managerVars
  <2>2. \A j \in Interfaces : dns'[j] = dns[j] \/ dns'[j] = config.listen
    BY <1>2, <1>5, <1>6, <1>11 DEF SetInterfaceDns, Types
  <2>3. Points(config)' BY <1>1, <1>5, <1>11, <2>2 DEF Points, Altered, Wanted
  <2>4. (call[t].cfg = config)' /\ Wanted(config)' BY <1>1, <1>5, <1>10, <1>11 DEF Wanted
  <2>5. QED BY <1>10, <2>1, <2>3, <2>4 DEF Towards
<1>12. life \notin {"recovering", "closing"} BY <1>2, <1>4, Midway
<1>13. QED BY <1>1, <1>2, <1>10, <1>11, <1>12, Onward, Sequel DEF lifeVars

LEMMA AgreedPointDone ==
  ASSUME CInv, NEW t \in Threads, PointDone(t)
  PROVE  Agreed'
<1> DEFINE rest == Tail(call[t].steps)
<1>1. /\ At(t, "point") /\ UNCHANGED <<dns, up, config, cfg, proxy, forwarder, lifeVars>>
      /\ Goes(t, rest)
      /\ modified' = (call[t].set # {})
      /\ IF call[t].set = {} THEN file' = NoStates /\ originals' = NoStates
                             ELSE UNCHANGED <<file, originals>>
  BY DEF PointDone, Proceeds, DeleteState
<1>2. Types /\ Busy(t) BY <1>1 DEF CInv, RInv, At
<1>3. rest = ToAdopt BY <1>1, Next_set DEF CInv
<1>4. call[t].steps \notin {ToRecover, ToStop, ToCheck, ToRestore} BY <1>1, Sequel DEF At
<1>5. life \in {"serving", "applying", "up"} =>
        call[t].cfg = config /\ Runs(config) /\ Points(config)
  <2>1. ASSUME Towards(t) PROVE call[t].cfg = config /\ Runs(config) /\ Points(config)
    BY <1>1, <2>1, Sequel DEF Towards, At
  <2>2. QED BY <1>2, <2>1, Midway
<1>6. /\ call' \in [Threads -> Calls] /\ \A u \in Threads \ {t} : call'[u] = call[u]
      /\ call'[t].steps = ToAdopt /\ call'[t].cfg = call[t].cfg
  BY <1>1, <1>2, <1>3, Going, Sequel DEF Ahead
<1>7. ASSUME life \in {"serving", "applying", "up"}
      PROVE  Towards(t)'
  <2>1. Runs(config)' BY <1>1, <1>5, <1>7 DEF Runs, Wanted, TargetOf
  <2>2. Points(config)' BY <1>1, <1>5, <1>7 DEF Points, Altered, Wanted
  <2>3. (call[t].cfg = config)' BY <1>1, <1>5, <1>6, <1>7
  <2>4. QED BY <1>6, <2>1, <2>2, <2>3 DEF Towards
<1>8. modified' \/ file' = NoStates
  <2>1. CASE call[t].set = {} BY <1>1, <2>1
  <2>2. CASE call[t].set # {}
    <3>1. modified' = TRUE BY <1>1, <2>2
    <3>2. QED BY <3>1
  <2>3. QED BY <2>1, <2>2
<1>9. life \notin {"recovering", "closing"} BY <1>2, <1>4, Midway
<1>10. QED BY <1>1, <1>2, <1>6, <1>7, <1>8, <1>9, Onward, Sequel DEF lifeVars

LEMMA AgreedRestore ==
  ASSUME CInv, Restorable, NEW t \in Threads, Restore(t)
  PROVE  Agreed'
<1>1. At(t, "restore") /\ UNCHANGED <<up, file, config, managerVars, lifeVars>>
  BY DEF Restore
<1>2. Types /\ OnDisk /\ Busy(t) BY <1>1 DEF CInv, RInv, At
<1>3. call[t].steps \notin {ToPoint, ToRecover} BY <1>1, Sequel DEF At
<1>4. PICK i \in DOMAIN originals \ call[t].done :
        RestoreInterfaceDns(i, originals[i]) /\ Visits(t, i)
  BY DEF Restore
<1>5. i \in Interfaces BY <1>2, <1>4, CaptureOfSome DEF Types
<1>6. /\ \A u \in Threads \ {t} : call'[u] = call[u]
      /\ call'[t].steps = call[t].steps /\ call'[t].cfg = call[t].cfg
  BY <1>2, <1>4, <1>5, Visiting
<1>7. ASSUME life \in {"serving", "applying", "up"}
      PROVE  Towards(t)'
  <2>1. Towards(t) BY <1>2, <1>7, Midway
  <2>2. /\ call[t].cfg = config
        /\ \/ call[t].steps = ToRestoreMove /\ Wanted(config) /\ Runs(config)
           \/ call[t].steps = ToRestoreOff /\ forwarder = None
    BY <1>1, <2>1, Sequel DEF Towards, At
  <2>3. Runs(config) => Runs(config)' BY <1>1 DEF Runs, Wanted, TargetOf, managerVars
  <2>4. (call[t].cfg = config)' /\ (Wanted(config) => Wanted(config)')
    BY <1>1, <1>6, <2>2 DEF Wanted
  <2>5. forwarder' = forwarder BY <1>1 DEF managerVars
  <2>6. QED BY <1>6, <2>2, <2>3, <2>4, <2>5 DEF Towards
<1>8. modified' \/ file' = NoStates BY <1>1, <1>2, <1>3, Midway DEF managerVars
<1>9. life \in {"recovering", "closing"} =>
        /\ forwarder' = forwarder /\ call'[t].steps # <<>>
        /\ call'[t].steps \in {ToRecover, ToStop, ToCheck, ToRestore}
  BY <1>1, <1>2, <1>6, Midway DEF managerVars, Busy
<1>10. call'[t].steps # <<>> BY <1>2, <1>6 DEF Busy
<1>11. QED BY <1>1, <1>2, <1>6, <1>7, <1>8, <1>9, <1>10, Onward DEF lifeVars

LEMMA AgreedRestoreDone ==
  ASSUME CInv, NEW t \in Threads, RestoreDone(t)
  PROVE  Agreed'
<1> DEFINE rest == Tail(call[t].steps)
<1>1. /\ At(t, "restore") /\ DOMAIN originals \subseteq call[t].done
      /\ file' = NoStates /\ Goes(t, rest)
      /\ UNCHANGED <<dns, up, config, cfg, proxy, forwarder, lifeVars>>
  BY DEF RestoreDone, Proceeds, DeleteState
<1>2. Types /\ Busy(t) BY <1>1 DEF CInv, RInv, At
<1>3. Left(t) /\ rest \in {ToEnumerate, ToAdopt, <<>>} BY <1>1, Next_restore DEF CInv
<1>4. Altered = {} /\ Altered' = {} BY <1>1, <1>3 DEF Left, Altered
<1>5. rest \in Ahead \cup {<<>>} BY <1>3 DEF Ahead
<1>6. ASSUME life \in {"serving", "applying", "up"}
      PROVE  /\ call[t].cfg = config
             /\ \/ rest = ToEnumerate /\ Wanted(config) /\ Runs(config)
                \/ rest = ToAdopt /\ forwarder = None
  <2>1. Towards(t) BY <1>2, <1>6, Midway
  <2>2. QED BY <1>1, <2>1, Sequel DEF Towards, At
<1>7. life \in {"recovering", "closing"} => rest = <<>>
  BY <1>1, <1>2, Midway, Sequel DEF At
<1> HIDE DEF rest
<1>8. /\ call' \in [Threads -> Calls] /\ \A u \in Threads \ {t} : call'[u] = call[u]
      /\ call'[t].steps = rest /\ (rest # <<>> => call'[t].cfg = call[t].cfg)
  BY <1>1, <1>2, <1>5, Going
<1>9. ASSUME life \in {"serving", "applying", "up"}
      PROVE  Towards(t)' /\ rest # <<>>
  <2>1. rest # <<>> BY <1>6, <1>9, Sequel
  <2>2. Runs(config) => Runs(config)' BY <1>1 DEF Runs, Wanted, TargetOf
  <2>3. forwarder = None => Runs(config)' BY <1>1 DEF Runs
  <2>4. Points(config)' BY <1>4 DEF Points
  <2>5. (call[t].cfg = config)' /\ (Wanted(config) => Wanted(config)')
    BY <1>1, <1>6, <1>8, <1>9, <2>1 DEF Wanted
  <2>6. QED BY <1>6, <1>8, <1>9, <2>1, <2>2, <2>3, <2>4, <2>5 DEF Towards
<1>10. QED BY <1>1, <1>2, <1>4, <1>7, <1>8, <1>9, Onward DEF lifeVars

LEMMA AgreedAdopt ==
  ASSUME CInv, NEW t \in Threads, Adopt(t)
  PROVE  Agreed'
<1>1. /\ At(t, "adopt") /\ cfg' = call[t].cfg /\ Goes(t, Tail(call[t].steps))
      /\ UNCHANGED <<dnsVars, config, proxy, forwarder, modified, originals, lifeVars>>
  BY DEF Adopt, Proceeds
<1>2. Types /\ Busy(t) BY <1>1 DEF CInv, RInv, At
<1>3. Tail(call[t].steps) = <<>> BY <1>1, Next_last DEF CInv
<1>4. call[t].steps \notin {ToPoint, ToRecover, ToStop, ToCheck, ToRestore}
  BY <1>1, Sequel DEF At
<1>5. /\ \A u \in Threads \ {t} : call'[u] = call[u]
      /\ call'[t].steps = <<>>
  BY <1>1, <1>2, <1>3, Going
<1>6. ASSUME life \in {"serving", "applying", "up"}
      PROVE  Settled'
  <2>1. Towards(t) BY <1>2, <1>6, Midway
  <2>2. call[t].cfg = config /\ Runs(config) /\ Points(config)
    BY <1>1, <2>1, Sequel DEF Towards, At
  <2>3. cfg' = config /\ cfg' = config' BY <1>1, <2>2
  <2>4. Runs(cfg)' BY <1>1, <2>2, <2>3 DEF Runs, Wanted, TargetOf
  <2>5. Points(cfg)' BY <1>1, <2>2, <2>3 DEF Points, Altered, Wanted, dnsVars
  <2>6. QED BY <2>3, <2>4, <2>5 DEF Settled
<1>7. modified' \/ file' = NoStates BY <1>1, <1>2, <1>4, Midway DEF dnsVars
<1>8. life \notin {"recovering", "closing"} BY <1>2, <1>4, Midway
<1>9. QED BY <1>1, <1>2, <1>5, <1>6, <1>7, <1>8, Onward DEF lifeVars

LEMMA AgreedCheck ==
  ASSUME CInv, NEW t \in Threads, CheckModified(t)
  PROVE  Agreed'
<1> DEFINE rest == IF modified THEN ToRestore ELSE <<>>
<1>1. At(t, "check") /\ Goes(t, rest) /\ UNCHANGED <<dnsVars, config, managerVars, lifeVars>>
  BY DEF CheckModified, ToRestore
<1>2. Types /\ Busy(t) BY <1>1 DEF CInv, RInv, At
<1>3. Held BY <1>1, Next_last DEF CInv
<1>4. call[t].steps \notin {ToPoint, ToRecover} BY <1>1, Sequel DEF At
<1>5. modified \/ file = NoStates BY <1>2, <1>4, Midway
<1>6. /\ rest \in Ahead \cup {<<>>} /\ rest \in {ToRestore, <<>>}
      /\ rest = <<>> => Altered = {} /\ file = NoStates
  BY <1>3, <1>5, Sequel DEF Ahead, Held
<1> HIDE DEF rest
<1>7. \A u \in Threads \ {t} : call'[u] = call[u]
  BY <1>1, <1>2, <1>6, Going
<1>8. call'[t].steps = rest BY <1>1, <1>2, <1>6, Going
<1>9. life \notin {"serving", "applying", "up"}
  <2>1. ASSUME Towards(t) PROVE FALSE BY <1>1, <2>1, Sequel DEF Towards, At
  <2>2. QED BY <1>2, <2>1, Midway
<1>10. modified' \/ file' = NoStates BY <1>1, <1>5 DEF dnsVars, managerVars
<1>11. rest = <<>> => Altered' = {} /\ file' = NoStates
  BY <1>1, <1>6 DEF dnsVars, Altered
<1>12. QED
  BY <1>1, <1>2, <1>6, <1>7, <1>8, <1>9, <1>10, <1>11, Onward DEF lifeVars, managerVars

LEMMA AgreedRecover ==
  ASSUME CInv, NEW t \in Threads, Recover(t) \/ RecoverDone(t)
  PROVE  Agreed'
<1>1. /\ At(t, "recover") /\ UNCHANGED <<config, managerVars, lifeVars>>
  BY DEF Recover, RecoverDone
<1>2. Types /\ Busy(t) BY <1>1 DEF CInv, RInv, At
<1>3. /\ call[t].steps = ToRecover /\ Tail(call[t].steps) = <<>>
      /\ Altered \subseteq DOMAIN call[t].local \ call[t].done
  BY <1>1, Next_last DEF CInv
<1>4. life \notin {"serving", "applying", "up"}
  <2>1. ASSUME Towards(t) PROVE FALSE BY <1>1, <2>1, Sequel DEF Towards, At
  <2>2. QED BY <1>2, <2>1, Midway
<1>5. CASE Recover(t)
  <2>1. PICK i \in DOMAIN call[t].local \ call[t].done : Visits(t, i) BY <1>5 DEF Recover
  <2>2. call[t].local \in Captures BY <1>2 DEF Types, Calls
  <2>3. i \in Interfaces BY <2>1, <2>2, CaptureOfSome
  <2>4. /\ \A u \in Threads \ {t} : call'[u] = call[u]
        /\ call'[t].steps = ToRecover
    BY <1>2, <1>3, <2>1, <2>3, Visiting
  <2>5. QED BY <1>1, <1>2, <1>4, <2>4, Onward, Sequel DEF lifeVars, managerVars
<1>6. CASE RecoverDone(t)
  <2>1. /\ Goes(t, <<>>) /\ file' = NoStates /\ dns' = dns
        /\ call[t].done = DOMAIN call[t].local
    BY <1>3, <1>6 DEF RecoverDone, Proceeds, DeleteState
  <2>2. /\ \A u \in Threads \ {t} : call'[u] = call[u]
        /\ call'[t].steps = <<>>
    BY <1>2, <2>1, Going
  <2>3. Altered' = {} BY <1>3, <2>1 DEF Altered
  <2>4. QED BY <1>1, <1>2, <1>4, <2>1, <2>2, <2>3, Onward DEF lifeVars, managerVars
<1>7. QED BY <1>5, <1>6

\* The steps apply chooses lead from what is in force to what it is given.
LEMMA Leading ==
  ASSUME Runs(cfg), Points(cfg), NEW c \in Configs
  PROVE  LET s == ApplySteps(c) IN
         \/ s = ToAdopt /\ Runs(c) /\ Points(c)
         \/ s \in {ToEnable, ToMove} /\ Wanted(c)
         \/ s = ToRestart /\ Wanted(c) /\ Points(c)
         \/ s = ToDisable
<1>1. CASE ~cfg.enabled /\ ~Wanted(c)
  <2>1. ApplySteps(c) = ToAdopt BY <1>1 DEF ApplySteps, ToAdopt
  <2>2. Runs(c) /\ Points(c) BY <1>1 DEF Runs, Points, Wanted
  <2>3. QED BY <2>1, <2>2
<1>2. CASE ~cfg.enabled /\ Wanted(c)
  <2>1. ApplySteps(c) = ToEnable BY <1>2 DEF ApplySteps, ToEnable
  <2>2. QED BY <1>2, <2>1
<1>3. CASE cfg.enabled /\ ~Wanted(c)
  <2>1. ApplySteps(c) = ToDisable BY <1>3 DEF ApplySteps, ToDisable
  <2>2. QED BY <2>1
<1>4. CASE cfg.enabled /\ Wanted(c)
  <2>1. ApplySteps(c) = BothOnSteps(c) BY <1>4 DEF ApplySteps
  <2>2. CASE cfg.listen # c.listen
    <3>1. BothOnSteps(c) = ToMove BY <2>2 DEF BothOnSteps, ToMove
    <3>2. QED BY <1>4, <2>1, <3>1
  <2>3. CASE cfg.listen = c.listen /\ TargetChanged(c)
    <3>1. BothOnSteps(c) = ToRestart BY <2>3 DEF BothOnSteps, ToRestart
    <3>2. Points(c) BY <1>4, <2>3 DEF Points
    <3>3. QED BY <1>4, <2>1, <3>1, <3>2
  <2>4. CASE cfg.listen = c.listen /\ ~TargetChanged(c)
    <3>1. BothOnSteps(c) = ToAdopt BY <2>4 DEF BothOnSteps, ToAdopt
    <3>2. Points(c) BY <1>4, <2>4 DEF Points
    <3>3. Runs(c) BY <1>4, <2>4 DEF Runs, TargetChanged, TargetOf
    <3>4. QED BY <2>1, <3>1, <3>2, <3>3
  <2>5. QED BY <2>2, <2>3, <2>4
<1>5. QED BY <1>1, <1>2, <1>3, <1>4

\* A call begins while nobody is in the manager, and nothing else changes.
LEMMA Starting ==
  ASSUME CInv, Calm, life # "down", NEW t \in Threads, NEW c \in Configs,
         NEW steps \in {ApplySteps(c), StopSteps},
         call' = [call EXCEPT ![t] = Begun(steps, c)],
         config' = c, UNCHANGED <<dnsVars, managerVars>>,
         life' \in {"serving", "applying", "up"} =>
           life \in {"serving", "applying", "up"} /\ steps = ApplySteps(c),
         life' = "closing" => t = Main /\ steps = StopSteps,
         life' # "recovering"
  PROVE  Agreed'
<1>1. call'[t].steps = steps /\ call'[t].cfg = c
  BY DEF CInv, RInv, Types, Begun, Idle
<1>2. \A u \in Threads \ {t} : call'[u].steps = <<>> /\ ~Busy(u)'
  BY DEF Calm, Busy, CInv, RInv, Types
<1>3. Held /\ (cfg.enabled \/ Altered = {}) BY DEF CInv, RInv, Resting
<1>4. steps \in Ahead /\ (steps = StopSteps => steps = ToStop)
  BY <1>3, Applying DEF StopSteps, ToStop, Ahead
<1>5. steps # <<>> BY <1>4, Sequel DEF Ahead
<1>6. Tidy'
  <2>1. \A u \in Threads : call[u].steps \notin {ToPoint, ToRecover}
    BY Sequel DEF Calm, Busy
  <2>2. modified \/ file = NoStates BY <2>1 DEF CInv, Tidy
  <2>3. QED BY <2>2 DEF Tidy, dnsVars, managerVars
<1>7. Agreement'
  <2> SUFFICES ASSUME life' \in {"serving", "applying", "up"}
               PROVE  (Calm => Settled)' /\ (\A u \in Threads : Busy(u) => Towards(u))'
    BY DEF Agreement
  <2>1. life \in {"serving", "applying", "up"} /\ steps = ApplySteps(c) OBVIOUS
  <2>2. Runs(cfg) /\ Points(cfg) BY <2>1 DEF CInv, Agreement, Settled
  <2>3. \/ steps = ToAdopt /\ Runs(c) /\ Points(c)
        \/ steps \in {ToEnable, ToMove} /\ Wanted(c)
        \/ steps = ToRestart /\ Wanted(c) /\ Points(c)
        \/ steps = ToDisable
    BY <2>1, <2>2, Leading
  <2>4. Runs(c) => Runs(config)' BY DEF Runs, Wanted, TargetOf, managerVars
  <2>5. Points(c) => Points(config)' BY DEF Points, Altered, Wanted, dnsVars
  <2>6. Wanted(c) => Wanted(config)' BY DEF Wanted
  <2>7. Towards(t)' BY <1>1, <2>3, <2>4, <2>5, <2>6 DEF Towards
  <2>8. ~Calm' BY <1>1, <1>5 DEF Calm, Busy
  <2>9. (\A u \in Threads : Busy(u) => Towards(u))'
    <3> SUFFICES ASSUME NEW u \in Threads, Busy(u)' PROVE Towards(u)' OBVIOUS
    <3>1. u = t BY <1>2
    <3>2. QED BY <2>7, <3>1
  <2>10. QED BY <2>8, <2>9
<1>8. Ends'
  <2>1. life' # "recovering" OBVIOUS
  <2>2. ASSUME life' = "closing"
        PROVE  /\ \A h \in Handlers : ~Busy(h)'
               /\ call'[Main].steps = ToStop /\ Busy(Main)'
    <3>1. t = Main /\ steps = ToStop BY <1>4, <2>2
    <3>2. \A h \in Handlers : ~Busy(h)' BY <1>2, <3>1, ManagerAssumption DEF Threads
    <3>3. QED BY <1>1, <1>5, <3>1, <3>2 DEF Busy
  <2>3. QED BY <2>1, <2>2 DEF Ends
<1>9. QED BY <1>6, <1>7, <1>8 DEF Agreed

LEMMA AgreedLife ==
  ASSUME CInv, Serial, ApplyInitial \/ (\E h \in Handlers : Apply(h)) \/ Shutdown \/ Close
  PROVE  Agreed'
<1>1. config \in Configs /\ Main \in Threads BY DEF CInv, RInv, Types, Threads
<1>2. CASE ApplyInitial
  BY <1>1, <1>2, RoomIsCalm, Starting DEF ApplyInitial, Begins
<1>3. CASE Shutdown
  BY <1>1, <1>3, RoomIsCalm, Starting DEF Shutdown, Begins
<1>4. CASE Close
  BY <1>1, <1>4, Starting DEF Close, Begins, Calm
<1>5. CASE \E h \in Handlers : Apply(h)
  <2>1. PICK h \in Handlers : Apply(h) BY <1>5
  <2>2. PICK c \in Configs : config' = c /\ call' = [call EXCEPT ![h] = Begun(ApplySteps(c), c)]
    BY <2>1 DEF Apply
  <2>3. h \in Threads /\ Calm /\ UNCHANGED <<dnsVars, managerVars, life>>
        /\ life \in {"serving", "applying", "up", "stopping"}
    BY <2>1, RoomIsCalm DEF Apply, Threads
  <2>4. QED BY <2>2, <2>3, Starting
<1>6. QED BY <1>2, <1>3, <1>4, <1>5

LEMMA AgreedLaunch ==
  ASSUME CInv, Launch
  PROVE  Agreed'
<1>1. /\ life = "down" /\ life' = "recovering" /\ UNCHANGED <<dnsVars, config>>
      /\ forwarder' = None
  BY DEF Launch, FreshManager
<1>2. Types /\ OnDisk /\ Main \in Threads /\ \A u \in Threads : ~Busy(u)
  BY <1>1 DEF CInv, RInv, Threads
<1> DEFINE r == IF file = NoStates THEN Idle
                ELSE [Begun(<<"recover">>, config) EXCEPT !.local = file]
<1>3. call' = [call EXCEPT ![Main] = r] BY DEF Launch
<1>4. r.steps = IF file = NoStates THEN <<>> ELSE ToRecover
  BY IdleCall DEF Idle, Begun, ToRecover
<1> HIDE DEF r
<1>5. call'[Main].steps = IF file = NoStates THEN <<>> ELSE ToRecover
  BY <1>2, <1>3, <1>4 DEF Types
<1>6. \A h \in Handlers : ~Busy(h)'
  BY <1>2, <1>3, ManagerAssumption DEF Busy, Types, Threads
<1>7. file = NoStates => Altered' = {}
  BY <1>1, <1>2, NoCaptures DEF OnDisk, Altered, dnsVars
<1>8. Ends' BY <1>1, <1>5, <1>6, <1>7, Sequel DEF Ends, Busy, dnsVars
<1>9. Tidy' BY <1>1, <1>2, <1>5 DEF Tidy, dnsVars
<1>10. Agreement' BY <1>1 DEF Agreement
<1>11. QED BY <1>8, <1>9, <1>10 DEF Agreed

\* Steps that leave the manager, Windows' settings and the file as they are.
LEMMA AgreedUnmoved ==
  ASSUME CInv, UNCHANGED <<dns, file, config, managerVars, call>>,
         life' = life \/ Serve \/ Started
  PROVE  Agreed'
<1>1. /\ \A t \in Threads : (Busy(t)' <=> Busy(t)) /\ call'[t] = call[t]
      /\ Altered' = Altered
  BY DEF Busy, Altered
<1>2. Runs(cfg) => Runs(cfg)' BY DEF Runs, Wanted, TargetOf, managerVars
<1>3. Points(cfg) => Points(cfg)' BY DEF Points, Wanted, Altered, managerVars
<1>4. \A t \in Threads : Towards(t) => Towards(t)'
  <2>1. Runs(config) => Runs(config)' BY DEF Runs, Wanted, TargetOf, managerVars
  <2>2. Points(config) => Points(config)' BY DEF Points, Wanted, Altered
  <2>3. Wanted(config) => Wanted(config)' BY DEF Wanted
  <2>4. forwarder' = forwarder BY DEF managerVars
  <2>5. QED BY <2>1, <2>2, <2>3, <2>4 DEF Towards
<1>5. Calm' <=> Calm BY <1>1 DEF Calm
<1>6. Agreement'
  <2>1. CASE life' = life \/ Started
    <3>1. life' \in {"serving", "applying", "up"} =>
            /\ life \in {"serving", "applying", "up"}
            /\ (life' # "serving" => life # "serving")
      BY <2>1 DEF Started
    <3>2. Calm /\ life' \in {"serving", "applying", "up"} => Settled'
      BY <1>2, <1>3, <3>1 DEF CInv, Agreement, Settled, managerVars
    <3>3. QED BY <1>1, <1>4, <1>5, <3>1, <3>2 DEF CInv, Agreement
  <2>2. CASE Serve
    <3>1. life = "recovering" /\ life' = "serving" /\ ~Busy(Main) BY <2>2 DEF Serve
    <3>2. forwarder = None /\ Altered = {} /\ \A t \in Threads : ~Busy(t)
      BY <3>1 DEF CInv, Ends, Threads
    <3>3. Settled' BY <1>1, <3>1, <3>2 DEF Settled, Runs, Points, managerVars
    <3>4. QED BY <1>1, <3>2, <3>3 DEF Agreement
  <2>3. QED BY <2>1, <2>2
<1>7. Tidy' BY <1>1 DEF CInv, Tidy, Serve, Started, managerVars
<1>8. Ends' BY <1>1 DEF CInv, Ends, Serve, Started, managerVars, Threads
<1>9. QED BY <1>6, <1>7, <1>8 DEF Agreed

LEMMA AgreedInit ==
  ASSUME Init
  PROVE  Agreed
BY DEF Init, Agreed, Agreement, Tidy, Ends

LEMMA AgreedNext ==
  ASSUME CInv, Serial, Restorable, [Next]_vars
  PROVE  Agreed'
<1>1. ASSUME NEW t \in Threads, Step(t) PROVE Agreed'
  BY <1>1, AgreedStart, AgreedStop, AgreedEnumerate, AgreedSave, AgreedPoint,
     AgreedPointDone, AgreedRestore, AgreedRestoreDone, AgreedAdopt, AgreedCheck,
     AgreedRecover DEF Step
<1>2. CASE ApplyInitial \/ (\E h \in Handlers : Apply(h)) \/ Shutdown \/ Close
  BY <1>2, AgreedLife
<1>3. CASE Launch BY <1>3, AgreedLaunch
<1>4. CASE Exit \/ Crash
  <2>1. life' = "down" BY <1>4 DEF Exit, Crash, Gone
  <2>2. QED BY <2>1 DEF Agreed, Agreement, Tidy, Ends
<1>5. CASE Serve \/ Started
  BY <1>5, AgreedUnmoved DEF Serve, Started, dnsVars
<1>6. CASE LinkChange /\ UNCHANGED <<config, managerVars, call, lifeVars>>
  BY <1>6, AgreedUnmoved DEF LinkChange, lifeVars
<1>7. CASE UNCHANGED vars
  BY <1>7, AgreedUnmoved DEF vars, dnsVars, lifeVars
<1>8. QED BY <1>1, <1>2, <1>3, <1>4, <1>5, <1>6, <1>7 DEF Next

LEMMA CInvKept ==
  ASSUME Serial, Restorable
  PROVE  Spec => []CInv
<1>1. Init => CInv BY KeptInit, AgreedInit DEF CInv, Agreed
<1>2. CInv /\ [Next]_vars => CInv' BY KeptNext, AgreedNext DEF CInv, Agreed, Kept
<1>3. QED BY <1>1, <1>2, PTL DEF Spec

\* Once the application is up and no call is in the manager, a forwarder that runs is the
\* one configured and every interface that was taken over points at it, whatever the
\* changes, failed starts and failed settings before: the differences apply works from
\* (current_cfg_, current_proxy_) lead there from everything apply can leave behind.
THEOREM AgreesWithConfigCorrect ==
  ASSUME Serial, Restorable
  PROVE  Spec => []AgreesWithConfig
<1>1. CInv => AgreesWithConfig
  <2> SUFFICES ASSUME CInv, life = "up", Calm PROVE AgreesWithConfig
    BY DEF AgreesWithConfig, Calm
  <2>1. Runs(config) /\ Points(config) BY DEF CInv, Agreement, Settled
  <2>2. QED BY <2>1 DEF AgreesWithConfig, Runs, Points, TargetOf
<1>2. QED BY <1>1, CInvKept, PTL

\* An orderly exit, also one whose shutdown was followed by another apply, and a start
\* that begins to serve, also after crashes, leave the user's settings in force and no
\* state file: ~DnsManager stops again what app::shutdown has already stopped, and
\* recover_crash_state has been through every interface of the file.
THEOREM LeavesNothingCorrect ==
  ASSUME Serial, Restorable
  PROVE  Spec => LeavesNothing
<1>1. CInv /\ [Next]_vars => [Exit \/ Serve => Altered = {} /\ file = NoStates]_vars
  BY DEF CInv, Ends, Exit, Serve
<1>2. QED BY <1>1, CInvKept, PTL DEF Spec, LeavesNothing
=============================================================================
