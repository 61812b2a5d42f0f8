------------------------- MODULE AppLifecycleProofs -------------------------
(***************************************************************************)
(* AckedSurvives, for any number of threads, changes and crashes.  It is   *)
(* not inductive by itself: what a save renames must be what it wrote, and *)
(* no older than the file; load() must not run into a save that is under   *)
(* way; and a request or the window must be in save() exactly when the     *)
(* life of the program lets it be.                                         *)
(***************************************************************************)
EXTENDS AppLifecycle, TLAPS

States == {"idle", "asking", "saving", "observing", "dialog"}

\* Types, and no content holds more changes than were made.
FileInv ==
  /\ FileTypeOK
  /\ config <= changes /\ file <= changes /\ tmp <= changes
  /\ \A s \in Savers : saving[s].v <= changes

Active(s) == saving[s].pc \notin Done

\* As long as no two saves met: there is one at most, tmp is what it wrote once it is
\* written, and memory, a save under way and the file are in this order.
SaverInv ==
  ~overlapped =>
    /\ \A s, u \in Savers : Active(s) /\ Active(u) => s = u
    /\ file \in Content \cup {Absent} /\ config >= file
    /\ \A s \in Savers :
         /\ saving[s].pc = "opened" => tmp = Partial
         /\ saving[s].pc = "written" => tmp = saving[s].v
         /\ Active(s) => file <= saving[s].v /\ saving[s].v <= config
         /\ saving[s].pc = "saved" => file >= saving[s].v

\* Who is in save(): a request that says so, and the window only in the message loop.
CallInv ==
  /\ handler \in [Threads -> States]
  /\ \A t \in Threads : handler[t] = "saving" <=> saving[t].pc # "idle"
  /\ saving[Gui].pc # "idle" => main = "loop"

\* Where the main thread is when there is no server.
Calm == {"off", "constructed", "ioc", "join", "tree"}
CalmInv == main \in Calm => listening = "no" /\ handler = Answered

AckInv == acked \in Content /\ (~overlapped /\ acked > 0 => file >= acked)

IInv == FileInv /\ SaverInv /\ CallInv /\ CalmInv /\ AckInv
-----------------------------------------------------------------------------
LEMMA Initially == Init => IInv
<1> USE PoolAssumption, FileAssumption
<1> SUFFICES ASSUME Init PROVE IInv OBVIOUS
<1> USE DEF Init, FileInit, StrandInit, ServerInit, Content, Absent, Partial, Torn, NotSaving,
            Done, Answered
<1>1. FileInv
  <2>1. saving \in [Savers -> [pc : Done \cup {"serialized", "opened", "written"}, v : Content]]
    OBVIOUS
  <2>2. config \in Content /\ changes \in 0 .. MaxChanges /\ file \in OnDisk /\ tmp \in OnDisk
    BY DEF OnDisk
  <2>3. \A s \in Savers : saving[s].v <= changes OBVIOUS
  <2>4. open \subseteq Savers /\ overlapped \in BOOLEAN OBVIOUS
  <2>5. config <= changes /\ file <= changes /\ tmp <= changes OBVIOUS
  <2>6. QED BY ONLY <2>1, <2>2, <2>3, <2>4, <2>5 DEF FileInv, FileTypeOK
<1>2. SaverInv BY DEF SaverInv, Active
<1>3. CallInv BY DEF CallInv, States
<1>4. CalmInv BY DEF CalmInv
<1>5. AckInv BY DEF AckInv
<1>6. QED BY <1>1, <1>2, <1>3, <1>4, <1>5 DEF IInv

\* Steps that leave the files, the requests and whoever saves alone.
LEMMA KeptElsewhere ==
  ASSUME IInv, UNCHANGED <<fileVars, handler, acked>>,
         main = "loop" /\ main' # "loop" => saving[Gui].pc = "idle",
         main' \in Calm => listening' = "no" /\ handler = Answered
  PROVE  IInv'
<1> USE PoolAssumption DEF IInv, fileVars
<1>1. FileInv' BY DEF FileInv, FileTypeOK, Content, Absent, Partial, Torn, OnDisk, Done
<1>2. SaverInv' BY DEF SaverInv, Active, Content, Absent
<1>3. CallInv' BY DEF CallInv
<1>4. CalmInv' BY DEF CalmInv
<1>5. AckInv' BY DEF AckInv, Content
<1>6. QED BY <1>1, <1>2, <1>3, <1>4, <1>5

\* A request that neither was nor will be in save().
LEMMA KeptByRequest ==
  ASSUME IInv, NEW t \in Threads, NEW state \in States \ {"saving"}, handler[t] # "saving",
         Becomes(t, state), UNCHANGED <<fileVars, acked, listening, main>>,
         listening = "yes" \/ handler[t] # "idle"
  PROVE  IInv'
<1> USE PoolAssumption DEF IInv, fileVars
<1>1. FileInv' BY DEF FileInv, FileTypeOK, OnDisk, Content, Absent, Partial, Torn, Done
<1>2. SaverInv' BY DEF SaverInv, Active, Content, Absent
<1>3. CallInv' BY DEF CallInv, Becomes
<1>4. CalmInv' BY DEF CalmInv, Answered, Becomes
<1>5. AckInv' BY DEF AckInv, Content
<1>6. QED BY <1>1, <1>2, <1>3, <1>4, <1>5
-----------------------------------------------------------------------------
\* Where there is no server nobody saves.
LEMMA CalmIdle ==
  ASSUME IInv, main \in Calm
  PROVE  \A s \in Savers : saving[s].pc = "idle"
BY PoolAssumption DEF IInv, CallInv, CalmInv, Calm, Answered

\* load() meets no save, and keeps what it finds.
LEMMA KeptByLaunch ==
  ASSUME IInv, Launch
  PROVE  IInv'
<1> USE PoolAssumption, FileAssumption DEF IInv, Launch, serverVars
<1>1. main = "off" /\ main' \in {"constructed", "off"} /\ UNCHANGED <<listening, handler, acked>>
      /\ UNCHANGED <<open, saving, changes, overlapped>>
  BY DEF load
<1>2. \A s \in Savers : saving[s].pc = "idle" BY CalmIdle DEF Calm
<1>3. FileTypeOK /\ file <= changes /\ tmp <= changes /\ changes \in Nat
  BY DEF FileInv, FileTypeOK, Content
<1>4. /\ config' \in Content /\ config' <= changes /\ file' \in OnDisk /\ tmp' \in OnDisk
      /\ file' <= changes /\ tmp' <= changes
  BY <1>3 DEF load, FileTypeOK, OnDisk, Content, Absent, Partial, Torn
<1>5. FileInv' BY <1>1, <1>3, <1>4 DEF FileInv, FileTypeOK, Content
<1>6. ASSUME file \in Content \cup {Absent}
      PROVE  file' \in Content \cup {Absent} /\ config' >= file' /\ file' >= file
  BY <1>6 DEF load, Content, Absent, Partial
<1>7. SaverInv' BY <1>1, <1>2, <1>6 DEF SaverInv, Active, Done
<1>8. CallInv' BY <1>1, <1>2 DEF CallInv
<1>9. CalmInv' BY <1>1 DEF CalmInv, Calm
<1>10. AckInv' BY <1>1, <1>3, <1>6 DEF AckInv, SaverInv, Content, Absent
<1>11. QED BY <1>5, <1>7, <1>8, <1>9, <1>10

\* A crash leaves the files as they are.
LEMMA KeptByCrash ==
  ASSUME IInv, Crash
  PROVE  IInv'
<1> USE PoolAssumption, FileAssumption DEF IInv, Crash
<1>1. saving' \in [Savers -> [pc : Done \cup {"serialized", "opened", "written"}, v : Content]]
      /\ \A s \in Savers : saving'[s].pc = "idle" /\ saving'[s].v = 0
  BY DEF NotSaving, Done, Content
<1>2. FileInv' BY <1>1 DEF FileInv, FileTypeOK, Content
<1>3. SaverInv' BY <1>1 DEF SaverInv, Active, Done
<1>4. CallInv' BY <1>1 DEF CallInv, Answered, States
<1>5. CalmInv' BY DEF CalmInv
<1>6. AckInv' BY DEF AckInv, Content
<1>7. QED BY <1>2, <1>3, <1>4, <1>5, <1>6
-----------------------------------------------------------------------------
\* Saving begins: memory moves ahead of the file.
LEMMA KeptByChange ==
  ASSUME IInv, NEW s \in Savers, saving[s].pc = "idle", Change(s),
         UNCHANGED <<acked, listening, main>>,
         \/ s \in Threads /\ listening = "yes" /\ Becomes(s, "saving")
         \/ s = Gui /\ main = "loop" /\ UNCHANGED handler
  PROVE  IInv'
<1> USE PoolAssumption, FileAssumption DEF IInv
<1>1. FileTypeOK /\ config <= changes /\ changes \in Nat /\ config \in Nat
  BY DEF FileInv, FileTypeOK, Content
<1>2. /\ saving' = [saving EXCEPT ![s] = [pc |-> "serialized", v |-> config']]
      /\ changes' = changes + 1 /\ changes' <= MaxChanges /\ config' = config + 1
      /\ UNCHANGED <<file, tmp, open>>
  BY <1>1 DEF Change
<1>3. saving'[s].pc = "serialized" /\ saving'[s].v = config'
      /\ \A u \in Savers \ {s} : saving'[u] = saving[u]
  BY <1>1, <1>2 DEF FileTypeOK
<1>4. FileInv'
  <2>1. config' \in Content /\ changes' \in 0 .. MaxChanges BY <1>1, <1>2 DEF Content
  <2>2. saving' \in [Savers -> [pc : Done \cup {"serialized", "opened", "written"}, v : Content]]
    BY <1>1, <1>2, <2>1 DEF FileTypeOK
  <2>3. file' \in OnDisk /\ tmp' \in OnDisk /\ file' <= changes' /\ tmp' <= changes'
    BY <1>1, <1>2 DEF FileInv, FileTypeOK, OnDisk, Content, Absent, Partial, Torn
  <2>4. \A u \in Savers : saving'[u].v <= changes'
    BY <1>1, <1>2, <1>3 DEF FileInv, FileTypeOK, Content
  <2>5. overlapped' \in BOOLEAN BY <1>1 DEF FileTypeOK, Change
  <2>6. QED BY <1>1, <1>2, <2>1, <2>2, <2>3, <2>4, <2>5 DEF FileInv, FileTypeOK
<1>5. SaverInv'
  <2> SUFFICES ASSUME ~overlapped' PROVE SaverInv' BY DEF SaverInv
  <2>1. ~overlapped /\ \A u \in Savers \ {s} : ~Active(u) BY DEF Change, Active
  <2>2. file \in Int BY <1>1 DEF FileTypeOK, OnDisk, Content, Absent, Partial, Torn
  <2>3. QED BY <1>1, <1>2, <1>3, <2>1, <2>2 DEF SaverInv, Active, Done
<1>6. CallInv' BY <1>3 DEF CallInv, Becomes, States
<1>7. CalmInv' BY DEF CalmInv, CallInv, Calm, Becomes, Answered
<1>8. AckInv' BY <1>2 DEF AckInv, Content, Change
<1>9. QED BY <1>4, <1>5, <1>6, <1>7, <1>8

\* A step of save(): what a saver writes is tmp, what it renames is what it wrote.
LEMMA KeptBySaving ==
  ASSUME IInv, NEW s \in Savers, SaveStep(s), UNCHANGED <<strandVars, serverVars, mainVars>>
  PROVE  IInv'
<1> USE PoolAssumption, FileAssumption DEF IInv, serverVars, mainVars
<1>1. FileTypeOK /\ changes \in Nat /\ saving[s].v \in Content /\ saving[s].v <= changes
      /\ UNCHANGED <<config, changes, overlapped>>
  BY DEF FileInv, FileTypeOK, Content, SaveStep, Open, Write, Rename, Untouched
<1>2. Active(s) /\ saving[s].pc # "idle"
  BY DEF Active, Done, SaveStep, Open, Write, Rename
<1>3. PICK pc \in {"opened", "written", "saved", "failed"} : At(s, pc)
  BY DEF SaveStep, Open, Write, Rename
<1>4. saving'[s].pc = pc /\ saving'[s].v = saving[s].v
      /\ \A u \in Savers \ {s} : saving'[u] = saving[u]
  BY <1>1, <1>3 DEF At, FileTypeOK
<1>5. FileInv'
  <2>1. saving' \in [Savers -> [pc : Done \cup {"serialized", "opened", "written"}, v : Content]]
    BY <1>1, <1>3 DEF At, FileTypeOK, Done
  <2>2. file' \in OnDisk /\ tmp' \in OnDisk /\ file' <= changes /\ tmp' <= changes
    BY <1>1 DEF FileInv, FileTypeOK, SaveStep, Open, Write, Rename, OnDisk, Content, Absent,
                Partial, Torn
  <2>3. open' \subseteq Savers
    BY <1>1 DEF FileTypeOK, SaveStep, Open, Write, Rename
  <2>4. \A u \in Savers : saving'[u].v <= changes
    BY <1>4 DEF FileInv
  <2>5. QED BY <1>1, <2>1, <2>2, <2>3, <2>4 DEF FileInv, FileTypeOK
<1>6. ASSUME ~overlapped
      PROVE  /\ \A u \in Savers \ {s} : ~Active(u)
             /\ file' \in Content \cup {Absent} /\ file' >= file
             /\ file' # file => file' = saving[s].v
             /\ pc = "opened" => tmp' = Partial
             /\ pc = "written" => tmp' = saving[s].v
             /\ pc = "saved" => file' = saving[s].v
  <2>1. /\ \A u \in Savers \ {s} : ~Active(u)
        /\ file \in Content \cup {Absent} /\ saving[s].v >= file
        /\ saving[s].pc = "opened" => tmp = Partial
        /\ saving[s].pc = "written" => tmp = saving[s].v
    BY <1>2, <1>6 DEF SaverInv
  <2>2. file \in Int /\ saving[s].v \in Int /\ file >= file
    BY <1>1, <2>1 DEF Content, Absent
  <2>3. CASE Open(s)
    <3>1. file' = file BY <2>3 DEF Open
    <3>2. (pc = "opened" /\ tmp' = Partial) \/ pc = "failed"
      BY <1>1, <1>4, <2>3 DEF Open, At, FileTypeOK
    <3>3. QED BY <2>1, <2>2, <3>1, <3>2
  <2>4. CASE Write(s)
    <3>1. file' = file BY <2>4 DEF Write
    <3>2. (pc = "written" /\ tmp' = saving[s].v) \/ pc = "failed"
      BY <1>1, <1>4, <2>1, <2>4 DEF Write, At, FileTypeOK
    <3>3. QED BY <2>1, <2>2, <3>1, <3>2
  <2>5. CASE Rename(s)
    <3>1. \/ file' = tmp /\ pc = "saved"
          \/ file' = file /\ pc = "failed"
      BY <1>1, <1>4, <2>5 DEF Rename, At, FileTypeOK
    <3>2. file' \in {file, saving[s].v} BY <2>1, <2>5, <3>1 DEF Rename
    <3>3. QED BY <1>1, <2>1, <2>2, <2>5, <3>1, <3>2 DEF Rename
  <2>6. QED BY <2>3, <2>4, <2>5 DEF SaveStep
<1>7. SaverInv'
  <2> SUFFICES ASSUME ~overlapped PROVE SaverInv' BY <1>1 DEF SaverInv
  <2>1. config >= file' BY <1>1, <1>2, <1>6 DEF SaverInv, FileTypeOK, Content
  <2>2. file \in Content \cup {Absent} BY <1>1 DEF SaverInv
  <2>3. ASSUME NEW u \in Savers, NEW w \in Savers, Active(u)', Active(w)'
        PROVE  u = w
    BY <1>4, <1>6, <1>1, <2>3 DEF Active
  <2>4. ASSUME NEW u \in Savers
        PROVE  /\ saving'[u].pc = "opened" => tmp' = Partial
               /\ saving'[u].pc = "written" => tmp' = saving'[u].v
               /\ Active(u)' => file' <= saving'[u].v /\ saving'[u].v <= config'
               /\ saving'[u].pc = "saved" => file' >= saving'[u].v
    <3>1. CASE u = s
      BY <1>1, <1>2, <1>4, <1>6, <2>1, <2>2, <3>1 DEF SaverInv, Active, Done, Content, Absent
    <3>2. CASE u # s
      <4>1. saving'[u] = saving[u] /\ saving[u].pc \in Done /\ saving[u].v \in Content
        BY <1>1, <1>4, <1>6, <3>2 DEF Active, FileTypeOK
      <4>2. saving[u].pc = "saved" => file >= saving[u].v BY <1>1 DEF SaverInv
      <4>3. QED BY <1>1, <1>6, <2>2, <4>1, <4>2 DEF Active, Done, Content, Absent
    <3>3. QED BY <3>1, <3>2
  <2>5. QED BY <1>1, <1>6, <2>1, <2>3, <2>4 DEF SaverInv
<1>8. CallInv' BY <1>2, <1>4 DEF CallInv
<1>9. CalmInv' BY DEF CalmInv
<1>10. AckInv'
  <2>1. acked \in Content /\ acked' = acked BY DEF AckInv
  <2>2. ASSUME ~overlapped, acked > 0 PROVE file' >= acked
    BY <1>1, <1>6, <2>1, <2>2 DEF AckInv, SaverInv, Content, Absent
  <2>3. QED BY <1>1, <2>1, <2>2 DEF AckInv
<1>11. QED BY <1>5, <1>7, <1>8, <1>9, <1>10

\* The end of save(): only what is in the file is acknowledged.
LEMMA KeptByReturn ==
  ASSUME IInv, NEW s \in Savers, saving[s].pc \in {"saved", "failed"}, Returned(s),
         UNCHANGED <<config, file, tmp, open, changes, overlapped, listening, main>>,
         acked' = acked \/ (saving[s].pc = "saved" /\ acked' = saving[s].v),
         \/ s = Gui /\ UNCHANGED handler
         \/ s \in Threads /\ \E state \in States \ {"saving"} : Becomes(s, state)
  PROVE  IInv'
<1> USE PoolAssumption, FileAssumption DEF IInv
<1>1. FileTypeOK /\ saving[s].v \in Content BY DEF FileInv, FileTypeOK
<1>2. saving'[s].pc = "idle" /\ saving'[s].v = 0 /\ 0 \in Content
      /\ \A u \in Savers \ {s} : saving'[u] = saving[u]
  BY <1>1 DEF Returned, NotSaving, FileTypeOK, Content
<1>3. FileInv'
  <2>1. saving' \in [Savers -> [pc : Done \cup {"serialized", "opened", "written"}, v : Content]]
    BY <1>1 DEF Returned, NotSaving, FileTypeOK, Done, Content
  <2>2. QED BY <1>1, <1>2, <2>1 DEF FileInv, FileTypeOK, Content
<1>4. SaverInv' BY <1>2 DEF SaverInv, Active, Done
<1>5. CallInv' BY <1>2 DEF CallInv, Becomes
<1>6. CalmInv'
  <2>1. saving[s].pc # "idle" /\ main' = main OBVIOUS
  <2>2. main \notin Calm BY <2>1, CalmIdle
  <2>3. QED BY <2>1, <2>2 DEF CalmInv
<1>7. AckInv' BY <1>1 DEF AckInv, SaverInv, Content, Absent
<1>8. QED BY <1>3, <1>4, <1>5, <1>6, <1>7
-----------------------------------------------------------------------------
\* The order of shutdown().
LEMMA Order ==
  /\ after["layers"] = "acceptor" /\ after["acceptor"] = "api" /\ after["api"] = "ioc"
  /\ after["ioc"] = "join" /\ after["join"] = "tree" /\ after["tree"] = "off"
BY DEF after

LEMMA KeptByStartup ==
  ASSUME IInv, Startup
  PROVE  IInv'
<1>1. CASE Launch BY <1>1, KeptByLaunch
<1>2. CASE StartApi
  BY <1>2, KeptElsewhere DEF StartApi, Calm
<1>3. CASE BindFailsLate
  BY <1>3, KeptElsewhere DEF BindFailsLate, IInv, CalmInv, mainVars
<1>4. CASE ApplyDns
  BY <1>4, KeptElsewhere DEF ApplyDns, Calm, serverVars
<1>5. CASE StartWorkers
  BY <1>5, KeptElsewhere DEF StartWorkers, Calm, serverVars
<1>6. QED BY <1>1, <1>2, <1>3, <1>4, <1>5 DEF Startup

LEMMA KeptByShutdown ==
  ASSUME IInv, Shutdown
  PROVE  IInv'
<1>1. CASE CloseLayers
  BY <1>1, KeptElsewhere, Order DEF CloseLayers, Passes, Calm, serverVars
<1>2. CASE StopListening
  BY <1>2, KeptElsewhere DEF StopListening, Calm, mainVars
<1>3. CASE ServerJoined
  BY <1>3, KeptElsewhere, Order DEF ServerJoined, Passes
<1>4. CASE StopIoc
  BY <1>4, KeptElsewhere, Order DEF StopIoc, Passes, IInv, CalmInv, Calm, serverVars
<1>5. CASE JoinWorkers
  BY <1>5, KeptElsewhere, Order DEF JoinWorkers, Passes, IInv, CalmInv, Calm, serverVars
<1>6. CASE Exit
  BY <1>6, KeptElsewhere, Order DEF Exit, Passes, IInv, CalmInv, Calm, serverVars
<1>7. QED BY <1>1, <1>2, <1>3, <1>4, <1>5, <1>6 DEF Shutdown

LEMMA KeptByRequests ==
  ASSUME IInv, Requests \/ Handling \/ User
  PROVE  IInv'
<1> USE PoolAssumption
<1>1. PICK t \in Threads :
        /\ Ask(t) \/ Mutate(t) \/ Browse(t) \/ Saved(t) \/ Answer(t) \/ DialogClosed(t)
        /\ UNCHANGED mainVars
  BY DEF Requests, Handling, User
<1>2. main' = main /\ UNCHANGED <<listening, running_>>
  BY <1>1 DEF Ask, Mutate, Browse, Saved, Answer, DialogClosed, ServerSame, mainVars
<1>3. CASE Ask(t) \/ Browse(t) \/ Answer(t) \/ DialogClosed(t)
  <2>1. PICK state \in {"asking", "dialog", "idle"} : Becomes(t, state)
    BY <1>3 DEF Ask, Browse, Answer, DialogClosed
  <2>2. handler[t] # "saving" /\ (listening = "yes" \/ handler[t] # "idle")
        /\ UNCHANGED <<fileVars, acked>>
    BY <1>3 DEF Ask, Browse, Answer, DialogClosed
  <2>3. state \in States \ {"saving"} BY DEF States
  <2>4. QED BY <1>2, <2>1, <2>2, <2>3, KeptByRequest
<1>4. CASE Mutate(t)
  <2>1. saving[t].pc = "idle" BY <1>4 DEF Mutate, IInv, CallInv
  <2>2. QED BY <1>2, <1>4, <2>1, KeptByChange DEF Mutate
<1>5. CASE Saved(t)
  <2>1. \E state \in States \ {"saving"} : Becomes(t, state) BY <1>5 DEF Saved, States
  <2>2. acked' = acked \/ (saving[t].pc = "saved" /\ acked' = saving[t].v) BY <1>5 DEF Saved
  <2>3. saving[t].pc \in {"saved", "failed"} /\ Returned(t)
        /\ UNCHANGED <<config, file, tmp, open, changes, overlapped>>
    BY <1>5 DEF Saved
  <2>4. t \in Savers OBVIOUS
  <2>5. QED BY <1>2, <2>1, <2>2, <2>3, <2>4, KeptByReturn
<1>6. QED BY <1>1, <1>3, <1>4, <1>5

LEMMA Inductive ==
  ASSUME IInv, [Next]_vars
  PROVE  IInv'
<1>1. CASE Startup BY <1>1, KeptByStartup
<1>2. CASE Shutdown BY <1>2, KeptByShutdown
<1>3. CASE Crash BY <1>3, KeptByCrash
<1>4. CASE MoveResize
  BY <1>4, KeptByChange, PoolAssumption DEF MoveResize, serverVars, mainVars
<1>5. CASE GuiSaved
  BY <1>5, KeptByReturn, PoolAssumption DEF GuiSaved, serverVars, mainVars
<1>6. CASE Quit
  BY <1>6, KeptElsewhere DEF Quit, Calm, serverVars
<1>7. CASE Saving BY <1>7, KeptBySaving DEF Saving
<1>8. CASE Strand
  BY <1>8, KeptElsewhere DEF Strand, IInv, CalmInv, serverVars, mainVars
<1>9. CASE Requests \/ Handling \/ User BY <1>9, KeptByRequests
<1>10. CASE UNCHANGED vars
  BY <1>10, KeptElsewhere DEF vars, IInv, CalmInv, serverVars, mainVars
<1>11. QED
  BY <1>1, <1>2, <1>3, <1>4, <1>5, <1>6, <1>7, <1>8, <1>9, <1>10 DEF Next

\* The inductive invariant, for any number of threads, changes and crashes.
THEOREM IInvCorrect == Spec => []IInv
<1>1. Init => IInv BY Initially
<1>2. IInv /\ [Next]_vars => IInv' BY Inductive
<1>3. QED BY <1>1, <1>2, PTL DEF Spec

\* What a client was told is saved is in a file that load() can parse, whichever step of
\* a save fails and wherever the process dies, unless the window and a request save at
\* the same time.
THEOREM AckedSurvivesCorrect == Spec => []AckedSurvives
<1>1. IInv => AckedSurvives
  BY FileAssumption DEF IInv, AckInv, SaverInv, AckedSurvives, Content, Absent, Partial, Torn
<1>2. QED BY <1>1, IInvCorrect, PTL
=============================================================================
