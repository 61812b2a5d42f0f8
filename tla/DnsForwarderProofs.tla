------------------------- MODULE DnsForwarderProofs -------------------------
(***************************************************************************)
(* OnlyToAskers, LiveSessionHasReader and NoMoreAnswersThanQuestions, for  *)
(* any queries, clients, ids and sessions and any errors.  The first rests *)
(* on what pending_ and the response loops hold being queries of the id    *)
(* they hold them under, the second on a replaced session being closed     *)
(* before the next is alive, the third on a question moving from place to  *)
(* place (socket, pending_, loop, answered) and never being in two, unless *)
(* two loops use one entry at a time, which corrupts pending_.             *)
(***************************************************************************)
EXTENDS DnsForwarder, FiniteSetTheorems, TLAPS

LoopStates == [pc : {"none", "check", "recv", "found", "reply", "ended"}, s : Session,
               k : Queries \cup {None}, copy : 1 .. Copies, to : Queries \cup {None}]

\* The types the two properties need.
Types ==
  /\ sess \in [Session -> [state : {"none", "made", "alive", "lost", "closed"},
                           inbox : SUBSET Datagrams]]
  /\ pending \in [Ids -> Queries \cup {None}]
  /\ loop \in [Loop -> LoopStates]
  /\ listenq \subseteq Queries

\* The session in use is made, and the last one is not lost.
InUse ==
  /\ current \in Session
  /\ sess[current].state \in {"made", "alive", "lost"}
  /\ sess[MaxSessions].state \notin {"lost", "closed"}

\* Whatever is held under an id was asked under that id.
AskedAs(k, i) == k \in asked /\ IdOf(k) = i
Held ==
  /\ listenq \subseteq asked
  /\ \A i \in Ids : pending[i] # None => AskedAs(pending[i], i)
  /\ \A l \in Loop : loop[l].pc \in {"found", "reply"} =>
       loop[l].k \in Queries /\ AskedAs(loop[l].to, IdOf(loop[l].k))
  /\ \A d \in delivered : AskedAs(d[3], IdOf(d[1]))

IInv == Types /\ InUse /\ Held /\ LiveSessionHasReader

\* A question is waiting at the socket, entered in pending_, held by a loop that is about to
\* answer it, or answered: in one of these places at a time, but for loops that found one entry.
Entered(k) == pending[IdOf(k)] = k
Holds(l, k) == loop[l].pc \in {"found", "reply"} /\ loop[l].to = k
Replies(l, k) == loop[l].pc = "reply" /\ loop[l].to = k

OncePlaced ==
  \A k \in Queries :
    /\ k \in listenq => ~Entered(k) /\ ~Answered(k) /\ \A l \in Loop : ~Holds(l, k)
    /\ Answered(k) => ~Entered(k) /\ \A l \in Loop : ~Holds(l, k)
    /\ \A l \in Loop : Replies(l, k) => ~Entered(k) /\ \A m \in Loop : Holds(m, k) => m = l

OnceAnswered == \A d, e \in delivered : d[3] = e[3] => d = e

OInv == asked \subseteq Queries /\ OnceAnswered /\ (~broken => OncePlaced)
-----------------------------------------------------------------------------
LEMMA Initially == Init => IInv
<1> USE SessionAssumption, ForwarderAssumption
<1> SUFFICES ASSUME Init PROVE IInv OBVIOUS
<1> USE DEF Init, FreshSession, Started, NoLoop, Session, Loop
<1>1. Types
  <2>1. sess \in [Session -> [state : {"none", "made", "alive", "lost", "closed"},
                              inbox : SUBSET Datagrams]]
    OBVIOUS
  <2>2. loop \in [Loop -> LoopStates] BY DEF LoopStates
  <2>3. QED BY <2>1, <2>2 DEF Types
<1>2. InUse BY DEF InUse
<1>3. Held BY DEF Held
<1>4. LiveSessionHasReader BY DEF LiveSessionHasReader
<1>5. QED BY <1>1, <1>2, <1>3, <1>4 DEF IInv

\* Steps that leave alone all that IInv speaks of; an error only excuses.
LEMMA KeptElsewhere ==
  ASSUME IInv, UNCHANGED <<sess, pending, loop, listenq, current, delivered, asked>>,
         failed' = {} => failed = {}
  PROVE  IInv'
<1> USE DEF IInv
<1>1. Types' BY DEF Types
<1>2. InUse' BY DEF InUse
<1>3. Held' BY DEF Held, AskedAs
<1>4. LiveSessionHasReader' BY DEF LiveSessionHasReader, is_alive
<1>5. QED BY <1>1, <1>2, <1>3, <1>4

LEMMA KeptByAsk ==
  ASSUME IInv, NEW k \in Queries, Ask(k)
  PROVE  IInv'
<1> USE DEF IInv, Ask, sessionVars, loopVars
<1>1. Types' BY DEF Types
<1>2. InUse' BY DEF InUse
<1>3. Held' BY DEF Held, AskedAs
<1>4. LiveSessionHasReader' BY DEF LiveSessionHasReader, is_alive
<1>5. QED BY <1>1, <1>2, <1>3, <1>4

\* Datagrams arrive.
LEMMA KeptByNetwork ==
  ASSUME IInv, NetworkStep
  PROVE  IInv'
<1> USE SessionAssumption, ForwarderAssumption DEF IInv
<1>1. UNCHANGED <<pending, loop, listenq, current, delivered, asked, failed>>
  BY DEF NetworkStep, Answer, LoseAnswer, loopVars, historyVars
<1>2. \/ sess' = sess
      \/ \E s \in Session, ds \in SUBSET Datagrams : Arrive(s, ds)
  <2>1. PICK k \in Queries, s \in Session :
          \/ \E n \in 1 .. Copies : Answer(k, s, 1 .. n)
          \/ \E senders \in {{}, {Relay}, {Stranger}} : LoseAnswer(k, s, senders)
    BY DEF NetworkStep
  <2>2. ASSUME NEW n \in 1 .. Copies, Answer(k, s, 1 .. n)
        PROVE  \E ds \in SUBSET Datagrams : Arrive(s, ds)
    <3> DEFINE ds == {[from |-> Relay, query |-> k, copy |-> c] : c \in 1 .. n}
    <3>1. ds \in SUBSET Datagrams BY DEF Datagrams
    <3>2. Arrive(s, ds) BY <2>2 DEF Answer
    <3>3. QED BY <3>1, <3>2
  <2>3. ASSUME NEW senders \in {{}, {Relay}, {Stranger}}, LoseAnswer(k, s, senders)
        PROVE  sess' = sess \/ \E ds \in SUBSET Datagrams : Arrive(s, ds)
    <3> DEFINE ds == {[from |-> f, query |-> None, copy |-> 1] : f \in senders}
    <3>1. ds \in SUBSET Datagrams BY DEF Datagrams
    <3>2. sess' = sess \/ Arrive(s, ds) BY <2>3 DEF LoseAnswer, sessionVars
    <3>3. QED BY <3>1, <3>2
  <2>4. QED BY <2>1, <2>2, <2>3
<1>3. CASE sess' = sess BY <1>1, <1>3, KeptElsewhere
<1>4. CASE \E s \in Session, ds \in SUBSET Datagrams : Arrive(s, ds)
  <2>1. PICK s \in Session, ds \in SUBSET Datagrams : Arrive(s, ds) BY <1>4
  <2>2. sess' \in [Session -> [state : {"none", "made", "alive", "lost", "closed"},
                               inbox : SUBSET Datagrams]]
    BY <2>1 DEF Types, Arrive
  <2>3. \A r \in Session : sess'[r].state = sess[r].state BY <2>1 DEF Types, Arrive
  <2>4. MaxSessions \in Session BY DEF Session
  <2>5. Types' BY <1>1, <2>2 DEF Types
  <2>6. InUse' BY <1>1, <2>3, <2>4 DEF InUse
  <2>7. Held' BY <1>1 DEF Held, AskedAs
  <2>8. LiveSessionHasReader' BY <1>1, <2>3 DEF LiveSessionHasReader, is_alive, InUse
  <2>9. QED BY <2>5, <2>6, <2>7, <2>8
<1>5. QED BY <1>2, <1>3, <1>4

LEMMA KeptBySessionLost ==
  ASSUME IInv, NEW s \in Session, SessionLost(s)
  PROVE  IInv'
<1> USE SessionAssumption DEF IInv, SessionLost, ControlLost, forwarderVars, loopVars
<1>1. sess' \in [Session -> [state : {"none", "made", "alive", "lost", "closed"},
                             inbox : SUBSET Datagrams]]
      /\ sess'[s].state = "lost" /\ \A r \in Session \ {s} : sess'[r] = sess[r]
  BY DEF Types
<1>2. s # MaxSessions /\ MaxSessions \in Session BY DEF Session
<1>3. Types' BY <1>1 DEF Types
<1>4. InUse' BY <1>1, <1>2 DEF InUse
<1>5. Held' BY DEF Held, AskedAs
<1>6. LiveSessionHasReader' BY <1>1 DEF LiveSessionHasReader, is_alive, InUse
<1>7. QED BY <1>3, <1>4, <1>5, <1>6

\* A loop ended by an error excuses the session from having one.
LEMMA KeptByLoopError ==
  ASSUME IInv, NEW l \in Loop, ReplyError(l) \/ RecvError(l)
  PROVE  IInv'
<1> USE SessionAssumption, ForwarderAssumption DEF IInv
<1>1. /\ UNCHANGED <<sess, pending, listenq, current, delivered, asked>> /\ failed' # {}
      /\ loop' = [loop EXCEPT ![l] = [NoLoop EXCEPT !.pc = "ended"]]
  BY DEF ReplyError, RecvError, sessionVars, forwarderVars
<1>2. [NoLoop EXCEPT !.pc = "ended"] \in LoopStates /\ [NoLoop EXCEPT !.pc = "ended"].pc = "ended"
  BY DEF NoLoop, LoopStates, Session
<1>3. Types' BY <1>1, <1>2 DEF Types
<1>4. InUse' BY <1>1 DEF InUse
<1>5. Held' BY <1>1, <1>2 DEF Held, AskedAs, Types
<1>6. LiveSessionHasReader' BY <1>1 DEF LiveSessionHasReader
<1>7. QED BY <1>3, <1>4, <1>5, <1>6

LEMMA KeptByTakeQuery ==
  ASSUME IInv, NEW k \in Queries, TakeQuery(k)
  PROVE  IInv'
<1> USE SessionAssumption, ForwarderAssumption DEF IInv
<1>1. /\ k \in asked /\ k # None /\ IdOf(k) \in Ids /\ k \in listenq
      /\ UNCHANGED <<loop, asked, delivered, failed>>
      /\ listenq' = listenq \ {k}
      /\ pending' = [pending EXCEPT ![IdOf(k)] = k]
  BY DEF TakeQuery, note_query, Held, Ids
<1>2. Held' BY <1>1 DEF Held, AskedAs, Types
<1>3. CASE is_alive(current) /\ UNCHANGED <<sess, current>>
  <2>1. Types' BY <1>1, <1>3 DEF Types
  <2>2. InUse' BY <1>3 DEF InUse
  <2>3. LiveSessionHasReader' BY <1>1, <1>3 DEF LiveSessionHasReader, is_alive
  <2>4. QED BY <1>2, <2>1, <2>2, <2>3
<1>4. CASE /\ ~is_alive(current) /\ current' = NextSession
           /\ sess' = [Closed(sess, current) EXCEPT ![NextSession].state = "made"]
  <2> DEFINE n == NextSession
  <2>1. n \in Session /\ (n = current \/ sess[current].state = "lost")
    BY <1>4 DEF NextSession, InUse, is_alive, Session
  <2>2. current \in Session /\ (n # current => current # MaxSessions)
    BY <2>1 DEF InUse, NextSession
  <2> HIDE DEF n
  <2>3. /\ sess' \in [Session -> [state : {"none", "made", "alive", "lost", "closed"},
                                  inbox : SUBSET Datagrams]]
        /\ sess'[n].state = "made"
        /\ \A r \in Session \ {n, current} : sess'[r] = sess[r]
    BY <1>4, <2>1, <2>2 DEF Types, Closed, FreshSession, n
  <2>4. MaxSessions \in Session BY DEF Session
  <2>5. current' = n BY <1>4 DEF n
  <2>6. Types' BY <1>1, <2>3 DEF Types
  <2>7. InUse' BY <2>1, <2>2, <2>3, <2>4, <2>5 DEF InUse
  <2>8. LiveSessionHasReader' BY <2>3, <2>5 DEF LiveSessionHasReader, is_alive
  <2>9. QED BY <1>2, <2>6, <2>7, <2>8
<1>5. QED BY <1>3, <1>4 DEF TakeQuery, sessionVars

\* A new session comes with a loop of its own.
LEMMA KeptByReconnected ==
  ASSUME IInv, Reconnected
  PROVE  IInv'
<1> USE SessionAssumption, ForwarderAssumption DEF IInv
<1>1. /\ UNCHANGED <<pending, listenq, current, asked, delivered, failed>>
      /\ sess' = [sess EXCEPT ![current].state = "alive"]
      /\ loop' = [loop EXCEPT ![current] = Started]
      /\ current \in Session
  BY DEF Reconnected, establish, respawned, forwarderVars, historyVars, InUse
<1>2. Started \in LoopStates /\ Started.pc = "check"
  BY DEF Started, NoLoop, LoopStates, Session
<1>3. Types' BY <1>1, <1>2 DEF Types, Loop
<1>4. InUse' BY <1>1 DEF InUse, Types
<1>5. Held' BY <1>1, <1>2 DEF Held, AskedAs, Types, Loop
<1>6. LiveSessionHasReader' BY <1>1, <1>2 DEF LiveSessionHasReader, Types, Loop
<1>7. QED BY <1>3, <1>4, <1>5, <1>6

LEMMA KeptBySendQuery ==
  ASSUME IInv, NEW sent \in BOOLEAN, SendQuery(sent)
  PROVE  IInv'
<1> USE DEF IInv
<1>1. PICK gone : pending' = [i \in Ids |-> IF i \in gone THEN None ELSE pending[i]]
  BY DEF SendQuery
<1>2. UNCHANGED <<sess, loop, listenq, current, asked, delivered, failed>>
  BY DEF SendQuery, sessionVars
<1>3. Types' BY <1>1, <1>2 DEF Types
<1>4. InUse' BY <1>2 DEF InUse
<1>5. Held' BY <1>1, <1>2 DEF Held, AskedAs
<1>6. LiveSessionHasReader' BY <1>2 DEF LiveSessionHasReader, is_alive
<1>7. QED BY <1>3, <1>4, <1>5, <1>6
-----------------------------------------------------------------------------
\* The steps of a response loop.
LEMMA KeptByCheckSession ==
  ASSUME IInv, NEW l \in Loop, CheckSession(l)
  PROVE  IInv'
<1> USE SessionAssumption, ForwarderAssumption DEF IInv
<1>1. UNCHANGED <<sess, pending, listenq, current, asked, delivered, failed>>
  BY DEF CheckSession, sessionVars, forwarderVars, historyVars
<1>2. PICK e \in LoopStates :
        /\ loop' = [loop EXCEPT ![l] = e]
        /\ e.pc \in {"recv", "ended"} /\ (is_alive(current) => e.pc = "recv" /\ e.s = current)
  <2> DEFINE r == [Started EXCEPT !.pc = "recv", !.s = current]
             x == [NoLoop EXCEPT !.pc = "ended"]
  <2>1. r \in LoopStates /\ r.pc = "recv" /\ r.s = current
    <3>1. Started \in LoopStates BY DEF Started, NoLoop, LoopStates, Session
    <3>2. current \in Session BY DEF InUse
    <3>3. QED BY <3>1, <3>2 DEF LoopStates
  <2>2. x \in LoopStates /\ x.pc = "ended" BY DEF NoLoop, LoopStates, Session
  <2>3. loop' = [loop EXCEPT ![l] = IF is_alive(current) THEN r ELSE x] BY DEF CheckSession
  <2> HIDE DEF r, x
  <2>4. QED BY <2>1, <2>2, <2>3
<1>3. Types' BY <1>1, <1>2 DEF Types
<1>4. InUse' BY <1>1 DEF InUse
<1>5. Held' BY <1>1, <1>2 DEF Held, AskedAs, Types
<1>6. LiveSessionHasReader' BY <1>1, <1>2 DEF LiveSessionHasReader, is_alive, Types
<1>7. QED BY <1>3, <1>4, <1>5, <1>6

LEMMA KeptByReceive ==
  ASSUME IInv, NEW l \in Loop, NEW d \in sess[loop[l].s].inbox, Receive(l, d)
  PROVE  IInv'
<1> USE SessionAssumption, ForwarderAssumption DEF IInv
<1>1. /\ UNCHANGED <<pending, listenq, current, asked, delivered, failed>>
      /\ sess' = [sess EXCEPT ![loop[l].s].inbox = @ \ {d}]
      /\ loop[l].pc = "recv"
  BY DEF Receive, Taken, forwarderVars
<1>2. loop[l] \in LoopStates /\ loop[l].s \in Session BY DEF Types, LoopStates
<1>3. d \in Datagrams /\ d.query \in Queries \cup {None} /\ d.copy \in 1 .. Copies
  BY <1>2 DEF Types, Datagrams
<1>4. /\ sess' \in [Session -> [state : {"none", "made", "alive", "lost", "closed"},
                                inbox : SUBSET Datagrams]]
      /\ \A r \in Session : sess'[r].state = sess[r].state
  BY <1>1, <1>2 DEF Types
<1>5. MaxSessions \in Session BY DEF Session
<1>6. InUse' BY <1>1, <1>4, <1>5 DEF InUse
<1>7. CASE loop' = [loop EXCEPT ![l] = loop[l]] \/ loop' = loop
  <2>1. loop' = loop BY <1>7 DEF Types
  <2>2. Types' BY <1>1, <1>4, <2>1 DEF Types
  <2>3. Held' BY <1>1, <2>1 DEF Held, AskedAs
  <2>4. LiveSessionHasReader' BY <1>1, <1>4, <2>1 DEF LiveSessionHasReader, is_alive, InUse
  <2>5. QED BY <1>6, <2>2, <2>3, <2>4
<1>8. ASSUME NEW e \in LoopStates, loop' = [loop EXCEPT ![l] = e],
             \/ e.pc = "check"
             \/ e.pc = "found" /\ e.k \in Queries /\ AskedAs(e.to, IdOf(e.k))
      PROVE  IInv'
  <2>1. Types' BY <1>1, <1>4, <1>8 DEF Types
  <2>2. Held' BY <1>1, <1>8 DEF Held, AskedAs, Types
  <2>3. LiveSessionHasReader' BY <1>8 DEF LiveSessionHasReader, Types
  <2>4. QED BY <1>6, <2>1, <2>2, <2>3
<1>9. Started \in LoopStates /\ Started.pc = "check"
  BY DEF Started, NoLoop, LoopStates, Session
<1>10. CASE loop' = [loop EXCEPT ![l] = Started] BY <1>8, <1>9, <1>10
<1>11. CASE /\ d.query # None /\ pending[IdOf(d.query)] # None
            /\ loop' = [loop EXCEPT ![l] = [@ EXCEPT !.pc = "found", !.k = d.query,
                                     !.copy = d.copy, !.to = pending[IdOf(d.query)]]]
  <2> DEFINE e == [loop[l] EXCEPT !.pc = "found", !.k = d.query, !.copy = d.copy,
                                  !.to = pending[IdOf(d.query)]]
  <2>1. d.query \in Queries /\ IdOf(d.query) \in Ids BY <1>3, <1>11 DEF Ids
  <2>2. pending[IdOf(d.query)] \in Queries \cup {None} BY <2>1 DEF Types
  <2>3. e \in LoopStates /\ e.pc = "found" /\ e.k = d.query /\ e.to = pending[IdOf(d.query)]
    BY <1>2, <1>3, <2>1, <2>2 DEF LoopStates
  <2>4. AskedAs(e.to, IdOf(e.k)) BY <1>11, <2>1, <2>3 DEF Held
  <2>5. loop' = [loop EXCEPT ![l] = e] BY <1>11
  <2> HIDE DEF e
  <2>6. QED BY <1>8, <2>1, <2>3, <2>4, <2>5
<1>12. QED BY <1>7, <1>10, <1>11 DEF Receive, after_junk

LEMMA KeptByEraseEntry ==
  ASSUME IInv, NEW l \in Loop, EraseEntry(l)
  PROVE  IInv'
<1> USE SessionAssumption, ForwarderAssumption DEF IInv
<1>1. /\ UNCHANGED <<sess, listenq, current, asked, delivered, failed>>
      /\ loop[l].pc = "found" /\ loop' = [loop EXCEPT ![l].pc = "reply"]
      /\ pending' = [pending EXCEPT ![IdOf(loop[l].k)] = None]
  BY DEF EraseEntry, consume, sessionVars
<1>2. loop' \in [Loop -> LoopStates]
  <2> DEFINE e == [loop[l] EXCEPT !.pc = "reply"]
  <2>1. loop[l] \in LoopStates /\ loop \in [Loop -> LoopStates] BY DEF Types
  <2>2. e \in LoopStates BY <2>1 DEF LoopStates
  <2>3. loop' = [loop EXCEPT ![l] = e] BY <1>1, <2>1
  <2> HIDE DEF e
  <2>4. QED BY <2>1, <2>2, <2>3
<1>3. Types' BY <1>1, <1>2 DEF Types
<1>4. InUse' BY <1>1 DEF InUse
<1>5. loop'[l].k = loop[l].k /\ loop'[l].to = loop[l].to /\ loop'[l].pc = "reply"
      /\ \A m \in Loop \ {l} : loop'[m] = loop[m]
  BY <1>1 DEF Types, LoopStates
<1>6. Held' BY <1>1, <1>5 DEF Held, AskedAs, Types
<1>7. LiveSessionHasReader' BY <1>1, <1>5 DEF LiveSessionHasReader, is_alive
<1>8. QED BY <1>3, <1>4, <1>6, <1>7

LEMMA KeptBySendAnswer ==
  ASSUME IInv, NEW l \in Loop, SendAnswer(l)
  PROVE  IInv'
<1> USE SessionAssumption, ForwarderAssumption DEF IInv
<1>1. /\ UNCHANGED <<sess, pending, listenq, current, asked, failed>>
      /\ loop[l].pc = "reply" /\ loop' = [loop EXCEPT ![l] = Started]
      /\ delivered' = delivered \cup {<<loop[l].k, loop[l].copy, loop[l].to>>}
  BY DEF SendAnswer, receiver, sessionVars, forwarderVars
<1>2. Started \in LoopStates /\ Started.pc = "check"
  BY DEF Started, NoLoop, LoopStates, Session
<1>3. Types' BY <1>1, <1>2 DEF Types
<1>4. InUse' BY <1>1 DEF InUse
<1>5. \A e \in delivered' : AskedAs(e[3], IdOf(e[1])) BY <1>1 DEF Held
<1>6. Held' BY <1>1, <1>2, <1>5 DEF Held, AskedAs, Types
<1>7. LiveSessionHasReader' BY <1>1, <1>2 DEF LiveSessionHasReader, Types
<1>8. QED BY <1>3, <1>4, <1>6, <1>7

\* The loop of a session that was replaced does not serve the one that replaced it.
LEMMA KeptByRecvAborted ==
  ASSUME IInv, NEW l \in Loop, RecvAborted(l)
  PROVE  IInv'
<1> USE SessionAssumption, ForwarderAssumption DEF IInv
<1>1. /\ UNCHANGED <<sess, pending, listenq, current, asked, delivered, failed>>
      /\ loop[l].pc = "recv" /\ sess[loop[l].s].state = "closed"
      /\ loop' = [loop EXCEPT ![l] = [NoLoop EXCEPT !.pc = "ended"]]
  BY DEF RecvAborted, sessionVars, forwarderVars, historyVars
<1>2. [NoLoop EXCEPT !.pc = "ended"] \in LoopStates /\ [NoLoop EXCEPT !.pc = "ended"].pc = "ended"
  BY DEF NoLoop, LoopStates, Session
<1>3. Types' BY <1>1, <1>2 DEF Types
<1>4. InUse' BY <1>1 DEF InUse
<1>5. Held' BY <1>1, <1>2 DEF Held, AskedAs, Types
<1>6. is_alive(current) => loop[l].s # current BY <1>1 DEF is_alive
<1>7. LiveSessionHasReader' BY <1>1, <1>6 DEF LiveSessionHasReader, is_alive, Types
<1>8. QED BY <1>3, <1>4, <1>5, <1>7
-----------------------------------------------------------------------------
LEMMA KeptByQueryStep ==
  ASSUME IInv, QueryStep
  PROVE  IInv'
<1>1. ASSUME ReconnectFailed PROVE IInv'
  BY <1>1, KeptElsewhere DEF ReconnectFailed, sessionVars, forwarderVars
<1>2. QED BY <1>1, KeptByTakeQuery, KeptByReconnected, KeptBySendQuery DEF QueryStep

LEMMA KeptByResponseStep ==
  ASSUME IInv, NEW l \in Loop, ResponseStep(l)
  PROVE  IInv'
<1>1. QED BY KeptByCheckSession, KeptByReceive, KeptByEraseEntry, KeptBySendAnswer,
             KeptByRecvAborted DEF ResponseStep

LEMMA KeptByEnvironment ==
  ASSUME IInv, Environment
  PROVE  IInv'
<1>1. ASSUME Age PROVE IInv'
  BY <1>1, KeptElsewhere DEF Age, sessionVars, loopVars, historyVars
<1>2. ASSUME ListenError PROVE IInv'
  BY <1>2, KeptElsewhere DEF ListenError, sessionVars, forwarderVars
<1>3. QED BY <1>1, <1>2, KeptByAsk, KeptBySessionLost, KeptByLoopError DEF Environment

LEMMA Inductive == IInv /\ [Next]_vars => IInv'
<1> SUFFICES ASSUME IInv, [Next]_vars PROVE IInv' OBVIOUS
<1>1. CASE UNCHANGED vars
  BY <1>1, KeptElsewhere DEF vars, sessionVars, forwarderVars, loopVars, historyVars
<1>2. CASE Next
  BY <1>2, KeptByQueryStep, KeptByResponseStep, KeptByNetwork, KeptByEnvironment DEF Next
<1>3. QED BY <1>1, <1>2

\* The types the properties need, a session in use that is never a closed one, entries and
\* answers held under the id of a query that was asked, and a reader for a live session.
THEOREM IInvCorrect == Spec => []IInv
<1>1. QED BY Initially, Inductive, PTL DEF Spec

\* Every answer goes to a client that asked a question with that id, whichever entries
\* were overwritten, erased or expired while it was under way.
THEOREM OnlyToAskersCorrect == Spec => []OnlyToAskers
<1>1. IInv => OnlyToAskers BY DEF IInv, Held, AskedAs, OnlyToAskers
<1>2. QED BY <1>1, IInvCorrect, PTL

\* A live session has a reader, however often the proxy went away, until an error ends a loop.
THEOREM LiveSessionHasReaderCorrect == Spec => []LiveSessionHasReader
<1>1. IInv => LiveSessionHasReader BY DEF IInv
<1>2. QED BY <1>1, IInvCorrect, PTL
-----------------------------------------------------------------------------
\* A step of the forwarder that brings no question to another place.
LEMMA FewerPlaces ==
  ASSUME OInv, asked' = asked, delivered' = delivered, listenq' \subseteq listenq,
         \A k \in Queries : Entered(k)' => Entered(k),
         \A l \in Loop, k \in Queries :
           (Holds(l, k)' => Holds(l, k)) /\ (Replies(l, k)' => Replies(l, k)),
         ~broken' => ~broken
  PROVE  OInv'
<1>1. (asked \subseteq Queries)' /\ OnceAnswered' BY DEF OInv, OnceAnswered
<1>2. ASSUME ~broken' PROVE OncePlaced'
  <2>1. \A k \in Queries : Answered(k)' <=> Answered(k) BY DEF Answered
  <2>2. OncePlaced BY <1>2 DEF OInv
  <2> SUFFICES ASSUME NEW k \in Queries
               PROVE  /\ k \in listenq' => ~Entered(k)' /\ ~Answered(k)' /\ \A l \in Loop : ~Holds(l, k)'
                      /\ Answered(k)' => ~Entered(k)' /\ \A l \in Loop : ~Holds(l, k)'
                      /\ \A l \in Loop : Replies(l, k)' =>
                           ~Entered(k)' /\ \A m \in Loop : Holds(m, k)' => m = l
    BY DEF OncePlaced
  <2>3. k \in listenq' => ~Entered(k)' /\ ~Answered(k)' /\ \A l \in Loop : ~Holds(l, k)'
    BY <2>1, <2>2 DEF OncePlaced
  <2>4. Answered(k)' => ~Entered(k)' /\ \A l \in Loop : ~Holds(l, k)'
    BY <2>1, <2>2 DEF OncePlaced
  <2>5. \A l \in Loop : Replies(l, k)' => ~Entered(k)' /\ \A m \in Loop : Holds(m, k)' => m = l
    BY <2>2 DEF OncePlaced
  <2>6. QED BY <2>3, <2>4, <2>5
<1>3. QED BY <1>1, <1>2 DEF OInv

\* A response loop that lets go of what it holds, or goes on without.
LEMMA LetGo ==
  ASSUME IInv, OInv, NEW l \in Loop, NEW e \in LoopStates, e.pc \notin {"found", "reply"},
         loop' = [loop EXCEPT ![l] = e], pending' = pending,
         asked' = asked, delivered' = delivered, listenq' = listenq, broken' = broken
  PROVE  OInv'
<1>1. \A m \in Loop : loop'[m] = IF m = l THEN e ELSE loop[m] BY DEF IInv, Types
<1>2. \A m \in Loop, k \in Queries :
        (Holds(m, k)' => Holds(m, k)) /\ (Replies(m, k)' => Replies(m, k))
  BY <1>1 DEF Holds, Replies
<1>3. \A k \in Queries : Entered(k)' => Entered(k) BY DEF Entered
<1>4. QED BY <1>2, <1>3, FewerPlaces

\* Steps that touch neither the entries nor the loops.
LEMMA SamePlaces ==
  ASSUME OInv, UNCHANGED <<listenq, pending, loop, asked, delivered, broken>>
  PROVE  OInv'
<1>1. \A m \in Loop, k \in Queries :
        (Holds(m, k)' => Holds(m, k)) /\ (Replies(m, k)' => Replies(m, k))
  BY DEF Holds, Replies
<1>2. \A k \in Queries : Entered(k)' => Entered(k) BY DEF Entered
<1>3. QED BY <1>1, <1>2, FewerPlaces

\* Steps that move one question only.
LEMMA OtherPlaces ==
  ASSUME OncePlaced, NEW q \in Queries,
         \A j \in Queries \ {q} :
           /\ j \in listenq' => j \in listenq
           /\ Entered(j)' => Entered(j)
           /\ Answered(j)' => Answered(j),
         \A j \in Queries \ {q}, m \in Loop :
           (Holds(m, j)' => Holds(m, j)) /\ (Replies(m, j)' => Replies(m, j)),
         q \in listenq' => ~Entered(q)' /\ ~Answered(q)' /\ \A l \in Loop : ~Holds(l, q)',
         Answered(q)' => ~Entered(q)' /\ \A l \in Loop : ~Holds(l, q)',
         \A l \in Loop : Replies(l, q)' => ~Entered(q)' /\ \A m \in Loop : Holds(m, q)' => m = l
  PROVE  OncePlaced'
<1>1. SUFFICES ASSUME NEW j \in Queries, j # q
               PROVE  /\ j \in listenq' => ~Entered(j)' /\ ~Answered(j)' /\ \A l \in Loop : ~Holds(l, j)'
                      /\ Answered(j)' => ~Entered(j)' /\ \A l \in Loop : ~Holds(l, j)'
                      /\ \A l \in Loop : Replies(l, j)' =>
                           ~Entered(j)' /\ \A m \in Loop : Holds(m, j)' => m = l
  BY DEF OncePlaced
<1>2. j \in listenq' => ~Entered(j)' /\ ~Answered(j)' /\ \A l \in Loop : ~Holds(l, j)'
  BY <1>1 DEF OncePlaced
<1>3. Answered(j)' => ~Entered(j)' /\ \A l \in Loop : ~Holds(l, j)' BY <1>1 DEF OncePlaced
<1>4. \A l \in Loop : Replies(l, j)' => ~Entered(j)' /\ \A m \in Loop : Holds(m, j)' => m = l
  BY <1>1 DEF OncePlaced
<1>5. QED BY <1>2, <1>3, <1>4

LEMMA OnceByAsk ==
  ASSUME IInv, OInv, ~broken, NEW k \in Queries, Ask(k)
  PROVE  OInv'
<1>1. /\ k \notin asked /\ asked' = asked \cup {k} /\ listenq' = listenq \cup {k}
      /\ UNCHANGED <<pending, loop, delivered, broken>>
  BY DEF Ask, loopVars
<1>2. ~Entered(k) /\ ~Answered(k) /\ \A l \in Loop : ~Holds(l, k)
  <2>1. ~Entered(k)
    <3>1. IdOf(k) \in Ids /\ k # None BY ForwarderAssumption DEF Ids
    <3>2. QED BY <1>1, <3>1 DEF IInv, Held, AskedAs, Entered
  <2>2. ~Answered(k) BY <1>1 DEF IInv, Held, AskedAs, Answered
  <2>3. \A l \in Loop : ~Holds(l, k) BY <1>1 DEF IInv, Held, AskedAs, Holds
  <2>4. QED BY <2>1, <2>2, <2>3
<1>3. /\ \A j \in Queries : (Entered(j)' <=> Entered(j)) /\ (Answered(j)' <=> Answered(j))
      /\ \A j \in Queries, l \in Loop :
           (Holds(l, j)' <=> Holds(l, j)) /\ (Replies(l, j)' <=> Replies(l, j))
  <2>1. \A j \in Queries : (Entered(j)' <=> Entered(j)) /\ (Answered(j)' <=> Answered(j))
    BY <1>1 DEF Entered, Answered
  <2>2. \A j \in Queries, l \in Loop :
          (Holds(l, j)' <=> Holds(l, j)) /\ (Replies(l, j)' <=> Replies(l, j))
    BY <1>1 DEF Holds, Replies
  <2>3. QED BY <2>1, <2>2
<1>4. OncePlaced BY DEF OInv
<1>5. OncePlaced'
  <2>1. \A j \in Queries \ {k} : j \in listenq' => j \in listenq BY <1>1
  <2>2. \A l \in Loop : ~Replies(l, k) BY <1>2 DEF Holds, Replies
  <2>3. QED BY <1>2, <1>3, <1>4, <2>1, <2>2, OtherPlaces
<1>6. QED BY <1>1, <1>5 DEF OInv, OnceAnswered

LEMMA OnceByTakeQuery ==
  ASSUME IInv, OInv, ~broken, NEW k \in Queries, TakeQuery(k)
  PROVE  OInv'
<1>1. /\ k \in listenq /\ listenq' = listenq \ {k} /\ pending' = [pending EXCEPT ![IdOf(k)] = k]
      /\ UNCHANGED <<loop, asked, delivered>>
  BY DEF TakeQuery, note_query
<1>2. \A j \in Queries \ {k} : Entered(j)' => Entered(j)
  <2>1. \A j \in Queries : IdOf(j) \in Ids BY DEF Ids
  <2>2. QED BY <1>1, <2>1 DEF IInv, Types, Entered
<1>3. \A j \in Queries : Answered(j)' <=> Answered(j) BY <1>1 DEF Answered
<1>4. \A j \in Queries, l \in Loop : (Holds(l, j)' <=> Holds(l, j)) /\ (Replies(l, j)' <=> Replies(l, j))
  BY <1>1 DEF Holds, Replies
<1>5. OncePlaced BY DEF OInv
<1>6. ~Answered(k) /\ (\A l \in Loop : ~Holds(l, k)) BY <1>1, <1>5 DEF OncePlaced
<1>7. \A l \in Loop : ~Replies(l, k) BY <1>6 DEF Holds, Replies
<1>8. OncePlaced'
  <2>1. k \notin listenq' /\ \A j \in Queries \ {k} : j \in listenq' => j \in listenq BY <1>1
  <2>2. QED BY <1>2, <1>3, <1>4, <1>5, <1>6, <1>7, <2>1, OtherPlaces
<1>9. QED BY <1>1, <1>8 DEF OInv, OnceAnswered

LEMMA OnceBySendQuery ==
  ASSUME IInv, OInv, ~broken, NEW sent \in BOOLEAN, SendQuery(sent)
  PROVE  OInv'
<1>1. PICK gone : pending' = [i \in Ids |-> IF i \in gone THEN None ELSE pending[i]]
  BY DEF SendQuery
<1>2. UNCHANGED <<loop, listenq, asked, delivered>> BY DEF SendQuery
<1>3. \A k \in Queries : Entered(k)' => Entered(k)
  <2>1. \A k \in Queries : IdOf(k) \in Ids /\ k # None BY ForwarderAssumption DEF Ids
  <2>2. QED BY <1>1, <2>1 DEF Entered
<1>4. \A m \in Loop, k \in Queries :
        (Holds(m, k)' => Holds(m, k)) /\ (Replies(m, k)' => Replies(m, k))
  BY <1>2 DEF Holds, Replies
<1>5. QED BY <1>2, <1>3, <1>4, FewerPlaces

\* A loop that finds an entry holds its question, which is nowhere but in the entry.
LEMMA OnceByReceive ==
  ASSUME IInv, OInv, ~broken, NEW l \in Loop, NEW d \in sess[loop[l].s].inbox, Receive(l, d)
  PROVE  OInv'
<1> USE SessionAssumption, ForwarderAssumption
<1>1. /\ UNCHANGED <<pending, listenq, asked, delivered, broken>> /\ loop[l].pc = "recv"
  BY DEF Receive, forwarderVars
<1>2. loop[l] \in LoopStates /\ loop \in [Loop -> LoopStates] /\ loop[l].s \in Session
  BY DEF IInv, Types, LoopStates
<1>3. d \in Datagrams /\ d.query \in Queries \cup {None} /\ d.copy \in 1 .. Copies
  BY <1>2 DEF IInv, Types, Datagrams
<1>4. Started \in LoopStates /\ Started.pc = "check"
  BY DEF Started, NoLoop, LoopStates, Session
<1>5. CASE loop' = [loop EXCEPT ![l] = loop[l]]
  <2>1. loop' = loop BY <1>2, <1>5
  <2>2. QED BY <1>1, <2>1, SamePlaces
<1>6. CASE loop' = [loop EXCEPT ![l] = Started] BY <1>1, <1>4, <1>6, LetGo
<1>7. CASE /\ d.query # None /\ pending[IdOf(d.query)] # None
           /\ loop' = [loop EXCEPT ![l] = [loop[l] EXCEPT !.pc = "found", !.k = d.query,
                                    !.copy = d.copy, !.to = pending[IdOf(d.query)]]]
  <2> PICK q : q = pending[IdOf(d.query)] OBVIOUS
  <2> DEFINE e == [loop[l] EXCEPT !.pc = "found", !.k = d.query, !.copy = d.copy,
                                  !.to = pending[IdOf(d.query)]]
  <2>1. d.query \in Queries /\ IdOf(d.query) \in Ids BY <1>3, <1>7 DEF Ids
  <2>2. q \in Queries /\ Entered(q)
    BY <1>7, <2>1 DEF IInv, Types, Held, AskedAs, Entered
  <2>3. e.pc = "found" /\ e.to = q BY <1>2 DEF LoopStates
  <2>4. loop' = [loop EXCEPT ![l] = e] BY <1>7
  <2> HIDE DEF e
  <2>5. \A m \in Loop : loop'[m] = IF m = l THEN e ELSE loop[m] BY <1>2, <2>4
  <2>6. \A j \in Queries : (Entered(j)' <=> Entered(j)) /\ (Answered(j)' <=> Answered(j))
    BY <1>1 DEF Entered, Answered
  <2>7. \A j \in Queries, m \in Loop : /\ Holds(m, j)' => Holds(m, j) \/ j = q
                                       /\ Replies(m, j)' => Replies(m, j)
    BY <2>3, <2>5 DEF Holds, Replies
  <2>8. OncePlaced BY DEF OInv
  <2>9. OncePlaced'
    <3>1. q \notin listenq /\ ~Answered(q) /\ \A m \in Loop : ~Replies(m, q)
      BY <2>2, <2>8 DEF OncePlaced
    <3>2. \A j \in Queries \ {q} : j \in listenq' => j \in listenq BY <1>1
    <3>3. q \notin listenq' /\ ~Answered(q)' /\ \A m \in Loop : ~Replies(m, q)'
      BY <1>1, <2>2, <2>6, <2>7, <3>1
    <3>4. QED BY <2>2, <2>6, <2>7, <2>8, <3>2, <3>3, OtherPlaces
  <2>10. QED BY <1>1, <2>9 DEF OInv, OnceAnswered
<1>8. QED BY <1>5, <1>6, <1>7 DEF Receive, after_junk

\* An entry that is erased intact was held by one loop.
LEMMA OnceByEraseEntry ==
  ASSUME IInv, OInv, ~broken, NEW l \in Loop, EraseEntry(l)
  PROVE  OInv'
<1>1. /\ UNCHANGED <<listenq, asked, delivered>>
      /\ loop[l].pc = "found" /\ loop' = [loop EXCEPT ![l].pc = "reply"]
      /\ pending' = [pending EXCEPT ![IdOf(loop[l].k)] = None]
      /\ Touch(Reading \ {l}, {IdOf(loop[l].k)})
  BY DEF EraseEntry, consume
<1>2. (asked \subseteq Queries)' /\ OnceAnswered' BY <1>1 DEF OInv, OnceAnswered
<1>3. ASSUME ~broken' PROVE OncePlaced'
  <2> PICK q : q = loop[l].to OBVIOUS
  <2>1. \A m \in Loop \ {l} : loop[m].pc = "found" => IdOf(loop[m].k) # IdOf(loop[l].k)
    BY <1>1, <1>3 DEF Touch, Reading
  <2>2. OncePlaced BY DEF OInv
  <2>3. q \in Queries /\ IdOf(q) = IdOf(loop[l].k) /\ Holds(l, q) /\ IdOf(q) \in Ids
    BY <1>1 DEF IInv, Held, AskedAs, OInv, Holds, Ids
  <2>4. \A m \in Loop \ {l} : ~Holds(m, q)
    <3> SUFFICES ASSUME NEW m \in Loop \ {l}, Holds(m, q) PROVE FALSE OBVIOUS
    <3>1. loop[m].to = q /\ IdOf(loop[m].k) = IdOf(q)
      BY DEF Holds, IInv, Held, AskedAs
    <3>2. CASE loop[m].pc = "found" BY <2>1, <2>3, <3>1, <3>2
    <3>3. CASE loop[m].pc = "reply" 
      <4>1. Replies(m, q) BY <3>1, <3>3 DEF Replies
      <4>2. QED BY <2>2, <2>3, <4>1 DEF OncePlaced
    <3>4. QED BY <3>2, <3>3 DEF Holds
  <2>5. q \notin listenq /\ ~Answered(q) BY <2>2, <2>3 DEF OncePlaced
  <2>6. loop'[l].pc = "reply" /\ loop'[l].to = q /\ \A m \in Loop \ {l} : loop'[m] = loop[m]
    BY <1>1 DEF IInv, Types, LoopStates
  <2>7. \A j \in Queries : IdOf(j) \in Ids /\ j # None BY ForwarderAssumption DEF Ids
  <2>8. pending'[IdOf(q)] = None /\ \A i \in Ids : pending'[i] \in {pending[i], None}
    BY <1>1, <2>3 DEF IInv, Types
  <2>9. \A j \in Queries : /\ Entered(j)' => Entered(j) /\ j # q
                           /\ Answered(j)' <=> Answered(j)
                           /\ \A m \in Loop : /\ Holds(m, j)' => Holds(m, j)
                                              /\ Replies(m, j)' => Replies(m, j) \/ (m = l /\ j = q)
    <3>1. \A j \in Queries : Entered(j)' => Entered(j) /\ j # q BY <2>7, <2>8 DEF Entered
    <3>2. \A j \in Queries : Answered(j)' <=> Answered(j) BY <1>1 DEF Answered
    <3>3. \A j \in Queries, m \in Loop : /\ Holds(m, j)' => Holds(m, j)
                                         /\ Replies(m, j)' => Replies(m, j) \/ (m = l /\ j = q)
      BY <1>1, <2>6 DEF Holds, Replies
    <3>4. QED BY <3>1, <3>2, <3>3
  <2>10. ~Entered(q)' /\ q \notin listenq' /\ ~Answered(q)' BY <1>1, <2>3, <2>5, <2>9
  <2>11. \A m \in Loop : Holds(m, q)' => m = l BY <2>3, <2>4, <2>9
  <2>12. \A m \in Loop : Replies(m, q)' => Holds(m, q)' BY DEF Holds, Replies
  <2>13. \A j \in Queries \ {q} : j \in listenq' => j \in listenq BY <1>1
  <2>14. QED BY <2>2, <2>3, <2>9, <2>10, <2>11, <2>12, <2>13, OtherPlaces
<1>4. QED BY <1>2, <1>3 DEF OInv

\* What is answered was in the hands of that loop alone, and is in no place any more.
LEMMA OnceBySendAnswer ==
  ASSUME IInv, OInv, ~broken, NEW l \in Loop, SendAnswer(l)
  PROVE  OInv'
<1> PICK q : q = loop[l].to OBVIOUS
<1> DEFINE a == <<loop[l].k, loop[l].copy, q>>
<1>1. /\ UNCHANGED <<pending, listenq, asked, broken>>
      /\ loop[l].pc = "reply" /\ loop' = [loop EXCEPT ![l] = Started]
      /\ delivered' = delivered \cup {a}
  BY DEF SendAnswer, receiver, forwarderVars
<1>2. Started.pc = "check" BY DEF Started, NoLoop
<1>3. OncePlaced /\ OnceAnswered BY DEF OInv
<1>4. q \in Queries /\ Replies(l, q) /\ Holds(l, q) /\ a[3] = q
  BY <1>1 DEF IInv, Held, AskedAs, OInv, Holds, Replies
<1>5. ~Answered(q) /\ ~Entered(q) /\ q \notin listenq /\ \A m \in Loop : Holds(m, q) => m = l
  BY <1>3, <1>4 DEF OncePlaced
<1> HIDE DEF a
<1>6. OnceAnswered'
  <2> SUFFICES ASSUME NEW d \in delivered', NEW e \in delivered', d[3] = e[3] PROVE d = e
    BY DEF OnceAnswered
  <2>1. \A f \in delivered : f[3] # q BY <1>5 DEF Answered
  <2>2. QED BY <1>1, <1>3, <1>4, <2>1 DEF OnceAnswered
<1>7. \A m \in Loop : loop'[m] = IF m = l THEN Started ELSE loop[m]
  BY <1>1 DEF IInv, Types
<1>8. \A j \in Queries : /\ Entered(j)' <=> Entered(j)
                         /\ Answered(j)' => Answered(j) \/ j = q
                         /\ \A m \in Loop : /\ Holds(m, j)' => Holds(m, j) /\ m # l
                                            /\ Replies(m, j)' => Replies(m, j)
  <2>1. \A j \in Queries : (Entered(j)' <=> Entered(j)) /\ (Answered(j)' => Answered(j) \/ j = q)
    BY <1>1, <1>4 DEF Entered, Answered
  <2>2. \A j \in Queries, m \in Loop : /\ Holds(m, j)' => Holds(m, j) /\ m # l
                                       /\ Replies(m, j)' => Replies(m, j)
    BY <1>2, <1>7 DEF Holds, Replies
  <2>3. QED BY <2>1, <2>2
<1>9. OncePlaced'
  <2>1. \A m \in Loop : ~Holds(m, q)' BY <1>4, <1>5, <1>8
  <2>2. \A m \in Loop : ~Replies(m, q)' BY <2>1 DEF Holds, Replies
  <2>3. q \notin listenq' /\ ~Entered(q)' BY <1>1, <1>4, <1>5, <1>8
  <2>4. \A j \in Queries \ {q} : j \in listenq' => j \in listenq BY <1>1
  <2>5. QED BY <1>3, <1>4, <1>8, <2>1, <2>2, <2>3, <2>4, OtherPlaces
<1>10. QED BY <1>1, <1>6, <1>9 DEF OInv

LEMMA OnceInitially == Init => OInv
<1> SUFFICES ASSUME Init PROVE OInv OBVIOUS
<1>1. asked = {} /\ delivered = {} /\ listenq = {} BY DEF Init
<1>2. \A l \in Loop : loop[l].pc \in {"check", "none"} BY DEF Init, Started, NoLoop
<1>3. OncePlaced BY <1>1, <1>2 DEF OncePlaced, Answered, Replies
<1>4. QED BY <1>1, <1>3 DEF OInv, OnceAnswered

LEMMA OnceInductive == IInv /\ OInv /\ [Next]_vars => OInv'
<1> SUFFICES ASSUME IInv, OInv, [Next]_vars PROVE OInv' OBVIOUS
<1> USE SessionAssumption, ForwarderAssumption
<1>1. CASE UNCHANGED vars
  BY <1>1, SamePlaces DEF vars, forwarderVars, loopVars, historyVars
<1>2. CASE ~broken /\ QueryStep
  <2>1. ASSUME ReconnectFailed PROVE OInv'
    BY <2>1, SamePlaces DEF ReconnectFailed, forwarderVars
  <2>2. ASSUME Reconnected PROVE OInv'
    <3>1. Started \in LoopStates /\ Started.pc = "check"
      BY DEF Started, NoLoop, LoopStates, Session
    <3>2. current \in Loop BY DEF IInv, InUse, Loop
    <3>3. QED BY <2>2, <3>1, <3>2, LetGo DEF Reconnected, respawned, forwarderVars, historyVars
  <2>3. QED BY <1>2, <2>1, <2>2, OnceByTakeQuery, OnceBySendQuery DEF QueryStep
<1>3. CASE ~broken /\ \E l \in Loop : ResponseStep(l)
  <2>1. PICK l \in Loop : ResponseStep(l) BY <1>3
  <2>2. [NoLoop EXCEPT !.pc = "ended"] \in LoopStates /\ [NoLoop EXCEPT !.pc = "ended"].pc = "ended"
    BY DEF NoLoop, LoopStates, Session
  <2>3. ASSUME RecvAborted(l) PROVE OInv'
    BY <2>2, <2>3, LetGo DEF RecvAborted, forwarderVars, historyVars
  <2>4. ASSUME CheckSession(l) PROVE OInv'
    <3> DEFINE r == [Started EXCEPT !.pc = "recv", !.s = current]
               x == [NoLoop EXCEPT !.pc = "ended"]
    <3>1. r \in LoopStates /\ r.pc = "recv"
      <4>1. Started \in LoopStates BY DEF Started, NoLoop, LoopStates, Session
      <4>2. current \in Session BY DEF IInv, InUse
      <4>3. QED BY <4>1, <4>2 DEF LoopStates
    <3>2. loop' = [loop EXCEPT ![l] = r] \/ loop' = [loop EXCEPT ![l] = x]
      BY <2>4 DEF CheckSession
    <3>3. x \in LoopStates /\ x.pc = "ended" BY <2>2
    <3>4. UNCHANGED <<listenq, pending, asked, delivered, broken>>
      BY <2>4 DEF CheckSession, forwarderVars, historyVars
    <3> HIDE DEF r, x
    <3>5. CASE loop' = [loop EXCEPT ![l] = r] BY <3>1, <3>4, <3>5, LetGo
    <3>6. CASE loop' = [loop EXCEPT ![l] = x] BY <3>3, <3>4, <3>6, LetGo
    <3>7. QED BY <3>2, <3>5, <3>6
  <2>5. QED BY <1>3, <2>1, <2>3, <2>4, OnceByReceive, OnceByEraseEntry, OnceBySendAnswer
            DEF ResponseStep
<1>4. CASE NetworkStep
  BY <1>4, SamePlaces DEF NetworkStep, Answer, LoseAnswer, loopVars, historyVars
<1>5. CASE ~broken /\ Environment
  <2>1. ASSUME Age PROVE OInv' BY <2>1, SamePlaces DEF Age, loopVars, historyVars
  <2>2. ASSUME ListenError PROVE OInv' BY <2>2, SamePlaces DEF ListenError, forwarderVars
  <2>3. ASSUME NEW s \in Session, SessionLost(s) PROVE OInv'
    BY <2>3, SamePlaces DEF SessionLost, forwarderVars, loopVars
  <2>4. ASSUME NEW l \in Loop, ReplyError(l) \/ RecvError(l) PROVE OInv'
    <3>1. [NoLoop EXCEPT !.pc = "ended"] \in LoopStates /\ [NoLoop EXCEPT !.pc = "ended"].pc = "ended"
      BY DEF NoLoop, LoopStates, Session
    <3>2. QED BY <2>4, <3>1, LetGo DEF ReplyError, RecvError, forwarderVars
  <2>5. QED BY <1>5, <2>1, <2>2, <2>3, <2>4, OnceByAsk DEF Environment
<1>6. QED BY <1>1, <1>2, <1>3, <1>4, <1>5 DEF Next

\* No answer is given twice to one question: a client gets at most as many answers with an
\* id as it asked questions with it, however often the network repeats an answer and however many
\* response loops share pending_, for as long as pending_ is not corrupted.
THEOREM NoMoreAnswersThanQuestionsCorrect == Spec => []NoMoreAnswersThanQuestions
<1>1. IInv /\ OInv => NoMoreAnswersThanQuestions
  <2> SUFFICES ASSUME IInv, OInv, NEW c \in {ClientOf(k) : k \in Queries}, NEW i \in Ids
               PROVE  Cardinality({d \in delivered : ClientOf(d[3]) = c /\ IdOf(d[1]) = i})
                        <= Cardinality({k \in asked : ClientOf(k) = c /\ IdOf(k) = i})
    BY DEF NoMoreAnswersThanQuestions
  <2> DEFINE D == {d \in delivered : ClientOf(d[3]) = c /\ IdOf(d[1]) = i}
             K == {k \in asked : ClientOf(k) = c /\ IdOf(k) = i}
             f == [d \in D |-> d[3]]
  <2>1. \A d \in D : d[3] \in K BY DEF IInv, Held, AskedAs
  <2>2. \A d, e \in D : d[3] = e[3] => d = e BY DEF OInv, OnceAnswered
  <2>3. IsFiniteSet(K)
    <3>1. K \subseteq Queries BY DEF OInv
    <3>2. QED BY <3>1, FS_Subset, ForwarderAssumption
  <2> HIDE DEF D, K
  <2>4. f \in Injection(D, K) BY <2>1, <2>2 DEF Injection, IsInjective
  <2> HIDE DEF f
  <2>5. Cardinality(D) <= Cardinality(K) BY <2>3, <2>4, FS_Injection
  <2>6. QED BY <2>5 DEF D, K
<1>2. Init => IInv /\ OInv BY Initially, OnceInitially
<1>3. IInv /\ OInv /\ [Next]_vars => IInv' /\ OInv' BY Inductive, OnceInductive
<1>4. QED BY <1>1, <1>2, <1>3, PTL DEF Spec
=============================================================================
