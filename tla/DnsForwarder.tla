---------------------------- MODULE DnsForwarder ----------------------------
(***************************************************************************)
(* core/dns_forwarder.hpp: one coroutine takes DNS queries from a local    *)
(* port and sends them through a SOCKS5 UDP session, another takes the     *)
(* answers of the session back to the clients.  Both run on any worker of  *)
(* the io_context, and nothing locks what they share: pending_ and         *)
(* socks5_session_.  A new session gets a new response loop; the loop of   *)
(* the old one may still be at work, and then reads from the new one too.  *)
(***************************************************************************)
EXTENDS Socks5UdpSession

CONSTANTS
  Queries,       \* the questions clients will ask
  ClientOf(_),   \* who asks it
  IdOf(_),       \* the 16-bit id the client chose for it
  None,          \* no query
  CleanupEvery,  \* cleanup runs when this divides query_count_ (32 in the code)
  Copies,        \* how often the network may deliver an answer ...
  Repeated,      \* ... to one of these queries; any other once
  RecvErrors     \* errors other than a reset: {"listen", "session", "reply"} or fewer

Ids == {IdOf(k) : k \in Queries}

ASSUME ForwarderAssumption ==
  /\ IsFiniteSet(Queries) /\ None \notin Queries
  /\ CleanupEvery \in Nat \ {0} /\ Copies \in Nat \ {0}
  /\ Repeated \subseteq Queries /\ RecvErrors \subseteq {"listen", "session", "reply"}

\* One response loop per session established.
Loop == Session
\* What the data socket may hold: an answer, or a frame that does not decode.
Datagrams == [from : {Relay, Stranger}, query : Queries \cup {None}, copy : 1 .. Copies]

VARIABLES
  listenq,     \* queries in the receive buffer of the listening socket
  pending,     \* pending_[id]: the query that wrote the entry
  old,         \* entries sent more than 10 seconds ago
  current,     \* socks5_session_
  query,       \* the query loop: where it is and the query it has in hand
  loop,        \* every response loop: where it is, its session, answer and client
  count,       \* query_count_, modulo CleanupEvery
  wire,        \* queries under way through a session
  asked,       \* queries the clients have sent
  delivered,   \* answers sent: the query answered, which copy, and to whom
  lost,        \* queries the network, the proxy or a colliding id cost their answer
  failed,      \* errors that have ended a loop
  broken       \* pending_ was corrupted by unsynchronised access

loopVars == <<query, loop>>
historyVars == <<asked, delivered, lost, failed, broken>>
forwarderVars == <<listenq, pending, old, current, count, wire>>
vars == <<sessionVars, forwarderVars, loopVars, historyVars>>

TypeOK ==
  /\ sess \in [Session -> [state : {"none", "made", "alive", "lost", "closed"},
                           inbox : SUBSET Datagrams]]
  /\ listenq \subseteq Queries /\ pending \in [Ids -> Queries \cup {None}]
  /\ old \subseteq Ids /\ current \in Session /\ count \in 0 .. CleanupEvery - 1
  /\ query \in [pc : {"recv", "establish", "send", "ended"}, k : Queries \cup {None}]
  /\ loop \in [Loop -> [pc : {"none", "check", "recv", "found", "reply", "ended"},
                        s : Session, k : Queries \cup {None}, copy : 1 .. Copies,
                        to : Queries \cup {None}]]
  /\ wire \subseteq Queries \X Session
  /\ asked \subseteq Queries /\ lost \subseteq asked
  /\ delivered \subseteq Queries \X (1 .. Copies) \X Queries
  /\ failed \subseteq RecvErrors /\ broken \in BOOLEAN

NoLoop == [pc |-> "none", s |-> 1, k |-> None, copy |-> 1, to |-> None]
Started == [NoLoop EXCEPT !.pc = "check"]

\* start() has bound the socket, established the first session and spawned both loops.
Init ==
  /\ sess = [s \in Session |-> IF s = 1 THEN [FreshSession EXCEPT !.state = "alive"]
                                          ELSE FreshSession]
  /\ listenq = {} /\ pending = [i \in Ids |-> None] /\ old = {} /\ current = 1
  /\ query = [pc |-> "recv", k |-> None]
  /\ loop = [l \in Loop |-> IF l = 1 THEN Started ELSE NoLoop]
  /\ count = 0 /\ wire = {} /\ asked = {} /\ delivered = {} /\ lost = {}
  /\ failed = {} /\ broken = FALSE
-----------------------------------------------------------------------------
Answered(k) == \E d \in delivered : d[3] = k
Lose(ks) == lost \cup {k \in ks : ~Answered(k)}

\* The clients and the network.  (At most one query waits at the socket, a bound.)
Ask(k) ==
  /\ k \notin asked /\ listenq = {}
  /\ asked' = asked \cup {k} /\ listenq' = listenq \cup {k}
  /\ UNCHANGED <<sessionVars, pending, old, current, count, wire, loopVars,
                 delivered, lost, failed, broken>>

\* The server's answer, once or in several copies.
Answer(k, s, copies) ==
  /\ <<k, s>> \in wire /\ wire' = wire \ {<<k, s>>}
  /\ sess[s].state \in {"alive", "lost"}
  /\ Arrive(s, {[from |-> Relay, query |-> k, copy |-> c] : c \in copies})
  /\ UNCHANGED <<listenq, pending, old, current, count, loopVars, historyVars>>

\* The query or its answer is lost, or mangled: a frame arrives that does not decode;
\* or what arrives comes from a stranger.
LoseAnswer(k, s, senders) ==
  /\ <<k, s>> \in wire /\ wire' = wire \ {<<k, s>>} /\ lost' = Lose({k})
  /\ IF sess[s].state \in {"alive", "lost"}
     THEN Arrive(s, {[from |-> f, query |-> None, copy |-> 1] : f \in senders})
     ELSE UNCHANGED sessionVars
  /\ UNCHANGED <<listenq, pending, old, current, count, loopVars,
                 asked, delivered, failed, broken>>

\* The control connection breaks (all but the last session's, a bound); what was
\* under way through it may not come back.
SessionLost(s) ==
  /\ s < MaxSessions /\ ControlLost(s)
  /\ lost' = Lose({k \in asked : <<k, s>> \in wire
                                    \/ \E d \in sess[s].inbox : d.query = k})
  /\ UNCHANGED <<forwarderVars, loopVars, asked, delivered, failed, broken>>

\* Ten seconds pass.
Age ==
  /\ old' = {i \in Ids : pending[i] # None} /\ old' # old
  /\ UNCHANGED <<sessionVars, listenq, pending, current, count, wire, loopVars, historyVars>>
-----------------------------------------------------------------------------
\* A change of pending_ while a response loop is between its find and its erase:
\* the map comes out of it intact or corrupt, and corrupt for sure when the entry
\* that loop holds has gone.
Reading == {l \in Loop : loop[l].pc = "found"}
Touch(readers, erased) ==
  broken' \in IF \E l \in readers : IdOf(loop[l].k) \in erased THEN {TRUE}
             ELSE IF readers # {} THEN BOOLEAN ELSE {FALSE}

note_query(k) == [pending EXCEPT ![IdOf(k)] = k]

\* The number of the session that replaces a dead one; one that was never
\* established gives its number up.
NextSession == IF sess[current].state = "made" THEN current ELSE current + 1

\* query_loop() takes a query, enters it in pending_ and looks at the session.
TakeQuery(k) ==
  /\ query.pc = "recv" /\ k \in listenq
  /\ listenq' = listenq \ {k}
  /\ pending' = note_query(k) /\ old' = old \ {IdOf(k)} /\ Touch(Reading, {})
  /\ lost' = Lose({pending[IdOf(k)]} \ {None, k})
  /\ \/ /\ is_alive(current)
        /\ query' = [pc |-> "send", k |-> k] /\ UNCHANGED <<sessionVars, current>>
     \/ /\ ~is_alive(current)
        /\ current' = NextSession
        /\ sess' = [Closed(sess, current) EXCEPT ![NextSession].state = "made"]
        /\ query' = [pc |-> "establish", k |-> k]
  /\ UNCHANGED <<count, wire, loop, asked, delivered, failed>>

\* Mutant: the loop of the first session is expected to go on.
Mut_respawned(l) == NoLoop
respawned(l) == Started

\* establish() blocks the worker it runs on, and the query loop with it.
Reconnected ==
  /\ query.pc = "establish" /\ establish(current)
  /\ loop' = [loop EXCEPT ![current] = respawned(current)]
  /\ query' = [query EXCEPT !.pc = "send"]
  /\ UNCHANGED <<forwarderVars, historyVars>>

ReconnectFailed ==
  /\ query.pc = "establish"
  /\ query' = [pc |-> "recv", k |-> None] /\ lost' = Lose({query.k})
  /\ UNCHANGED <<sessionVars, forwarderVars, loop, asked, delivered, failed, broken>>

expired == old

\* async_send_udp(); then count what was sent and, at every 32nd, clean up.
SendQuery(sent) ==
  LET n == IF sent THEN (count + 1) % CleanupEvery ELSE count
      gone == IF n = 0 THEN expired ELSE {}
  IN /\ query.pc = "send" /\ (sent => is_alive(current))
     /\ query' = [pc |-> "recv", k |-> None] /\ count' = n
     /\ wire' = IF sent THEN wire \cup {<<query.k, current>>} ELSE wire
     /\ pending' = [i \in Ids |-> IF i \in gone THEN None ELSE pending[i]]
     /\ old' = old \ gone
     /\ lost' = Lose({pending[i] : i \in gone \cap old}
                     \cup (IF sent THEN {} ELSE {query.k}))
     /\ Touch(IF n = 0 THEN Reading ELSE {}, gone)
     /\ UNCHANGED <<sessionVars, listenq, current, loop, asked, delivered, failed>>

\* An error of the listening socket other than a reset, such as a datagram longer
\* than the buffer, ends the query loop.
ListenError ==
  /\ failed = {} /\ "listen" \in RecvErrors /\ query.pc = "recv"
  /\ query' = [pc |-> "ended", k |-> None] /\ failed' = failed \cup {"listen"}
  /\ UNCHANGED <<sessionVars, forwarderVars, loop, asked, delivered, lost, broken>>
-----------------------------------------------------------------------------
\* response_loop(): the condition of its while, and the receive on whatever session
\* is current by then.
CheckSession(l) ==
  /\ loop[l].pc = "check"
  /\ loop' = [loop EXCEPT ![l] =
                IF is_alive(current) THEN [Started EXCEPT !.pc = "recv", !.s = current]
                ELSE [NoLoop EXCEPT !.pc = "ended"]]
  /\ UNCHANGED <<sessionVars, forwarderVars, query, historyVars>>

\* Mutant: a frame that does not decode ends the loop.
Mut_after_junk == [NoLoop EXCEPT !.pc = "ended"]
after_junk == Started

\* A datagram is received, decoded and looked up in pending_.
Receive(l, d) ==
  LET s == loop[l].s
  IN /\ loop[l].pc = "recv" /\ d \in sess[s].inbox /\ Taken(s, d)
     /\ loop' = [loop EXCEPT ![l] =
          IF ~accepted(d) THEN @
          ELSE IF d.query = None THEN after_junk
          ELSE IF pending[IdOf(d.query)] = None THEN Started
          ELSE [@ EXCEPT !.pc = "found", !.k = d.query, !.copy = d.copy,
                         !.to = pending[IdOf(d.query)]]]
     /\ lost' = IF d.query # None /\ loop'[l] = Started THEN Lose({d.query}) ELSE lost
     /\ UNCHANGED <<forwarderVars, query, asked, delivered, failed, broken>>

\* Mutant: the entry is erased only after the answer was sent.
Mut_consume(k) == pending
consume(k) == [pending EXCEPT ![IdOf(k)] = None]

EraseEntry(l) ==
  LET k == loop[l].k
  IN /\ loop[l].pc = "found"
     /\ pending' = consume(k) /\ old' = old \ {IdOf(k)}
     /\ Touch(Reading \ {l}, {IdOf(k)})
     /\ lost' = Lose({pending[IdOf(k)]} \ {k, None})
     /\ loop' = [loop EXCEPT ![l].pc = "reply"]
     /\ UNCHANGED <<sessionVars, listenq, current, query, count, wire, asked, delivered, failed>>

\* Mutant: the answer goes to the client of the query loop's last query.
Mut_receiver(l) == IF query.k = None THEN loop[l].to ELSE query.k
receiver(l) == loop[l].to

SendAnswer(l) ==
  /\ loop[l].pc = "reply"
  /\ delivered' = delivered \cup {<<loop[l].k, loop[l].copy, receiver(l)>>}
  /\ loop' = [loop EXCEPT ![l] = Started]
  /\ UNCHANGED <<sessionVars, forwarderVars, query, asked, lost, failed, broken>>

\* async_send_to throws, and the exception ends the coroutine.
ReplyError(l) ==
  /\ failed = {} /\ "reply" \in RecvErrors /\ loop[l].pc = "reply"
  /\ loop' = [loop EXCEPT ![l] = [NoLoop EXCEPT !.pc = "ended"]]
  /\ failed' = failed \cup {"reply"} /\ lost' = Lose({loop[l].k})
  /\ UNCHANGED <<sessionVars, forwarderVars, query, asked, delivered, broken>>

\* Any error of the data socket but a reset ends the loop, such as an answer longer
\* than the buffer; the session stays alive.
RecvError(l) ==
  /\ failed = {} /\ "session" \in RecvErrors /\ loop[l].pc = "recv" /\ is_alive(loop[l].s)
  /\ loop' = [loop EXCEPT ![l] = [NoLoop EXCEPT !.pc = "ended"]]
  /\ failed' = failed \cup {"session"}
  /\ UNCHANGED <<sessionVars, forwarderVars, query, asked, delivered, lost, broken>>

\* The session the loop was receiving on has been destroyed.
RecvAborted(l) ==
  /\ loop[l].pc = "recv" /\ sess[loop[l].s].state = "closed"
  /\ loop' = [loop EXCEPT ![l] = [NoLoop EXCEPT !.pc = "ended"]]
  /\ UNCHANGED <<sessionVars, forwarderVars, query, historyVars>>
-----------------------------------------------------------------------------
ResponseStep(l) ==
  \/ CheckSession(l) \/ EraseEntry(l) \/ SendAnswer(l) \/ RecvAborted(l)
  \/ \E d \in sess[loop[l].s].inbox : Receive(l, d)

QueryStep ==
  \/ \E k \in Queries : TakeQuery(k)
  \/ Reconnected \/ ReconnectFailed
  \/ \E sent \in BOOLEAN : SendQuery(sent)

NetworkStep ==
  \E k \in Queries, s \in Session :
    \/ \E n \in 1 .. Copies : (n = 1 \/ k \in Repeated) /\ Answer(k, s, 1 .. n)
    \/ \E senders \in {{}, {Relay}, {Stranger}} : LoseAnswer(k, s, senders)

Environment ==
  \/ \E k \in Queries : Ask(k)
  \/ \E s \in Session : SessionLost(s)
  \/ Age
  \/ ListenError \/ \E l \in Loop : ReplyError(l) \/ RecvError(l)

\* What happens after pending_ was corrupted is not modelled.
Next ==
  /\ ~broken
  /\ QueryStep \/ (\E l \in Loop : ResponseStep(l)) \/ NetworkStep \/ Environment

\* The workers run every coroutine that is ready, connecting ends one way or the
\* other, and a datagram under way arrives or is lost.
Spec ==
  /\ Init /\ [][Next]_vars
  /\ WF_vars(~broken /\ QueryStep) /\ WF_vars(~broken /\ NetworkStep)
  /\ \A l \in Loop : WF_vars(~broken /\ ResponseStep(l))
-----------------------------------------------------------------------------
\* An answer goes to a client that asked a question with that id, although entries
\* are overwritten, erased and expire while answers are under way.  (It need not be
\* the answer to that client's question: two clients may choose one id.)
OnlyToAskers ==
  \A d \in delivered : \E k \in asked :
    ClientOf(k) = ClientOf(d[3]) /\ IdOf(k) = IdOf(d[1])

\* No client gets more answers with an id than it asked questions with it, however
\* often the network repeats an answer and however many response loops there are.
NoMoreAnswersThanQuestions ==
  \A c \in {ClientOf(k) : k \in Queries}, i \in Ids :
    Cardinality({d \in delivered : ClientOf(d[3]) = c /\ IdOf(d[1]) = i})
      <= Cardinality({k \in asked : ClientOf(k) = c /\ IdOf(k) = i})

\* A live session has a response loop that reads from it or will, unless an error
\* ended one: after a reconnection the loop of the old session need not survive.
LiveSessionHasReader ==
  is_alive(current) /\ failed = {} =>
    \E l \in Loop : \/ loop[l].pc \in {"check", "found", "reply"}
                     \/ (loop[l].pc = "recv" /\ loop[l].s = current)

\* Every question is answered, unless the network, the proxy, a session that broke or
\* a colliding id cost the answer, an error ended a loop, or pending_ was corrupted.
Outstanding == {k \in asked \ lost : ~Answered(k)}
NoSilentLoss == []<>(Outstanding = {} \/ failed # {} \/ broken)
=============================================================================
