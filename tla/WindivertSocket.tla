--------------------------- MODULE WindivertSocket ---------------------------
(***************************************************************************)
(* core/windivert_socket.hpp on the strand: CONNECT events become exactly  *)
(* one published decision, CLOSE events clear the slot, and the clears the *)
(* relays post run between them.  A handler loads the slot word in one     *)
(* step and CASes it in another; a lost CAS loads again.  is_echo is the   *)
(* step that takes the event: only the strand writes the states it accepts,*)
(* so nothing is lost between its load and publish's.                      *)
(***************************************************************************)
EXTENDS SynParker

CONSTANT Verdict   \* Verdict[f]: what decide() says of flow f's process

ASSUME VerdictAssumption == Verdict \in [Flows -> {"proxied", "direct"}]

VARIABLES
  posted,       \* clear_if requests the relays posted to the strand
  spc,          \* strand: "idle", "pub_load", "pub_cas", "close_load",
                \* "close_cas", "clear_load", "clear_cas"
  sev,          \* event being handled
  sword         \* slot word the handler loaded

socketVars == <<posted, spc, sev, sword>>

ClearReq == [flow : Flows, ts : Nat]
StrandEvent == [kind : {"connect", "close", "echo", "clear"}, flow : Flows, ts : Nat]

NoEvent == [kind |-> "none", flow |-> None, ts |-> 0]

SocketTypeOK ==
  /\ posted \subseteq ClearReq
  /\ spc \in {"idle", "pub_load", "pub_cas", "close_load", "close_cas",
              "clear_load", "clear_cas"}
  /\ IF spc = "idle" THEN sev = NoEvent ELSE sev \in StrandEvent
  /\ sword \in Word

SocketInit ==
  /\ posted = {}
  /\ spc = "idle"
  /\ sev = NoEvent
  /\ sword = EMPTY_WORD

sport == PortOf[sev.flow]

\* decide(): PID 4, which owns every echo CONNECT, is never proxied.
decide(ev) == IF ev.kind = "echo" THEN "direct" ELSE Verdict[ev.flow]

\* The handler returns.
Return == spc' = "idle" /\ sev' = NoEvent /\ sword' = EMPTY_WORD

\* on_socket_event() takes the oldest event while the SOCKET handle is open.
TakeEvent ==
  /\ spc = "idle" /\ life = "up" /\ sockq # <<>>
  /\ sockq' = Tail(sockq)
  /\ UNCHANGED <<now, pauses, retransmits, phase, wire, syn_sent, netq,
                 trackerVars, parkerVars, posted, sword>>

OnConnect ==
  /\ TakeEvent /\ Head(sockq).kind \in {"connect", "echo"}
  /\ LET ev == Head(sockq)
     IN IF is_echo(PortOf[ev.flow], ev.ts, RemoteOf[ev.flow])
        THEN UNCHANGED <<spc, sev>>
        ELSE spc' = "pub_load" /\ sev' = ev

OnClose ==
  /\ TakeEvent /\ Head(sockq).kind = "close"
  /\ spc' = "close_load" /\ sev' = Head(sockq)

\* publish(): load, reject what the watchdog pinned, write the aux fields.
PublishLoad ==
  /\ spc = "pub_load"
  /\ IF late_rejected(sport, word[sport], sev.ts)
     THEN Return /\ UNCHANGED <<connect_ts, entry>>
     ELSE /\ spc' = "pub_cas" /\ sword' = word[sport] /\ sev' = sev
          /\ connect_ts' = [connect_ts EXCEPT ![sport] = sev.ts]
          /\ entry' = [entry EXCEPT ![sport] = RemoteOf[sev.flow]]
  /\ UNCHANGED <<kernelVars, word, pinned_ts, syn_seq, parkerVars, posted>>

\* Mutant: a request without a parked SYN.
Mut_handover_always(w, p, decision) == release(w, p, decision)

\* on_connect(): the SYN parked in the slot goes to the injector.
handover(w, p, decision) ==
  IF w.st = "pending" THEN release(w, p, decision) ELSE UNCHANGED queue_

\* publish() and on_connect()'s release of what was parked.
PublishCas ==
  /\ spc = "pub_cas"
  /\ IF CasWins(sport, sword)
     THEN /\ SetWord(sport, decided_word(decide(sev)))
          /\ handover(sword, sport, decide(sev))
          /\ Return
     ELSE spc' = "pub_load" /\ UNCHANGED <<word, queue_, sev, sword>>
  /\ UNCHANGED <<kernelVars, connect_ts, pinned_ts, entry, syn_seq, poolVars,
                 gen_mismatch, life, injectorVars, posted>>

CloseLoad ==
  /\ spc = "close_load"
  /\ IF close_ignored(sport, word[sport], sev.ts)
     THEN Return
     ELSE spc' = "close_cas" /\ sword' = word[sport] /\ sev' = sev
  /\ UNCHANGED <<kernelVars, trackerVars, parkerVars, posted>>

\* on_close(): a parked SYN is dropped and its entry goes back to the pool.
CloseCas ==
  /\ spc = "close_cas"
  /\ IF CasWins(sport, sword)
     THEN /\ SetWord(sport, EMPTY_WORD)
          /\ IF sword.st = "pending" THEN free(sword.idx) ELSE UNCHANGED <<in_use, gen>>
          /\ Return
     ELSE spc' = "close_load" /\ UNCHANGED <<word, in_use, gen, sev, sword>>
  /\ UNCHANGED <<kernelVars, connect_ts, pinned_ts, entry, syn_seq, park_qpc,
                 syn_kernel_ts, eflow, queue_, gen_mismatch, life, injectorVars, posted>>

\* The strand runs a clear_if a relay posted.
TakeClear(r) ==
  /\ spc = "idle" /\ r \in posted
  /\ posted' = posted \ {r}
  /\ spc' = "clear_load" /\ sev' = [kind |-> "clear", flow |-> r.flow, ts |-> r.ts]
  /\ UNCHANGED <<kernelVars, trackerVars, parkerVars, sword>>

ClearLoad ==
  /\ spc = "clear_load"
  /\ IF clear_ignored(sport, word[sport], sev.ts)
     THEN Return
     ELSE spc' = "clear_cas" /\ sword' = word[sport] /\ sev' = sev
  /\ UNCHANGED <<kernelVars, trackerVars, parkerVars, posted>>

ClearCas ==
  /\ spc = "clear_cas"
  /\ IF CasWins(sport, sword)
     THEN SetWord(sport, EMPTY_WORD) /\ Return
     ELSE spc' = "clear_load" /\ UNCHANGED <<word, sev, sword>>
  /\ UNCHANGED <<kernelVars, connect_ts, pinned_ts, entry, syn_seq, parkerVars, posted>>

StrandNext ==
  \/ OnConnect \/ OnClose
  \/ PublishLoad \/ PublishCas
  \/ CloseLoad \/ CloseCas
  \/ \E r \in posted : TakeClear(r)
  \/ ClearLoad \/ ClearCas
=============================================================================
