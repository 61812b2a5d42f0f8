----------------------- MODULE UdpInterceptionProofs -----------------------
(***************************************************************************)
(* The invariants of UdpInterception for every number of sockets, ports,   *)
(* rules, reloads, workers and sessions.  The proof has four layers, each  *)
(* an inductive invariant that the next one uses:                          *)
(*                                                                         *)
(*   PInv  the policy table and its readers: PolicyFresh;                  *)
(*   UInv  types, rule ids that are never reused, slots that hold what the *)
(*         strand wrote, and every datagram in one place: TypeOK,          *)
(*         RowKeepsItsRule, AnswersHeard;                                  *)
(*   OInv  who is busy with a port: DirectUntouched;                       *)
(*   FInv  what the session table says of a port: DestinationKept,         *)
(*         ReplyFromPeer.                                                  *)
(*                                                                         *)
(* PInv and UInv hold with ports reused at any moment (Lagging) and        *)
(* sockets that roam.  OInv needs ~Lagging and FInv that nobody roams as   *)
(* well: section 6 of the README says what the code does without them.     *)
(***************************************************************************)
EXTENDS UdpInterception, FiniteSetTheorems, TLAPS

\* A table that can be published.
Table == UNION {[0 .. n -> SUBSET Dsts] : n \in Nat}

\* The tables and their generation.
Tables ==
  /\ tables \in Seq(Table) /\ generation \in Nat
  /\ Len(tables) \in {generation + 1, generation + 2}

\* What the workers keep of them.
Readers ==
  /\ wtable \in [UWorkers -> Table] /\ wseen \in [UWorkers -> Nat]
  /\ \A w \in UWorkers : wseen[w] <= generation /\ wtable[w] = tables[wseen[w] + 1]

\* The workers and the generation they received their datagram under.
Judging ==
  /\ wpc \in [UWorkers -> {"recv", "copy", "evaluate", "refresh", "upsert", "reflect"}]
  /\ wgen \in [UWorkers -> Nat]
  /\ \A w \in UWorkers :
       /\ wgen[w] <= generation
       /\ wpc[w] \in {"evaluate", "upsert", "reflect"} => wseen[w] >= wgen[w]

PInv == Tables /\ Readers /\ Judging

\* What the strand builds of any configuration is a table.
LEMMA TableBuilt ==
  ASSUME NEW ids, NEW e \in Excludes
  PROVE  build_policy_table(ids, e) \in Table
<1> DEFINE rows(id) == {x \in ExcludeRules : ids[x] = id /\ id # 0 /\ e.rule[x] # Absent}
           n == Cardinality({r \in ExcludeRules : ids[r] # 0})
<1>1. n \in Nat
  BY PolicyAssumption, FS_Subset, FS_CardinalityType
<1>2. \A id : e.global \cup UNION {e.rule[r] : r \in rows(id)} \in SUBSET Dsts
  BY PolicyAssumption DEF Absent
<1>3. next_policy_id(ids) - 1 = n
  BY <1>1 DEF next_policy_id
<1>4. build_policy_table(ids, e) \in [0 .. n -> SUBSET Dsts]
  BY <1>2, <1>3 DEF build_policy_table
<1> QED
  BY <1>1, <1>4 DEF Table

\* The first table is the one of generation 0, and every worker has it.
LEMMA PInit == Init => PInv
<1> SUFFICES ASSUME Init PROVE PInv
  OBVIOUS
<1> USE DEF Init, PolicyInit
<1>1. tables = <<build_policy_table(policy_ids, InitialExcludes)>> /\ tables[1] \in Table
  BY TableBuilt, PolicyAssumption
<1>2. tables \in Seq(Table) /\ Len(tables) = 1
  BY <1>1
<1>3. Tables
  BY <1>2 DEF Tables
<1>4. Readers
  BY <1>1 DEF Readers
<1>5. Judging
  BY DEF Judging, NetworkInit
<1> QED
  BY <1>3, <1>4, <1>5 DEF PInv

\* A step that leaves the table, its readers and the workers' positions alone.
LEMMA PQuiet ==
  ASSUME PInv, UNCHANGED <<tables, generation, wtable, wseen, wpc, wgen>>
  PROVE  PInv'
BY DEF PInv, Tables, Readers, Judging

\* A reload appends a table while none is being published.
LEMMA PReload ==
  ASSUME PInv, NEW e \in Excludes, Reload(e), UNCHANGED workerVars
  PROVE  PInv'
<1> USE DEF Reload, SwapTable, StrandFree, PublisherLocked
<1> DEFINE t == build_policy_table(policy_ids', e)
<1>1. t \in Table /\ tables' = Append(tables, t) /\ UNCHANGED <<generation, wtable, wseen, wpc, wgen>>
  BY TableBuilt DEF workerVars, readerVars
<1>2. Len(tables) = generation + 1
  BY DEF PInv, Tables
<1>3. Tables'
  BY <1>1, <1>2 DEF PInv, Tables
<1>4. \A i \in 1 .. Len(tables) : tables'[i] = tables[i]
  BY <1>1 DEF PInv, Tables
<1>5. Readers'
  <2>1. \A w \in UWorkers : wseen[w] + 1 \in 1 .. Len(tables)
    BY <1>2 DEF PInv, Tables, Readers
  <2> QED
    BY <1>1, <1>4, <2>1 DEF PInv, Readers
<1>6. Judging'
  BY <1>1 DEF PInv, Judging
<1> QED
  BY <1>3, <1>5, <1>6 DEF PInv

\* The new generation comes out with the table it belongs to in place.
LEMMA PPublished ==
  ASSUME PInv, Published, UNCHANGED workerVars
  PROVE  PInv'
<1>1. generation' = generation + 1 /\ Len(tables) = generation + 2
  BY DEF Published, BumpGeneration, PublisherLocked, PInv, Tables
<1>2. UNCHANGED <<tables, wtable, wseen, wpc, wgen>>
  BY DEF Published, BumpGeneration, workerVars, readerVars
<1>3. Tables' /\ Readers' /\ Judging'
  BY <1>1, <1>2 DEF PInv, Tables, Readers, Judging
<1> QED
  BY <1>3 DEF PInv

\* Of the strand's steps only a reload and its end touch the table.
LEMMA PStrand ==
  ASSUME PInv, StrandStep
  PROVE  PInv'
<1>1. UNCHANGED workerVars
  BY DEF StrandStep
<1>2. CASE OnBind \/ OnConnect \/ OnClose \/ EndWrite
  BY <1>1, <1>2, PQuiet
     DEF OnBind, OnConnect, OnClose, EndWrite, TakeSocketEvent, policyVars, readerVars, workerVars
<1>3. ASSUME NEW e \in Excludes \ {excludes}, Reload(e) PROVE PInv'
  BY <1>1, <1>3, PReload
<1>4. CASE Published
  BY <1>1, <1>4, PPublished
<1> QED
  BY <1>2, <1>3, <1>4 DEF StrandStep, StrandNext

\* A worker judges only once it has seen the generation it found, or a later one.
LEMMA PWorker ==
  ASSUME PInv, NEW w \in UWorkers, WorkerStep(w)
  PROVE  PInv'
<1>1. UNCHANGED <<tables, generation>>
  BY DEF WorkerStep
<1>2. ASSUME NEW d \in InState("net"), Receive(w, d) PROVE PInv'
  <2>1. UNCHANGED <<wtable, wseen>>
    BY <1>2 DEF Receive, readerVars
  <2>2. CASE active[dport(d)]
    <3>1. wpc' = [wpc EXCEPT ![w] = "copy"] /\ wgen' = [wgen EXCEPT ![w] = generation]
      BY <1>2, <2>2 DEF Receive, GoTo
    <3> QED
      BY <1>1, <2>1, <3>1 DEF PInv, Tables, Readers, Judging
  <2>3. CASE ~active[dport(d)]
    BY <1>1, <1>2, <2>1, <2>3, PQuiet DEF Receive
  <2> QED
    BY <2>2, <2>3
<1>3. CASE CopyEntry(w)
  BY <1>1, <1>3 DEF CopyEntry, Current, readerVars, GoTo, PInv, Tables, Readers, Judging
<1>4. CASE Refresh(w)
  <2>1. Len(tables) = generation + 1
    BY <1>4 DEF Refresh, snapshot, PublisherLocked
  <2>2. tables[Len(tables)] \in Table
    BY <2>1 DEF PInv, Tables
  <2> QED
    BY <1>1, <1>4, <2>1, <2>2 DEF Refresh, snapshot, GoTo, PInv, Tables, Readers, Judging
<1>5. CASE Evaluate(w)
  <2>1. wpc[w] = "evaluate" /\ UNCHANGED <<wtable, wseen>>
    BY <1>5 DEF Evaluate, readerVars
  <2>2. \/ wpc' = [wpc EXCEPT ![w] = "recv"] /\ wgen' = [wgen EXCEPT ![w] = 0]
        \/ wpc' = [wpc EXCEPT ![w] = "upsert"] /\ wgen' = wgen
    BY <1>5 DEF Evaluate, PassOrReflect, GoTo
  <2>3. Tables' /\ Readers'
    BY <1>1, <2>1 DEF PInv, Tables, Readers
  <2>4. CASE wpc' = [wpc EXCEPT ![w] = "recv"] /\ wgen' = [wgen EXCEPT ![w] = 0]
    BY <1>1, <2>1, <2>3, <2>4 DEF PInv, Tables, Judging
  <2>5. CASE wpc' = [wpc EXCEPT ![w] = "upsert"] /\ wgen' = wgen
    BY <1>1, <2>1, <2>3, <2>5 DEF PInv, Tables, Judging
  <2> QED
    BY <2>2, <2>4, <2>5
<1>6. CASE SaveSession(w)
  BY <1>1, <1>6 DEF SaveSession, readerVars, GoTo, PInv, Tables, Readers, Judging
<1>7. CASE Reflect(w)
  BY <1>1, <1>7 DEF Reflect, PassOrReflect, readerVars, GoTo, PInv, Tables, Readers, Judging
<1> QED
  BY <1>2, <1>3, <1>4, <1>5, <1>6, <1>7 DEF WorkerStep, WorkerNext

\* The relay has nothing to do with the table.
LEMMA PRelay ==
  ASSUME PInv, RelayStep
  PROVE  PInv'
<1>1. UNCHANGED <<wpc, wgen>>
  BY DEF RelayStep, RelayNext, UpstreamReuse, UpstreamCreate, UpstreamDrop, TakeReflected,
         SweepIdle, ControlLost, PeerDone, Downstream, workerVars
<1> QED
  BY <1>1, PQuiet DEF RelayStep, policyVars

LEMMA PStep == PInv /\ [Next]_vars => PInv'
<1> SUFFICES ASSUME PInv, [Next]_vars PROVE PInv'
  OBVIOUS
<1>1. CASE AppStep
  BY <1>1, PQuiet DEF AppStep, policyVars, workerVars
<1>2. CASE UNCHANGED vars
  BY <1>2, PQuiet DEF vars, policyVars, workerVars
<1> QED
  BY <1>1, <1>2, PStrand, PWorker, PRelay DEF Next

\* PolicyFresh in every behaviour of the specification, for all values of the
\* constants: "a reader can never record a generation that does not match the table
\* it kept", and no datagram is judged by a table older than the generation that was
\* out when the worker received it.
THEOREM PolicyFreshCorrect == Spec => []PolicyFresh
<1>1. PInv => PolicyFresh
  BY DEF PInv, Readers, Judging, PolicyFresh
<1> QED
  BY <1>1, PInit, PStep, PTL DEF Spec

\* Ids are unique and count up from 1.
IdsOK(ids) ==
  /\ ids \in [ExcludeRules -> 0 .. Cardinality(ExcludeRules)]
  /\ \A r \in ExcludeRules : ids[r] < next_policy_id(ids)
  /\ \A r, s \in ExcludeRules : ids[r] = ids[s] /\ ids[r] # 0 => r = s

\* What the CHOOSE of assign_policy_ids asks for.
Assigned(new, ids, fresh) ==
  /\ \A r \in ExcludeRules \ fresh : new[r] = ids[r]
  /\ {new[r] : r \in fresh} =
       next_policy_id(ids) .. (next_policy_id(ids) + Cardinality(fresh) - 1)

\* The rules that have an id and those about to get one are together no more than
\* all rules.
LEMMA RulesCounted ==
  ASSUME NEW ids, NEW fresh \in SUBSET {r \in ExcludeRules : ids[r] = 0}
  PROVE  /\ IsFiniteSet(fresh) /\ Cardinality(fresh) \in Nat
         /\ next_policy_id(ids) \in Nat \ {0} /\ Cardinality(ExcludeRules) \in Nat
         /\ Cardinality({r \in ExcludeRules : ids[r] # 0} \cup fresh)
              = next_policy_id(ids) - 1 + Cardinality(fresh)
         /\ next_policy_id(ids) - 1 + Cardinality(fresh) <= Cardinality(ExcludeRules)
<1> DEFINE used == {r \in ExcludeRules : ids[r] # 0}
<1>1. IsFiniteSet(used) /\ Cardinality(used) \in Nat
  BY PolicyAssumption, FS_Subset, FS_CardinalityType
<1>2. IsFiniteSet(fresh) /\ Cardinality(fresh) \in Nat
  <2>1. fresh \in SUBSET ExcludeRules
    OBVIOUS
  <2> QED
    BY <2>1, PolicyAssumption, FS_Subset, FS_CardinalityType
<1>3. used \cap fresh = {}
  OBVIOUS
<1>4. Cardinality(used \cup fresh) = Cardinality(used) + Cardinality(fresh)
  BY <1>1, <1>2, <1>3, FS_Union, FS_EmptySet
<1>5. Cardinality(used \cup fresh) <= Cardinality(ExcludeRules) /\ Cardinality(ExcludeRules) \in Nat
  <2>1. used \cup fresh \in SUBSET ExcludeRules
    OBVIOUS
  <2> QED
    BY <2>1, PolicyAssumption, FS_Subset, FS_CardinalityType
<1>6. next_policy_id(ids) = Cardinality(used) + 1
  BY DEF next_policy_id
<1> QED
  BY <1>1, <1>2, <1>4, <1>5, <1>6

\* There is always a choice of new ids.
LEMMA IdsExist ==
  ASSUME NEW ids, IdsOK(ids), NEW fresh \in SUBSET {r \in ExcludeRules : ids[r] = 0}
  PROVE  \E new \in [ExcludeRules -> 0 .. Cardinality(ExcludeRules)] : Assigned(new, ids, fresh)
<1> DEFINE n == next_policy_id(ids)
           m == Cardinality(fresh)
           N == Cardinality(ExcludeRules)
<1>1. IsFiniteSet(fresh) /\ m \in Nat /\ n \in Nat \ {0} /\ N \in Nat /\ n - 1 + m <= N
  BY RulesCounted
<1>2. PICK g \in Bijection(1 .. m, fresh) : TRUE
  BY <1>1, FS_CardinalityType DEF ExistsBijection
<1> DEFINE place(r) == CHOOSE k \in 1 .. m : g[k] = r
           new == [r \in ExcludeRules |-> IF r \in fresh THEN n - 1 + place(r) ELSE ids[r]]
<1>3. \A r \in fresh : place(r) \in 1 .. m /\ g[place(r)] = r
  BY <1>2 DEF Bijection, Surjection
<1>4. \A k \in 1 .. m : g[k] \in fresh /\ place(g[k]) = k
  <2>1. \A k \in 1 .. m : g[k] \in fresh
    BY <1>2 DEF Bijection, Surjection
  <2>2. \A j, k \in 1 .. m : g[j] = g[k] => j = k
    BY <1>2 DEF Bijection, Injection, IsInjective
  <2> QED
    BY <2>1, <2>2, <1>3
<1> HIDE DEF place
<1>5. new \in [ExcludeRules -> 0 .. N]
  <2>1. \A r \in fresh : n - 1 + place(r) \in 0 .. N
    BY <1>1, <1>3
  <2> QED
    BY <2>1 DEF IdsOK
<1>6. \A r \in ExcludeRules \ fresh : new[r] = ids[r]
  OBVIOUS
<1>7. {new[r] : r \in fresh} = n .. (n + m - 1)
  <2>1. \A r \in fresh : new[r] \in n .. (n + m - 1)
    BY <1>1, <1>3
  <2>2. \A i \in n .. (n + m - 1) : \E r \in fresh : new[r] = i
    <3> TAKE i \in n .. (n + m - 1)
    <3>1. i - n + 1 \in 1 .. m
      BY <1>1
    <3>2. PICK k \in 1 .. m : k = i - n + 1
      BY <3>1
    <3>3. g[k] \in fresh /\ place(g[k]) = k
      BY <1>4
    <3>4. new[g[k]] = n - 1 + k
      BY <3>3
    <3>5. n - 1 + k = i
      BY <1>1, <3>2
    <3> QED
      BY <3>3, <3>4, <3>5
  <2> QED
    BY <2>1, <2>2
<1> QED
  BY <1>5, <1>6, <1>7 DEF Assigned

\* assign_policy_id(): a rule that gets an id gets one nobody has had, every
\* configured rule has one, and none loses its own.
LEMMA IdsNeverReused ==
  ASSUME NEW ids, IdsOK(ids), NEW e \in Excludes
  PROVE  /\ IdsOK(assign_policy_ids(ids, e))
         /\ \A r \in ExcludeRules :
              /\ ids[r] # 0 => assign_policy_ids(ids, e)[r] = ids[r]
              /\ e.rule[r] # Absent => assign_policy_ids(ids, e)[r] # 0
<1> DEFINE fresh == {r \in ExcludeRules : e.rule[r] # Absent /\ ids[r] = 0}
           used == {r \in ExcludeRules : ids[r] # 0}
           n == next_policy_id(ids)
           m == Cardinality(fresh)
           N == Cardinality(ExcludeRules)
           new == assign_policy_ids(ids, e)
<1>1. /\ IsFiniteSet(fresh) /\ m \in Nat /\ n \in Nat \ {0} /\ N \in Nat /\ n - 1 + m <= N
      /\ Cardinality(used \cup fresh) = n - 1 + m
  BY RulesCounted
<1>2. new \in [ExcludeRules -> 0 .. N] /\ Assigned(new, ids, fresh)
  <2>1. \E f \in [ExcludeRules -> 0 .. N] : Assigned(f, ids, fresh)
    BY IdsExist
  <2>2. new = CHOOSE f \in [ExcludeRules -> 0 .. N] : Assigned(f, ids, fresh)
    BY DEF assign_policy_ids, Assigned
  <2> HIDE DEF new, fresh
  <2> QED
    BY <2>1, <2>2
<1> HIDE DEF new
<1>3. \A r \in fresh : new[r] \in n .. (n + m - 1)
  BY <1>2 DEF Assigned
<1>4. \A r, s \in fresh : new[r] = new[s] => r = s
  <2> DEFINE f == [r \in fresh |-> new[r]]
             T == n .. (n + m - 1)
  <2>1. f \in Surjection(fresh, T)
    <3>1. \A i \in T : \E r \in fresh : new[r] = i
      BY <1>2 DEF Assigned
    <3> QED
      BY <1>3, <3>1 DEF Surjection
  <2>2. Cardinality(T) = m
    BY <1>1, FS_Interval
  <2> HIDE DEF f, T
  <2>3. f \in Injection(fresh, T)
    BY <1>1, <2>1, <2>2, FS_SurjSameCardinalityImpliesInj
  <2>4. \A r, s \in fresh : f[r] = f[s] => r = s
    BY <2>3 DEF Injection, IsInjective
  <2> QED
    BY <2>4 DEF f
<1>5. \A r \in ExcludeRules \ fresh : new[r] = ids[r]
  BY <1>2 DEF Assigned
<1>6. \A r \in ExcludeRules : ids[r] \in 0 .. (n - 1)
  BY <1>1 DEF IdsOK
<1>7. /\ fresh \subseteq ExcludeRules /\ used \subseteq ExcludeRules
      /\ \A r \in ExcludeRules : r \in used <=> ids[r] # 0
      /\ \A r \in ExcludeRules : r \in fresh <=> e.rule[r] # Absent /\ ids[r] = 0
  OBVIOUS
<1>8. next_policy_id(new) = Cardinality({r \in ExcludeRules : new[r] # 0}) + 1
  BY DEF next_policy_id
<1>9. \A r, s \in ExcludeRules : ids[r] = ids[s] /\ ids[r] # 0 => r = s
  BY DEF IdsOK
<1> HIDE DEF n, m, N, fresh, used
<1>10. \A r \in ExcludeRules : new[r] # 0 <=> r \in used \/ r \in fresh
  BY <1>1, <1>3, <1>5, <1>7
<1>11. next_policy_id(new) = n + m
  <2>1. {r \in ExcludeRules : new[r] # 0} = used \cup fresh
    BY <1>7, <1>10
  <2> QED
    BY <1>1, <1>8, <2>1
<1>12. \A r \in ExcludeRules : new[r] < n + m
  BY <1>1, <1>3, <1>5, <1>6, <1>7
<1>13. \A r, s \in ExcludeRules : new[r] = new[s] /\ new[r] # 0 => r = s
  <2>1. \A r \in fresh, s \in ExcludeRules \ fresh : new[r] # new[s]
    BY <1>1, <1>3, <1>5, <1>6
  <2>2. \A r, s \in ExcludeRules \ fresh : new[r] = new[s] /\ new[r] # 0 => r = s
    BY <1>5, <1>9
  <2> QED
    BY <1>4, <1>7, <2>1, <2>2
<1>14. IdsOK(new)
  BY <1>2, <1>11, <1>12, <1>13 DEF IdsOK, N
<1>15. \A r \in ExcludeRules : (ids[r] # 0 => new[r] = ids[r]) /\ (e.rule[r] # Absent => new[r] # 0)
  BY <1>5, <1>7, <1>10
<1> QED
  BY <1>14, <1>15 DEF new

\* The head and the tail of a queue.
LEMMA QueueFacts ==
  ASSUME NEW S, NEW q \in Seq(S), q # <<>>
  PROVE  /\ Head(q) \in S /\ Head(q) = q[1] /\ 1 \in DOMAIN q
         /\ Tail(q) \in Seq(S) /\ DOMAIN Tail(q) = 1 .. Len(q) - 1 /\ Len(q) \in Nat \ {0}
         /\ DOMAIN q = 1 .. Len(q)
         /\ \A i \in 1 .. Len(q) - 1 : Tail(q)[i] = q[i + 1] /\ i + 1 \in DOMAIN q
OBVIOUS

\* A sequence and one element more.
LEMMA AppendFacts ==
  ASSUME NEW S, NEW q \in Seq(S), NEW x \in S
  PROVE  /\ Append(q, x) \in Seq(S) /\ Len(Append(q, x)) = Len(q) + 1 /\ Len(q) \in Nat
         /\ DOMAIN Append(q, x) = 1 .. Len(q) + 1 /\ DOMAIN q = 1 .. Len(q)
         /\ Append(q, x)[Len(q) + 1] = x
         /\ \A i \in DOMAIN q : Append(q, x)[i] = q[i]
OBVIOUS

\* An entry whose rule, or hijack, had its socket proxied when it was written; the id
\* of its rule never changes again.
Proxied(u) ==
  RuleOf[u] = MANUAL \/ (RuleOf[u] \in ExcludeRules /\ policy_ids[RuleOf[u]] # 0)
Good(e) == e.sock \in Sockets /\ e.policy = policy_id_for(e.sock) /\ Proxied(e.sock)

\* The strand's configuration, ids and newest table agree.
Rows ==
  /\ excludes \in Excludes /\ IdsOK(policy_ids)
  /\ \A r \in ExcludeRules : excludes.rule[r] # Absent => policy_ids[r] # 0
  /\ tables[Len(tables)] = build_policy_table(policy_ids, excludes)
  /\ Len(tables) <= MaxReloads + 1

\* The slots, and the one the strand is writing.
Slots ==
  /\ active \in [UPorts -> BOOLEAN] /\ entry \in [UPorts -> UdpTrackerEntry]
  /\ writing \in {None} \cup [port : UPorts, new : UdpTrackerEntry, raise : BOOLEAN]
  /\ \A p \in UPorts : active[p] => Good(entry[p])
  /\ writing # None /\ writing.raise => Good(writing.new)
  /\ writing # None /\ ~writing.raise => ~active[writing.port]

\* The sockets, and the datagrams sent so far.
Stack ==
  /\ StackTypeOK /\ Len(dgrams) <= MaxDatagrams
  /\ \A d \in Datagram : fate[d] = "unsent" <=> d > Len(dgrams)

\* Every datagram is with one worker at most ...
Workers ==
  /\ wpc \in [UWorkers -> {"recv", "copy", "evaluate", "refresh", "upsert", "reflect"}]
  /\ wd \in [UWorkers -> 0 .. MaxDatagrams] /\ wte \in [UWorkers -> UdpTrackerEntry]
  /\ \A w \in UWorkers : wpc[w] # "recv" => wd[w] \in Datagram /\ fate[wd[w]] = "worker"
  /\ \A w, v \in UWorkers : wpc[w] # "recv" /\ wpc[v] # "recv" /\ wd[w] = wd[v] => w = v

\* ... and in the relay's queue once at most.
Reflected ==
  /\ relayq \in Seq(Datagram)
  /\ \A i \in DOMAIN relayq : fate[relayq[i]] = "relay"
  /\ \A i, j \in DOMAIN relayq : relayq[i] = relayq[j] => i = j

SessionTable == sessions \in [UPorts -> {None} \cup UdpSession]

\* What went out or came back went through a session that exists; AnswersHeard, which
\* is about the session a port uses, needs that session to exist.
Relay ==
  /\ RelayTypeOK /\ Len(socks) <= MaxSessions
  /\ \A p \in UPorts : current[p] \in 0 .. Len(socks)
  /\ \A d \in Datagram : fate[d] = "proxied" => via[d] \in DOMAIN socks /\ sent_to[d] \in Dsts
  /\ \A r \in replies : r[1] \in DOMAIN socks
  /\ AnswersHeard

UInv == PInv /\ Rows /\ Slots /\ Stack /\ Workers /\ Reflected /\ SessionTable /\ Relay

\* Nothing a component keeps is disturbed by what does not touch its variables.
LEMMA RowsKept ==
  ASSUME Rows, UNCHANGED <<excludes, policy_ids, tables>>
  PROVE  Rows'
BY DEF Rows, IdsOK, next_policy_id, build_policy_table

LEMMA SlotsKept ==
  ASSUME Slots, UNCHANGED <<policy_ids, trackerVars>>
  PROVE  Slots'
BY DEF Slots, trackerVars, Good, Proxied, policy_id_for

LEMMA WorkersKept ==
  ASSUME Workers, UNCHANGED <<wpc, wd, wte>>,
         \A d \in Datagram : fate[d] = "worker" => fate'[d] = "worker"
  PROVE  Workers'
BY DEF Workers

LEMMA ReflectedKept ==
  ASSUME Reflected, UNCHANGED relayq,
         \A d \in Datagram : fate[d] = "relay" => fate'[d] = "relay"
  PROVE  Reflected'
<1>1. \A i \in DOMAIN relayq : relayq[i] \in Datagram
  BY DEF Reflected
<1> QED
  BY <1>1 DEF Reflected

LEMMA RelayKept ==
  ASSUME Relay, UNCHANGED relayVars,
         \A d \in Datagram : fate'[d] = "proxied" => fate[d] = "proxied"
  PROVE  Relay'
<1>1. RelayTypeOK' /\ AnswersHeard'
  BY DEF Relay, RelayTypeOK, relayVars, AnswersHeard
<1> QED
  BY <1>1 DEF Relay, relayVars

\* A datagram that was sent moves on.
LEMMA StackMoves ==
  ASSUME Stack, NEW d \in Datagram, fate[d] # "unsent",
         NEW f \in {"worker", "direct", "relay", "proxied", "done", "lost"},
         fate' = [fate EXCEPT ![d] = f], UNCHANGED <<ustate, peer, usockq, dgrams>>
  PROVE  Stack'
BY DEF Stack, StackTypeOK

\* A datagram that moves on was neither with another worker, nor queued, nor out.
LEMMA OthersStay ==
  ASSUME Stack, NEW d \in Datagram, NEW f, fate' = [fate EXCEPT ![d] = f]
  PROVE  /\ fate[d] # "worker" => \A e \in Datagram : fate[e] = "worker" => fate'[e] = "worker"
         /\ fate[d] # "relay" => \A e \in Datagram : fate[e] = "relay" => fate'[e] = "relay"
         /\ f # "proxied" => \A e \in Datagram : fate'[e] = "proxied" => fate[e] = "proxied"
BY DEF Stack, StackTypeOK

LEMMA UInit == Init => UInv
<1> SUFFICES ASSUME Init PROVE UInv
  OBVIOUS
<1> USE DEF Init
<1>1. PInv
  BY PInit
<1>2. Rows
  <2> DEFINE none == [r \in ExcludeRules |-> 0]
  <2>1. IdsOK(none)
    <3>1. Cardinality({}) = 0 /\ {r \in ExcludeRules : none[r] # 0} = {}
      BY FS_EmptySet
    <3>2. Cardinality(ExcludeRules) \in Nat
      BY PolicyAssumption, FS_CardinalityType
    <3> QED
      BY <3>1, <3>2 DEF IdsOK, next_policy_id
  <2>2. excludes = InitialExcludes /\ policy_ids = assign_policy_ids(none, InitialExcludes)
    BY DEF PolicyInit
  <2>3. /\ excludes \in Excludes /\ IdsOK(policy_ids)
        /\ \A r \in ExcludeRules : excludes.rule[r] # Absent => policy_ids[r] # 0
    BY <2>1, <2>2, IdsNeverReused, PolicyAssumption
  <2>4. tables = <<build_policy_table(policy_ids, excludes)>>
    BY DEF PolicyInit
  <2>5. Len(tables) = 1 /\ tables[1] = build_policy_table(policy_ids, excludes)
    BY <2>4
  <2> QED
    BY <2>3, <2>5, PolicyAssumption DEF Rows
<1>3. EmptyEntry \in UdpTrackerEntry
  <2>1. Cardinality(ExcludeRules) \in Nat
    BY PolicyAssumption, FS_CardinalityType
  <2> QED
    BY <2>1, TrackerAssumption DEF EmptyEntry, UdpTrackerEntry, GLOBAL_ONLY_POLICY
<1>4. Slots
  BY <1>3 DEF TrackerInit, Slots
<1>5. Stack
  BY StackAssumption DEF StackInit, Stack, StackTypeOK, Datagram
<1>6. Workers /\ Reflected /\ SessionTable
  BY <1>3, StackAssumption DEF NetworkInit, Workers, Reflected, SessionTable
<1>7. Relay
  BY RelayAssumption, <1>5 DEF RelayInit, Relay, RelayTypeOK, AnswersHeard, StackInit
<1> QED
  BY <1>1, <1>2, <1>4, <1>5, <1>6, <1>7 DEF UInv

\* The applications change nothing of clew's; a datagram sent is a new one.
LEMMA UApp ==
  ASSUME UInv, AppStep
  PROVE  UInv'
<1>1. UNCHANGED <<policyVars, trackerVars, workerVars, relayVars>>
  BY DEF AppStep
<1>2. PInv' /\ Rows' /\ Slots' /\ SessionTable'
  BY <1>1, PQuiet, RowsKept, SlotsKept DEF UInv, policyVars, workerVars, SessionTable
<1>3. ASSUME NEW u \in Sockets, NEW ev \in {"BIND", "CONNECT", "CLOSE"},
             NEW dst \in Dsts \cup {None}, Event(ev, u, dst),
             ustate' \in [Sockets -> {"idle", "bound", "connected", "closed"}],
             peer' \in [Sockets -> Dsts \cup {None}], UNCHANGED <<dgrams, fate>>
      PROVE  Stack' /\ UNCHANGED fate
  <2>1. [ev |-> ev, sock |-> u, dst |-> dst] \in SocketEvent
    BY DEF SocketEvent
  <2>2. usockq' \in Seq(SocketEvent)
    BY <1>3, <2>1, AppendFacts DEF Event, UInv, Stack, StackTypeOK
  <2> QED
    BY <1>3, <2>2 DEF UInv, Stack, StackTypeOK
<1>4. ASSUME NEW u \in Sockets, AppBind(u) PROVE Stack' /\ UNCHANGED fate
  BY <1>3, <1>4 DEF AppBind, UInv, Stack, StackTypeOK
<1>5. ASSUME NEW u \in Sockets, AppUdpClose(u) PROVE Stack' /\ UNCHANGED fate
  BY <1>3, <1>5 DEF AppUdpClose, UInv, Stack, StackTypeOK
<1>6. ASSUME NEW u \in Sockets, NEW dst \in Dsts, AppUdpConnect(u, dst)
      PROVE  Stack' /\ UNCHANGED fate
  BY <1>3, <1>6 DEF AppUdpConnect, UInv, Stack, StackTypeOK
<1>7. ASSUME NEW u \in Sockets, NEW dst \in Dsts, AppSend(u, dst)
      PROVE  Stack' /\ \E d \in Datagram : fate[d] = "unsent" /\ fate' = [fate EXCEPT ![d] = "net"]
  <2>1. Len(dgrams) + 1 \in Datagram
    BY <1>7, StackAssumption DEF AppSend, UInv, Stack, StackTypeOK, Datagram
  <2>2. fate[Len(dgrams) + 1] = "unsent"
    BY <2>1 DEF UInv, Stack, StackTypeOK
  <2>3. /\ dgrams' \in Seq([sock : Sockets, dst : Dsts]) /\ Len(dgrams') = Len(dgrams) + 1
        /\ Len(dgrams) \in Nat
    BY <1>7, AppendFacts DEF AppSend, UInv, Stack, StackTypeOK
  <2>4. StackTypeOK'
    BY <1>7, <2>1, <2>3 DEF AppSend, UInv, Stack, StackTypeOK
  <2>5. \A d \in Datagram : fate'[d] = "unsent" <=> d > Len(dgrams')
    BY <1>7, <2>1, <2>3 DEF AppSend, UInv, Stack, StackTypeOK, Datagram
  <2>6. Len(dgrams') <= MaxDatagrams
    BY <1>7, <2>3, StackAssumption DEF AppSend
  <2> QED
    BY <1>7, <2>1, <2>2, <2>4, <2>5, <2>6 DEF AppSend, Stack
<1>8. Stack' /\ (UNCHANGED fate \/ \E d \in Datagram : fate[d] = "unsent" /\ fate' = [fate EXCEPT ![d] = "net"])
  BY <1>4, <1>5, <1>6, <1>7 DEF AppStep
<1>9. /\ \A e \in Datagram : fate[e] = "worker" => fate'[e] = "worker"
      /\ \A e \in Datagram : fate[e] = "relay" => fate'[e] = "relay"
      /\ \A e \in Datagram : fate'[e] = "proxied" => fate[e] = "proxied"
  BY <1>8, OthersStay DEF UInv
<1>10. Workers' /\ Reflected' /\ Relay'
  BY <1>1, <1>9, WorkersKept, ReflectedKept, RelayKept DEF UInv, workerVars
<1> QED
  BY <1>2, <1>8, <1>10 DEF UInv

\* What the strand writes for a socket it proxies.
LEMMA EntryGood ==
  ASSUME Rows, NEW u \in Sockets, should_proxy(u)
  PROVE  Good(tracker_entry(u)) /\ tracker_entry(u) \in UdpTrackerEntry
<1>1. Proxied(u)
  BY DEF should_proxy, Proxied, Rows
<1>2. policy_id_for(u) \in 0 .. Cardinality(ExcludeRules)
  <2>1. Cardinality(ExcludeRules) \in Nat
    BY PolicyAssumption, FS_CardinalityType
  <2> QED
    BY <2>1 DEF policy_id_for, GLOBAL_ONLY_POLICY, Rows, IdsOK
<1> QED
  BY <1>1, <1>2, VerdictAssumption DEF tracker_entry, Good, UdpTrackerEntry

LEMMA SlotsPut ==
  ASSUME Slots, Rows, NEW u \in Sockets, should_proxy(u), put(PortOf[u], tracker_entry(u)),
         UNCHANGED policy_ids
  PROVE  Slots'
<1>1. Good(tracker_entry(u)) /\ tracker_entry(u) \in UdpTrackerEntry
  BY EntryGood
<1> DEFINE w == [port |-> PortOf[u], new |-> tracker_entry(u), raise |-> TRUE]
<1>2. w \in [port : UPorts, new : UdpTrackerEntry, raise : BOOLEAN]
  BY <1>1, StackAssumption
<1>3. writing' = w /\ UNCHANGED <<active, entry>> /\ w.new = tracker_entry(u) /\ w.raise
  BY DEF put
<1> HIDE DEF w
<1>4. \A x : Good(x) => Good(x)'
  BY DEF Good, Proxied, policy_id_for
<1> QED
  BY <1>1, <1>2, <1>3, <1>4 DEF Slots

LEMMA SlotsClear ==
  ASSUME Slots, NEW p \in UPorts, clear(p), UNCHANGED policy_ids
  PROVE  Slots'
<1> DEFINE w == [port |-> p, new |-> EmptyEntry, raise |-> FALSE]
<1>1. EmptyEntry \in UdpTrackerEntry
  <2>1. Cardinality(ExcludeRules) \in Nat
    BY PolicyAssumption, FS_CardinalityType
  <2> QED
    BY <2>1, TrackerAssumption DEF EmptyEntry, UdpTrackerEntry, GLOBAL_ONLY_POLICY
<1>2. w \in [port : UPorts, new : UdpTrackerEntry, raise : BOOLEAN] /\ w.raise = FALSE /\ w.port = p
  BY <1>1
<1>3. writing' = w /\ active' = [active EXCEPT ![p] = FALSE] /\ UNCHANGED entry
  BY DEF clear
<1> HIDE DEF w
<1>4. \A x : Good(x) => Good(x)'
  BY DEF Good, Proxied, policy_id_for
<1>5. active' \in [UPorts -> BOOLEAN]
  BY <1>3 DEF Slots
<1>6. \A q \in UPorts : active'[q] => active[q]
  BY <1>3 DEF Slots
<1>7. \A q \in UPorts : active'[q] => Good(entry[q])'
  BY <1>3, <1>4, <1>6 DEF Slots
<1>8. ~writing'.raise /\ writing'.port = p /\ ~active'[p]
  BY <1>2, <1>3 DEF Slots
<1> QED
  BY <1>2, <1>3, <1>5, <1>7, <1>8 DEF Slots

LEMMA SlotsWritten ==
  ASSUME Slots, EndWrite
  PROVE  Slots'
<1> DEFINE p == writing.port
<1>1. /\ writing # None /\ writing' = None /\ UNCHANGED policy_ids
      /\ entry' = [entry EXCEPT ![p] = writing.new]
      /\ active' = [active EXCEPT ![p] = active[p] \/ writing.raise]
  BY DEF EndWrite, FinishWrite, policyVars
<1>2. p \in UPorts /\ writing.new \in UdpTrackerEntry /\ writing.raise \in BOOLEAN
  BY <1>1 DEF Slots
<1>3. entry' \in [UPorts -> UdpTrackerEntry] /\ active' \in [UPorts -> BOOLEAN]
  BY <1>1, <1>2 DEF Slots
<1>4. \A x : Good(x) => Good(x)'
  BY <1>1 DEF Good, Proxied, policy_id_for
<1>5. \A q \in UPorts : active'[q] => Good(entry'[q])
  <2> SUFFICES ASSUME NEW q \in UPorts, active'[q] PROVE Good(entry'[q])
    OBVIOUS
  <2>1. CASE q = p /\ writing.raise
    BY <1>1, <1>2, <2>1 DEF Slots
  <2>2. CASE q # p \/ ~writing.raise
    <3>1. active[q] /\ Good(entry[q])
      BY <1>1, <1>2, <2>2 DEF Slots
    <3>2. CASE q # p
      BY <1>1, <1>2, <3>1, <3>2 DEF Slots
    <3> QED
      BY <1>1, <2>2, <3>1, <3>2 DEF Slots
  <2> QED
    BY <2>1, <2>2
<1> QED
  BY <1>1, <1>3, <1>4, <1>5 DEF Slots

\* A rule that has an id keeps it: what was good stays good.
LEMMA SlotsReloaded ==
  ASSUME Slots, Rows, Tables, NEW e \in Excludes, Reload(e)
  PROVE  Slots' /\ Rows'
<1> DEFINE ids == assign_policy_ids(policy_ids, e)
<1>1. /\ UNCHANGED trackerVars /\ excludes' = e /\ policy_ids' = ids
      /\ tables' = Append(tables, build_policy_table(ids, e)) /\ Len(tables) <= MaxReloads
  BY DEF Reload, SwapTable
<1>2. /\ IdsOK(policy_ids) /\ IdsOK(ids)
      /\ \A r \in ExcludeRules : (policy_ids[r] # 0 => ids[r] = policy_ids[r]) /\ (e.rule[r] # Absent => ids[r] # 0)
  BY IdsNeverReused DEF Rows
<1> HIDE DEF ids
<1>3. \A x : Good(x) => Good(x)'
  <2> SUFFICES ASSUME NEW x, Good(x) PROVE Good(x)'
    OBVIOUS
  <2>1. MANUAL \notin ExcludeRules /\ x.sock \in Sockets
    BY VerdictAssumption DEF Good
  <2> QED
    BY <1>1, <1>2, <2>1 DEF Good, Proxied, policy_id_for
<1>4. Slots'
  BY <1>1, <1>3 DEF Slots, trackerVars
<1>5. Rows'
  <2>1. build_policy_table(ids, e) \in Table /\ tables \in Seq(Table)
    BY TableBuilt DEF Tables
  <2>2. tables'[Len(tables')] = build_policy_table(ids, e) /\ Len(tables') <= MaxReloads + 1
    BY <1>1, <2>1, AppendFacts, PolicyAssumption
  <2>3. IdsOK(policy_ids)'
    BY <1>1, <1>2 DEF IdsOK, next_policy_id
  <2>4. build_policy_table(ids, e) = build_policy_table(policy_ids, excludes)'
    BY <1>1 DEF build_policy_table, next_policy_id
  <2> QED
    BY <1>1, <1>2, <2>2, <2>3, <2>4 DEF Rows
<1> QED
  BY <1>4, <1>5

LEMMA UStrand ==
  ASSUME UInv, StrandStep
  PROVE  UInv'
<1>1. UNCHANGED <<workerVars, relayVars, ustate, peer, dgrams, fate>>
  BY DEF StrandStep, StrandNext, OnBind, OnConnect, OnClose, TakeSocketEvent, EndWrite, Reload, Published, stackVars
<1>2. PInv'
  BY PStrand DEF UInv
<1>3. Workers' /\ Reflected' /\ SessionTable' /\ Relay'
  BY <1>1, WorkersKept, ReflectedKept, RelayKept DEF UInv, workerVars, SessionTable
<1>4. ASSUME NEW ev, TakeSocketEvent(ev)
      PROVE  Stack' /\ Rows' /\ Head(usockq).sock \in Sockets /\ UNCHANGED policy_ids
  <2>1. usockq \in Seq(SocketEvent) /\ usockq # <<>> /\ usockq' = Tail(usockq)
    BY <1>4 DEF TakeSocketEvent, UInv, Stack, StackTypeOK
  <2>2. usockq' \in Seq(SocketEvent) /\ Head(usockq) \in SocketEvent
    BY <2>1, QueueFacts
  <2>3. Stack'
    BY <1>1, <2>2 DEF UInv, Stack, StackTypeOK
  <2>4. UNCHANGED policyVars
    BY <1>4 DEF TakeSocketEvent
  <2> QED
    BY <2>2, <2>3, <2>4, RowsKept DEF SocketEvent, policyVars, UInv
<1>5. CASE OnBind
  <2>1. Stack' /\ Rows' /\ Head(usockq).sock \in Sockets /\ UNCHANGED policy_ids
    BY <1>4, <1>5 DEF OnBind
  <2>2. Slots'
    BY <1>5, <2>1, SlotsPut, SlotsKept DEF OnBind, UInv
  <2> QED
    BY <1>2, <1>3, <2>1, <2>2 DEF UInv
<1>6. CASE OnConnect
  <2>1. Stack' /\ Rows' /\ Head(usockq).sock \in Sockets /\ UNCHANGED policy_ids
    BY <1>4, <1>6 DEF OnConnect
  <2>2. PortOf[Head(usockq).sock] \in UPorts
    BY <2>1, StackAssumption
  <2>3. Slots'
    BY <1>6, <2>1, <2>2, SlotsPut, SlotsKept, SlotsClear DEF OnConnect, UInv
  <2> QED
    BY <1>2, <1>3, <2>1, <2>3 DEF UInv
<1>7. CASE OnClose
  <2>1. Stack' /\ Rows' /\ Head(usockq).sock \in Sockets /\ UNCHANGED policy_ids
    BY <1>4, <1>7 DEF OnClose
  <2>2. Slots'
    BY <1>7, <2>1, SlotsClear, StackAssumption DEF OnClose, UInv
  <2> QED
    BY <1>2, <1>3, <2>1, <2>2 DEF UInv
<1>8. CASE EndWrite
  <2>1. Stack' /\ Rows'
    BY <1>8, RowsKept DEF EndWrite, stackVars, policyVars, UInv, Stack, StackTypeOK
  <2> QED
    BY <1>2, <1>3, <1>8, <2>1, SlotsWritten DEF UInv
<1>9. ASSUME NEW e \in Excludes, Reload(e) PROVE UInv'
  <2>1. Stack'
    BY <1>9 DEF Reload, stackVars, UInv, Stack, StackTypeOK
  <2> QED
    BY <1>2, <1>3, <1>9, <2>1, SlotsReloaded DEF UInv, PInv
<1>10. CASE Published
  <2>1. Stack' /\ Rows' /\ Slots'
    BY <1>10, RowsKept, SlotsKept
       DEF Published, BumpGeneration, stackVars, UInv, Stack, StackTypeOK
  <2> QED
    BY <1>2, <1>3, <2>1 DEF UInv
<1> QED
  BY <1>5, <1>6, <1>7, <1>8, <1>9, <1>10 DEF StrandStep, StrandNext

LEMMA ElementFacts ==
  ASSUME NEW S, NEW q \in Seq(S)
  PROVE  DOMAIN q = 1 .. Len(q) /\ Len(q) \in Nat /\ \A i \in DOMAIN q : q[i] \in S
OBVIOUS

\* A datagram that was sent is one of an existing socket, to an endpoint.
LEMMA SentDatagram ==
  ASSUME Stack, NEW d \in Datagram, fate[d] # "unsent"
  PROVE  /\ d \in DOMAIN dgrams /\ dgrams[d].sock \in Sockets /\ dgrams[d].dst \in Dsts
         /\ dport(d) \in UPorts
<1>1. d \in 1 .. Len(dgrams) /\ dgrams \in Seq([sock : Sockets, dst : Dsts])
  BY StackAssumption DEF Stack, StackTypeOK, Datagram
<1>2. dgrams[d] \in [sock : Sockets, dst : Dsts] /\ d \in DOMAIN dgrams
  BY <1>1, ElementFacts
<1> QED
  BY <1>1, <1>2, StackAssumption DEF dport

\* Whatever a copy mixes, it is an entry.
LEMMA CopyTyped ==
  ASSUME Slots, NEW p \in UPorts, NEW e \in copies(p)
  PROVE  e \in UdpTrackerEntry
<1>1. entry[p] \in UdpTrackerEntry
  BY DEF Slots
<1>2. CASE writing = None \/ writing.port # p
  BY <1>1, <1>2 DEF copies
<1>3. CASE ~(writing = None \/ writing.port # p)
  <2>1. writing.new \in UdpTrackerEntry
    BY <1>3 DEF Slots
  <2>2. e \in [group : {entry[p].group, writing.new.group}, sock : {entry[p].sock, writing.new.sock},
               policy : {entry[p].policy, writing.new.policy}]
    BY <1>3 DEF copies
  <2> QED
    BY <1>1, <2>1, <2>2 DEF UdpTrackerEntry
<1> QED
  BY <1>2, <1>3

\* The worker that is done with its datagram has none.
LEMMA WorkerDone ==
  ASSUME Stack, Workers, NEW w \in UWorkers, wpc[w] # "recv", NEW f \in {"direct", "relay"},
         PassOrReflect(w, f)
  PROVE  /\ Workers' /\ Stack' /\ fate' = [fate EXCEPT ![wd[w]] = f]
         /\ wd[w] \in Datagram /\ fate[wd[w]] = "worker" /\ UNCHANGED sessions
<1>1. /\ wpc' = [wpc EXCEPT ![w] = "recv"] /\ wd' = [wd EXCEPT ![w] = 0]
      /\ wte' = [wte EXCEPT ![w] = EmptyEntry] /\ fate' = [fate EXCEPT ![wd[w]] = f]
      /\ UNCHANGED <<ustate, peer, usockq, dgrams, sessions>>
  BY DEF PassOrReflect, GoTo
<1>2. wd[w] \in Datagram /\ fate[wd[w]] = "worker"
  BY DEF Workers
<1>3. Stack'
  BY <1>1, <1>2, StackMoves
<1>4. EmptyEntry \in UdpTrackerEntry
  <2>1. Cardinality(ExcludeRules) \in Nat
    BY PolicyAssumption, FS_CardinalityType
  <2> QED
    BY <2>1, TrackerAssumption DEF EmptyEntry, UdpTrackerEntry, GLOBAL_ONLY_POLICY
<1>5. /\ wpc' \in [UWorkers -> {"recv", "copy", "evaluate", "refresh", "upsert", "reflect"}]
      /\ wd' \in [UWorkers -> 0 .. MaxDatagrams] /\ wte' \in [UWorkers -> UdpTrackerEntry]
  BY <1>1, <1>4, StackAssumption DEF Workers
<1>6. \A v \in UWorkers : wpc'[v] # "recv" => v # w /\ wpc[v] # "recv" /\ wd'[v] = wd[v]
  BY <1>1 DEF Workers
<1>7. \A v \in UWorkers : wpc'[v] # "recv" => wd'[v] \in Datagram /\ fate'[wd'[v]] = "worker"
  BY <1>1, <1>2, <1>6 DEF Workers, Stack, StackTypeOK
<1>8. \A v, x \in UWorkers : wpc'[v] # "recv" /\ wpc'[x] # "recv" /\ wd'[v] = wd'[x] => v = x
  BY <1>6 DEF Workers
<1> QED
  BY <1>1, <1>2, <1>3, <1>5, <1>7, <1>8 DEF Workers

\* A worker that keeps its datagram goes on to another step.
LEMMA WorkerGoesOn ==
  ASSUME Workers, NEW w \in UWorkers, wpc[w] # "recv",
         NEW pc \in {"copy", "evaluate", "refresh", "upsert", "reflect"}, GoTo(w, pc),
         wte' \in [UWorkers -> UdpTrackerEntry], UNCHANGED <<wd, fate>>
  PROVE  Workers'
BY DEF Workers, GoTo

LEMMA UWorker ==
  ASSUME UInv, NEW w \in UWorkers, WorkerStep(w)
  PROVE  UInv'
<1> USE DEF UInv
<1>1. UNCHANGED <<excludes, policy_ids, tables, generation, trackerVars, relayVars>>
  BY DEF WorkerStep
<1>2. PInv' /\ Rows' /\ Slots'
  BY <1>1, PWorker, RowsKept, SlotsKept
<1>3. ASSUME UNCHANGED fate PROVE Relay' /\ (UNCHANGED relayq => Reflected')
  BY <1>1, <1>3, RelayKept, ReflectedKept
<1>4. ASSUME NEW d \in InState("net"), Receive(w, d) PROVE UInv'
  <2>1. /\ d \in Datagram /\ fate[d] = "net" /\ UNCHANGED <<ustate, peer, usockq, dgrams, sessions, relayq, wte>>
        /\ wpc[w] = "recv"
    BY <1>4 DEF Receive, InState
  <2>2. PICK f \in {"worker", "direct"} : fate' = [fate EXCEPT ![d] = f]
    BY <1>4 DEF Receive
  <2>3. Stack' /\ Reflected' /\ Relay' /\ SessionTable'
    BY <1>1, <2>1, <2>2, StackMoves, OthersStay, RelayKept, ReflectedKept DEF SessionTable
  <2>4. CASE active[dport(d)]
    <3>1. /\ wpc' = [wpc EXCEPT ![w] = "copy"] /\ wd' = [wd EXCEPT ![w] = d]
          /\ fate' = [fate EXCEPT ![d] = "worker"]
      BY <1>4, <2>4 DEF Receive, GoTo
    <3>2. /\ wpc' \in [UWorkers -> {"recv", "copy", "evaluate", "refresh", "upsert", "reflect"}]
          /\ wd' \in [UWorkers -> 0 .. MaxDatagrams] /\ wte' \in [UWorkers -> UdpTrackerEntry]
      BY <2>1, <3>1, StackAssumption DEF Workers, Datagram
    <3>3. \A v \in UWorkers \ {w} : wpc'[v] = wpc[v] /\ wd'[v] = wd[v] /\ (wpc[v] # "recv" => wd[v] # d)
      BY <2>1, <3>1 DEF Workers
    <3>4. \A v \in UWorkers : wpc'[v] # "recv" => wd'[v] \in Datagram /\ fate'[wd'[v]] = "worker"
      BY <2>1, <3>1, <3>3 DEF Workers, Stack, StackTypeOK
    <3>5. wd'[w] = d
      BY <3>1 DEF Workers
    <3>6. \A v, x \in UWorkers : wpc'[v] # "recv" /\ wpc'[x] # "recv" /\ wd'[v] = wd'[x] => v = x
      BY <3>3, <3>5 DEF Workers
    <3> QED
      BY <1>2, <2>3, <3>2, <3>4, <3>6 DEF Workers
  <2>5. CASE ~active[dport(d)]
    <3>1. UNCHANGED <<wpc, wd>>
      BY <1>4, <2>5 DEF Receive
    <3> QED
      BY <1>2, <2>1, <2>2, <2>3, <3>1, OthersStay, WorkersKept
  <2> QED
    BY <2>4, <2>5
<1>5. ASSUME wpc[w] # "recv", NEW pc \in {"copy", "evaluate", "refresh", "upsert", "reflect"},
             GoTo(w, pc), wte' \in [UWorkers -> UdpTrackerEntry],
             UNCHANGED <<stackVars, wd, relayq>>, SessionTable'
      PROVE  UInv'
  <2>1. Stack' /\ UNCHANGED fate
    BY <1>5 DEF stackVars, Stack, StackTypeOK
  <2> QED
    BY <1>2, <1>3, <1>5, <2>1, WorkerGoesOn
<1>6. ASSUME wpc[w] # "recv" PROVE sent_from(w) \in UPorts /\ dgrams[wd[w]].dst \in Dsts
  <2>1. wd[w] \in Datagram /\ fate[wd[w]] # "unsent"
    BY <1>6 DEF Workers
  <2> QED
    BY <2>1, SentDatagram DEF sent_from
<1>7. CASE CopyEntry(w)
  <2>1. /\ wpc[w] # "recv" /\ UNCHANGED <<stackVars, wd, sessions, relayq>>
        /\ GoTo(w, "evaluate") \/ GoTo(w, "refresh")
    BY <1>7 DEF CopyEntry
  <2>2. PICK e \in copies(sent_from(w)) : wte' = [wte EXCEPT ![w] = e]
    BY <1>7 DEF CopyEntry
  <2>3. wte' \in [UWorkers -> UdpTrackerEntry]
    BY <1>6, <2>1, <2>2, CopyTyped DEF Workers
  <2>4. SessionTable'
    BY <2>1 DEF SessionTable
  <2> QED
    BY <1>5, <2>1, <2>3, <2>4
<1>8. CASE Refresh(w)
  BY <1>5, <1>8 DEF Refresh, SessionTable, Workers
<1>9. CASE Evaluate(w)
  <2>1. CASE PassOrReflect(w, "direct")
    <3>1. wpc[w] # "recv" /\ UNCHANGED relayq
      BY <1>9 DEF Evaluate
    <3>2. /\ Workers' /\ Stack' /\ fate' = [fate EXCEPT ![wd[w]] = "direct"]
          /\ wd[w] \in Datagram /\ fate[wd[w]] = "worker" /\ UNCHANGED sessions
      BY <2>1, <3>1, WorkerDone
    <3>3. Reflected' /\ Relay' /\ SessionTable'
      BY <1>1, <3>1, <3>2, OthersStay, RelayKept, ReflectedKept DEF SessionTable
    <3> QED
      BY <1>2, <3>2, <3>3
  <2>2. CASE GoTo(w, "upsert") /\ UNCHANGED <<stackVars, wd, wte, wgen, sessions>>
    BY <1>5, <1>9, <2>2 DEF Evaluate, SessionTable, Workers
  <2> QED
    BY <1>9, <2>1, <2>2 DEF Evaluate
<1>10. CASE SaveSession(w)
  <2> DEFINE s == [dst |-> dgrams[wd[w]].dst, group |-> wte[w].group, sock |-> wte[w].sock]
  <2>1. /\ wpc[w] # "recv" /\ UNCHANGED <<stackVars, wd, wte, relayq>> /\ GoTo(w, "reflect")
        /\ sessions' = [sessions EXCEPT ![sent_from(w)] = s]
    BY <1>10 DEF SaveSession, upsert
  <2>2. s \in UdpSession
    BY <1>6, <2>1 DEF UdpSession, Workers, UdpTrackerEntry
  <2> HIDE DEF s
  <2>3. SessionTable'
    BY <2>1, <2>2 DEF SessionTable
  <2> QED
    BY <1>5, <2>1, <2>3 DEF Workers
<1>11. CASE Reflect(w)
  <2>1. wpc[w] # "recv" /\ relayq' = Append(relayq, wd[w])
    BY <1>11 DEF Reflect
  <2>2. /\ Workers' /\ Stack' /\ fate' = [fate EXCEPT ![wd[w]] = "relay"]
        /\ wd[w] \in Datagram /\ fate[wd[w]] = "worker" /\ UNCHANGED sessions
    BY <1>11, <2>1, WorkerDone DEF Reflect
  <2>3. Relay' /\ SessionTable'
    BY <1>1, <2>2, OthersStay, RelayKept DEF SessionTable
  <2>4. Reflected'
    <3>1. /\ relayq' \in Seq(Datagram) /\ DOMAIN relayq' = 1 .. Len(relayq) + 1
          /\ DOMAIN relayq = 1 .. Len(relayq) /\ Len(relayq) \in Nat
          /\ relayq'[Len(relayq) + 1] = wd[w] /\ \A i \in DOMAIN relayq : relayq'[i] = relayq[i]
      BY <2>1, <2>2, AppendFacts DEF Reflected
    <3>2. \A i \in DOMAIN relayq : relayq[i] # wd[w] /\ relayq[i] \in Datagram
      BY <2>2 DEF Reflected
    <3>3. \A i \in DOMAIN relayq' : fate'[relayq'[i]] = "relay"
      <4>1. \A e \in Datagram : fate'[e] = IF e = wd[w] THEN "relay" ELSE fate[e]
        BY <2>2 DEF Stack, StackTypeOK
      <4> QED
        BY <2>2, <3>1, <3>2, <4>1 DEF Reflected
    <3>4. \A i, j \in DOMAIN relayq' : relayq'[i] = relayq'[j] => i = j
      BY <3>1, <3>2 DEF Reflected
    <3> QED
      BY <3>1, <3>3, <3>4 DEF Reflected
  <2> QED
    BY <1>2, <2>2, <2>3, <2>4
<1> QED
  BY <1>4, <1>7, <1>8, <1>9, <1>10, <1>11 DEF WorkerStep, WorkerNext

\* Of the sessions of a port only the one it uses is alive, and that one is read.
LEMMA RelaySpawns ==
  ASSUME Relay, NEW p \in UPorts, NEW g \in UGroups, ~live(p), Len(socks) < MaxSessions,
         socks' = Append(socks, [port |-> p, group |-> g, alive |-> TRUE, reader |-> reader(p)]),
         current' = [current EXCEPT ![p] = Len(socks')]
  PROVE  /\ socks' \in Seq([port : UPorts, group : UGroups, alive : BOOLEAN, reader : BOOLEAN])
         /\ Len(socks') \in 1 .. MaxSessions /\ DOMAIN socks \subseteq DOMAIN socks'
         /\ Len(socks') \in DOMAIN socks'
         /\ current' \in [UPorts -> 0 .. MaxSessions]
         /\ \A q \in UPorts : current'[q] \in 0 .. Len(socks')
         /\ AnswersHeard'
<1> DEFINE S == [port : UPorts, group : UGroups, alive : BOOLEAN, reader : BOOLEAN]
           s == [port |-> p, group |-> g, alive |-> TRUE, reader |-> reader(p)]
           n == Len(socks) + 1
<1>1. s \in S /\ s.port = p /\ s.reader
  BY DEF reader
<1>2. socks \in Seq(S) /\ socks' = Append(socks, s)
  BY DEF Relay, RelayTypeOK
<1> HIDE DEF s
<1>3. /\ socks' \in Seq(S) /\ Len(socks') = n /\ Len(socks) \in Nat
      /\ DOMAIN socks' = 1 .. n /\ DOMAIN socks = 1 .. Len(socks)
      /\ socks'[n] = s /\ \A i \in DOMAIN socks : socks'[i] = socks[i]
  BY <1>1, <1>2, AppendFacts
<1>4. n \in 1 .. MaxSessions
  BY <1>3, RelayAssumption
<1>5. current' = [current EXCEPT ![p] = n] /\ current \in [UPorts -> 0 .. MaxSessions]
  BY <1>3 DEF Relay, RelayTypeOK
<1>6. \A q \in UPorts : current'[q] \in 0 .. n
  BY <1>3, <1>5 DEF Relay
<1>7. \A i \in DOMAIN socks : socks[i].port \in UPorts /\ (socks[i].alive => socks[i].port # p)
  <2> TAKE i \in DOMAIN socks
  <2>1. socks[i] \in S
    BY <1>2, ElementFacts
  <2>2. socks[i].alive => current[socks[i].port] = i /\ i # 0
    BY <1>3 DEF Relay, AnswersHeard
  <2> QED
    BY <2>1, <2>2 DEF live
<1>8. AnswersHeard'
  <2> SUFFICES ASSUME NEW i \in 1 .. n, socks'[i].alive
               PROVE  current'[socks'[i].port] = i /\ socks'[i].reader
    BY <1>3 DEF AnswersHeard
  <2>1. CASE i = n
    BY <1>1, <1>3, <1>5, <2>1
  <2>2. CASE i # n
    <3>1. i \in DOMAIN socks /\ socks'[i] = socks[i]
      BY <1>3, <2>2
    <3>2. current[socks[i].port] = i /\ socks[i].reader /\ socks[i].port # p /\ socks[i].port \in UPorts
      BY <1>7, <3>1 DEF Relay, AnswersHeard
    <3> QED
      BY <1>5, <3>1, <3>2
  <2> QED
    BY <2>1, <2>2
<1> QED
  BY <1>3, <1>4, <1>5, <1>6, <1>8

\* The datagram at the head of the relay's queue goes through session i, or is lost.
LEMMA TakenOff ==
  ASSUME UInv, NEW f \in {"proxied", "lost"}, TakeReflected(f)
  PROVE  /\ Stack' /\ Workers' /\ Reflected'
         /\ Head(relayq) \in Datagram /\ fate[Head(relayq)] = "relay" /\ UNCHANGED dgrams
         /\ fate' = [fate EXCEPT ![Head(relayq)] = f] /\ UNCHANGED <<replies, answers, sessions>>
<1> DEFINE d == Head(relayq)
<1>1. /\ relayq # <<>> /\ relayq' = Tail(relayq) /\ fate' = [fate EXCEPT ![d] = f]
      /\ UNCHANGED <<ustate, peer, usockq, dgrams, wpc, wd, wte, sessions, replies, answers>>
  BY DEF TakeReflected
<1>2. relayq \in Seq(Datagram)
  BY DEF UInv, Reflected
<1>3. /\ d \in Datagram /\ d = relayq[1] /\ 1 \in DOMAIN relayq
      /\ Tail(relayq) \in Seq(Datagram) /\ DOMAIN Tail(relayq) = 1 .. Len(relayq) - 1
      /\ Len(relayq) \in Nat \ {0}
      /\ \A i \in 1 .. Len(relayq) - 1 : Tail(relayq)[i] = relayq[i + 1] /\ i + 1 \in DOMAIN relayq
  BY <1>1, <1>2, QueueFacts
<1>4. fate[d] = "relay"
  BY <1>3 DEF UInv, Reflected
<1> HIDE DEF d
<1>5. Stack' /\ Workers'
  BY <1>1, <1>3, <1>4, StackMoves, OthersStay, WorkersKept DEF UInv
<1>6. \A i \in 1 .. Len(relayq) - 1 : relayq[i + 1] # d /\ relayq[i + 1] \in Datagram
  BY <1>2, <1>3 DEF UInv, Reflected
<1>7. \A i \in DOMAIN relayq' : fate'[relayq'[i]] = "relay"
  <2>1. \A e \in Datagram : e # d => fate'[e] = fate[e]
    BY <1>1 DEF UInv, Stack, StackTypeOK
  <2>2. \A i \in DOMAIN relayq : fate[relayq[i]] = "relay"
    BY DEF UInv, Reflected
  <2> QED
    BY <1>1, <1>3, <1>6, <2>1, <2>2
<1>8. \A i, j \in DOMAIN relayq' : relayq'[i] = relayq'[j] => i = j
  <2> SUFFICES ASSUME NEW i \in 1 .. Len(relayq) - 1, NEW j \in 1 .. Len(relayq) - 1
               PROVE  relayq'[i] = relayq'[j] => i = j
    BY <1>1, <1>3
  <2>1. relayq'[i] = relayq[i + 1] /\ relayq'[j] = relayq[j + 1]
    BY <1>1, <1>3
  <2>2. relayq[i + 1] = relayq[j + 1] => i + 1 = j + 1
    BY <1>3 DEF UInv, Reflected
  <2> QED
    BY <1>3, <2>1, <2>2
<1>9. Reflected'
  BY <1>1, <1>3, <1>7, <1>8 DEF Reflected
<1> QED
  BY <1>1, <1>3, <1>4, <1>5, <1>9 DEF d

\* Its frame has the destination of the port's entry in the session table.
LEMMA Encoded ==
  ASSUME UInv, TakeReflected("proxied"), NEW i \in Nat, Encode(i),
         sessions[dport(Head(relayq))] # None,
         socks' \in Seq([port : UPorts, group : UGroups, alive : BOOLEAN, reader : BOOLEAN]),
         Len(socks') <= MaxSessions, DOMAIN socks \subseteq DOMAIN socks', i \in DOMAIN socks',
         current' \in [UPorts -> 0 .. MaxSessions],
         \A q \in UPorts : current'[q] \in 0 .. Len(socks'), AnswersHeard'
  PROVE  Relay'
<1> DEFINE d == Head(relayq)
<1>1. /\ d \in Datagram /\ fate[d] = "relay" /\ fate' = [fate EXCEPT ![d] = "proxied"]
      /\ UNCHANGED <<replies, answers>>
  BY TakenOff
<1>2. sessions[dport(d)].dst \in Dsts
  <2>1. dport(d) \in UPorts
    BY <1>1, SentDatagram DEF UInv
  <2> QED
    BY <2>1 DEF UInv, SessionTable, UdpSession
<1>3. via' = [via EXCEPT ![d] = i] /\ sent_to' = [sent_to EXCEPT ![d] = sessions[dport(d)].dst]
  BY DEF Encode
<1>4. i \in 1 .. MaxSessions
  <2>1. DOMAIN socks' = 1 .. Len(socks') /\ Len(socks') \in Nat
    OBVIOUS
  <2> QED
    BY <2>1, RelayAssumption
<1> HIDE DEF d
<1>5. via' \in [Datagram -> 0 .. MaxSessions] /\ sent_to' \in [Datagram -> Dsts \cup {None}]
  <2>1. via \in [Datagram -> 0 .. MaxSessions] /\ sent_to \in [Datagram -> Dsts \cup {None}]
    BY DEF UInv, Relay, RelayTypeOK
  <2>2. i \in 0 .. MaxSessions
    BY <1>4, RelayAssumption
  <2>3. via' \in [Datagram -> 0 .. MaxSessions]
    BY <1>3, <2>1, <2>2
  <2> QED
    BY <1>2, <1>3, <2>1, <2>3
<1>6. RelayTypeOK'
  BY <1>1, <1>5 DEF UInv, Relay, RelayTypeOK
<1>7. \A e \in Datagram : fate'[e] = "proxied" => via'[e] \in DOMAIN socks' /\ sent_to'[e] \in Dsts
  BY <1>1, <1>2, <1>3 DEF UInv, Relay, RelayTypeOK, Stack, StackTypeOK
<1>8. \A r \in replies' : r[1] \in DOMAIN socks'
  BY <1>1 DEF UInv, Relay
<1> QED
  BY <1>6, <1>7, <1>8 DEF Relay

\* A session stays where it is, and is read as long as it is alive.
LEMMA RelaySettles ==
  ASSUME Relay, NEW i \in DOMAIN socks, NEW s,
         s \in [port : UPorts, group : UGroups, alive : BOOLEAN, reader : BOOLEAN],
         s.port = socks[i].port, s.alive => socks[i].alive /\ s.reader,
         socks' = [socks EXCEPT ![i] = s], UNCHANGED <<current, via, sent_to, fate>>,
         replies' \subseteq replies, answers' \subseteq Dsts \X Dsts
  PROVE  Relay'
<1> DEFINE S == [port : UPorts, group : UGroups, alive : BOOLEAN, reader : BOOLEAN]
<1>1. socks \in Seq(S)
  BY DEF Relay, RelayTypeOK
<1>2. /\ socks' \in Seq(S) /\ Len(socks') = Len(socks) /\ DOMAIN socks' = DOMAIN socks
      /\ \A j \in DOMAIN socks : socks'[j] = IF j = i THEN s ELSE socks[j]
  BY <1>1
<1> HIDE DEF S
<1>3. AnswersHeard'
  BY <1>2 DEF AnswersHeard, Relay
<1>4. RelayTypeOK'
  BY <1>2 DEF Relay, RelayTypeOK, S
<1> QED
  BY <1>2, <1>3, <1>4 DEF Relay

LEMMA URelay ==
  ASSUME UInv, RelayStep
  PROVE  UInv'
<1> DEFINE S == [port : UPorts, group : UGroups, alive : BOOLEAN, reader : BOOLEAN]
<1>1. UNCHANGED <<policyVars, trackerVars>>
  BY DEF RelayStep
<1>2. PInv' /\ Rows' /\ Slots'
  BY <1>1, PRelay, RowsKept, SlotsKept DEF UInv, policyVars
<1>3. CASE UpstreamReuse
  <2> DEFINE p == dport(Head(relayq))
  <2>1. /\ TakeReflected("proxied") /\ sessions[p] # None /\ live(p) /\ Encode(current[p])
        /\ UNCHANGED <<socks, current>>
    BY <1>3 DEF UpstreamReuse
  <2>2. /\ Stack' /\ Workers' /\ Reflected' /\ UNCHANGED sessions
        /\ Head(relayq) \in Datagram /\ fate[Head(relayq)] = "relay"
    BY <2>1, TakenOff
  <2>3. p \in UPorts
    BY <2>2, SentDatagram DEF UInv
  <2>4. current[p] \in Nat /\ current[p] \in DOMAIN socks
    BY <2>1, <2>3 DEF UInv, Relay, RelayTypeOK, live
  <2>5. AnswersHeard' /\ socks' \in Seq(S) /\ Len(socks') <= MaxSessions
        /\ current' \in [UPorts -> 0 .. MaxSessions] /\ \A q \in UPorts : current'[q] \in 0 .. Len(socks')
    BY <2>1 DEF UInv, Relay, RelayTypeOK, AnswersHeard
  <2>6. Relay'
    BY <2>1, <2>4, <2>5, Encoded
  <2> QED
    BY <1>2, <2>2, <2>6 DEF UInv, SessionTable
<1>4. CASE UpstreamCreate
  <2> DEFINE p == dport(Head(relayq))
  <2>1. /\ TakeReflected("proxied") /\ sessions[p] # None /\ ~live(p) /\ Len(socks) < MaxSessions
        /\ socks' = Append(socks, [port |-> p, group |-> sessions[p].group,
                                   alive |-> TRUE, reader |-> reader(p)])
        /\ current' = [current EXCEPT ![p] = Len(socks')]
        /\ Encode(Len(socks'))
    BY <1>4 DEF UpstreamCreate
  <2>2. /\ Stack' /\ Workers' /\ Reflected' /\ UNCHANGED sessions
        /\ Head(relayq) \in Datagram /\ fate[Head(relayq)] = "relay"
    BY <2>1, TakenOff
  <2>3. p \in UPorts /\ sessions[p].group \in UGroups
    <3>1. p \in UPorts
      BY <2>2, SentDatagram DEF UInv
    <3> QED
      BY <2>1, <3>1 DEF UInv, SessionTable, UdpSession
  <2> HIDE DEF p
  <2>4. /\ socks' \in Seq(S) /\ Len(socks') \in 1 .. MaxSessions /\ DOMAIN socks \subseteq DOMAIN socks'
        /\ Len(socks') \in DOMAIN socks' /\ current' \in [UPorts -> 0 .. MaxSessions]
        /\ \A q \in UPorts : current'[q] \in 0 .. Len(socks')
        /\ AnswersHeard'
    BY <2>1, <2>3, RelaySpawns DEF UInv
  <2>5. Len(socks') \in Nat /\ Len(socks') <= MaxSessions
    BY <2>4, RelayAssumption
  <2>6. Relay'
    BY <2>1, <2>4, <2>5, Encoded DEF p
  <2> QED
    BY <1>2, <2>2, <2>6 DEF UInv, SessionTable
<1>5. CASE UpstreamDrop
  <2>1. TakeReflected("lost") /\ UNCHANGED <<socks, current, via, sent_to>>
    BY <1>5 DEF UpstreamDrop
  <2>2. /\ Stack' /\ Workers' /\ Reflected' /\ Head(relayq) \in Datagram
        /\ fate' = [fate EXCEPT ![Head(relayq)] = "lost"] /\ UNCHANGED <<replies, answers, sessions>>
    BY <2>1, TakenOff
  <2>3. Relay'
    BY <2>1, <2>2, OthersStay, RelayKept DEF UInv, relayVars
  <2> QED
    BY <1>2, <2>2, <2>3 DEF UInv, SessionTable
<1>6. ASSUME NEW p \in UPorts, SweepIdle(p) PROVE UInv'
  <2>1. UNCHANGED <<stackVars, wpc, wd, wte, relayq, relayVars>> /\ SessionTable'
    BY <1>6 DEF SweepIdle, UInv, SessionTable
  <2>2. Stack' /\ UNCHANGED fate
    BY <2>1 DEF stackVars, UInv, Stack, StackTypeOK
  <2> QED
    BY <1>2, <2>1, <2>2, WorkersKept, ReflectedKept, RelayKept DEF UInv
<1>7. ASSUME UNCHANGED <<stackVars, workerVars>>, Relay' PROVE UInv'
  <2>1. Stack' /\ SessionTable' /\ UNCHANGED <<fate, wpc, wd, wte, relayq>>
    BY <1>7 DEF stackVars, workerVars, UInv, Stack, StackTypeOK, SessionTable
  <2> QED
    BY <1>2, <1>7, <2>1, WorkersKept, ReflectedKept DEF UInv
<1>8. \A i \in DOMAIN socks : socks[i] \in S
  <2>1. socks \in Seq(S)
    BY DEF UInv, Relay, RelayTypeOK
  <2> QED
    BY <2>1, ElementFacts
<1>9. ASSUME NEW i \in DOMAIN socks, ControlLost(i) PROVE UInv'
  <2> DEFINE s == [socks[i] EXCEPT !.alive = FALSE]
  <2>1. socks' = [socks EXCEPT ![i] = s] /\ UNCHANGED <<stackVars, workerVars, current, via, sent_to, replies, answers>>
    BY <1>9 DEF ControlLost
  <2>2. s \in S /\ s.port = socks[i].port /\ ~s.alive
    BY <1>8
  <2> HIDE DEF s
  <2>3. UNCHANGED fate /\ replies' \subseteq replies /\ answers' \subseteq Dsts \X Dsts
    BY <2>1 DEF stackVars, UInv, Relay, RelayTypeOK
  <2>4. Relay'
    BY <2>1, <2>2, <2>3, RelaySettles DEF UInv
  <2> QED
    BY <1>7, <2>1, <2>4
<1>10. ASSUME NEW d \in Datagram, PeerDone(d) PROVE UInv'
  <2>1. /\ fate[d] = "proxied" /\ fate' = [fate EXCEPT ![d] = "done"]
        /\ UNCHANGED <<ustate, peer, usockq, dgrams, workerVars, socks, current, via, sent_to, answers>>
        /\ replies' \subseteq replies \cup {<<via[d], sent_to[d]>>}
    BY <1>10 DEF PeerDone
  <2>2. Stack' /\ Workers' /\ Reflected' /\ SessionTable'
    BY <2>1, StackMoves, OthersStay, WorkersKept, ReflectedKept DEF UInv, workerVars, SessionTable
  <2>3. via[d] \in DOMAIN socks /\ sent_to[d] \in Dsts /\ via[d] \in 1 .. MaxSessions
    <3>1. via[d] \in DOMAIN socks /\ sent_to[d] \in Dsts
      BY <2>1 DEF UInv, Relay
    <3> QED
      BY <3>1, RelayAssumption DEF UInv, Relay, RelayTypeOK
  <2>4. replies' \subseteq (1 .. MaxSessions) \X Dsts /\ \A r \in replies' : r[1] \in DOMAIN socks
    BY <2>1, <2>3 DEF UInv, Relay, RelayTypeOK
  <2>5. RelayTypeOK' /\ AnswersHeard'
    BY <2>1, <2>4 DEF UInv, Relay, RelayTypeOK, AnswersHeard
  <2>6. \A e \in Datagram : fate'[e] = "proxied" => fate[e] = "proxied"
    BY <2>1, OthersStay DEF UInv
  <2>7. Relay'
    BY <2>1, <2>4, <2>5, <2>6 DEF UInv, Relay
  <2> QED
    BY <1>2, <2>2, <2>7 DEF UInv
<1>11. ASSUME NEW r \in replies, Downstream(r[1], r[2]) PROVE UInv'
  <2> DEFINE i == r[1]
             s == [socks[i] EXCEPT !.reader = socks[i].alive]
  <2>1. /\ socks' = [socks EXCEPT ![i] = s] /\ replies' \subseteq replies
        /\ UNCHANGED <<stackVars, workerVars, current, via, sent_to>>
        /\ LET x == sessions[socks[i].port]
           IN answers' = IF x = None THEN answers ELSE answers \cup {<<r[2], x.dst>>}
    BY <1>11 DEF Downstream
  <2>2. i \in DOMAIN socks /\ r[2] \in Dsts
    BY DEF UInv, Relay, RelayTypeOK
  <2>3. s \in S /\ s.port = socks[i].port /\ s.alive = socks[i].alive /\ s.reader = socks[i].alive
    BY <1>8, <2>2
  <2>4. socks[i].port \in UPorts
    BY <1>8, <2>2
  <2> HIDE DEF s
  <2>5. answers' \subseteq Dsts \X Dsts
    <3>1. sessions[socks[i].port] # None => sessions[socks[i].port].dst \in Dsts
      BY <2>4 DEF UInv, SessionTable, UdpSession
    <3> QED
      BY <2>1, <2>2, <3>1 DEF UInv, Relay, RelayTypeOK
  <2>6. UNCHANGED fate
    BY <2>1 DEF stackVars
  <2>7. Relay'
    BY <2>1, <2>2, <2>3, <2>5, <2>6, RelaySettles DEF UInv
  <2> QED
    BY <1>7, <2>1, <2>7
<1> QED
  BY <1>3, <1>4, <1>5, <1>6, <1>9, <1>10, <1>11 DEF RelayStep, RelayNext

LEMMA UStep == UInv /\ [Next]_vars => UInv'
<1> SUFFICES ASSUME UInv, [Next]_vars PROVE UInv'
  OBVIOUS
<1>1. CASE UNCHANGED vars
  <2>1. PInv' /\ Rows' /\ Slots' /\ SessionTable' /\ Stack'
    BY <1>1, PQuiet, RowsKept, SlotsKept
       DEF vars, policyVars, workerVars, UInv, SessionTable, stackVars, Stack, StackTypeOK
  <2> QED
    BY <1>1, <2>1, WorkersKept, ReflectedKept, RelayKept DEF UInv, vars, workerVars, stackVars
<1> QED
  BY <1>1, UApp, UStrand, UWorker, URelay DEF Next

LEMMA UAlways == Spec => []UInv
BY UInit, UStep, PTL DEF Spec

\* A slot's policy id means the excludes of the rule that matched its socket.
LEMMA RowOfRule ==
  ASSUME Rows, Tables, NEW e, Good(e), NEW dst \in Dsts
  PROVE  evaluate(tables[Len(tables)], e.policy, dst)
           <=> dst \in excludes.global \cup rule_excludes(e.sock, excludes)
<1> DEFINE id == e.policy
           r == RuleOf[e.sock]
           rows == {x \in ExcludeRules : policy_ids[x] = id /\ id # 0 /\ excludes.rule[x] # Absent}
           table == tables[Len(tables)]
           n == next_policy_id(policy_ids)
<1>1. n \in Nat \ {0}
  BY RulesCounted DEF next_policy_id
<1>2. id \in 0 .. n - 1
  <2>1. CASE r \in ExcludeRules
    <3>1. id = policy_ids[r] /\ policy_ids[r] < n /\ policy_ids[r] \in Nat
      BY <2>1 DEF Good, policy_id_for, Rows, IdsOK
    <3> QED
      BY <1>1, <3>1
  <2>2. CASE r \notin ExcludeRules
    BY <1>1, <2>2 DEF Good, policy_id_for, GLOBAL_ONLY_POLICY
  <2> QED
    BY <2>1, <2>2
<1>3. table = [i \in 0 .. n - 1 |->
                 excludes.global \cup UNION {excludes.rule[x] : x \in {y \in ExcludeRules :
                     policy_ids[y] = i /\ i # 0 /\ excludes.rule[y] # Absent}}]
  BY DEF Rows, build_policy_table
<1>4. evaluate(table, id, dst) <=> dst \in excludes.global \cup UNION {excludes.rule[x] : x \in rows}
  <2>1. id \in DOMAIN table /\ table[id] = excludes.global \cup UNION {excludes.rule[x] : x \in rows}
    BY <1>2, <1>3
  <2> HIDE DEF table, rows, id
  <2> QED
    BY <2>1 DEF evaluate
<1>5. CASE r \in ExcludeRules
  <2>1. id = policy_ids[r] /\ id # 0
    BY <1>5, VerdictAssumption DEF Good, policy_id_for, Proxied
  <2>2. rows = IF excludes.rule[r] # Absent THEN {r} ELSE {}
    BY <1>5, <2>1 DEF Rows, IdsOK
  <2>3. UNION {excludes.rule[x] : x \in rows} = rule_excludes(e.sock, excludes)
    BY <1>5, <2>2 DEF rule_excludes
  <2> QED
    BY <1>4, <2>3
<1>6. CASE r \notin ExcludeRules
  <2>1. id = 0
    BY <1>6 DEF Good, policy_id_for, GLOBAL_ONLY_POLICY
  <2>2. rows = {} /\ rule_excludes(e.sock, excludes) = {}
    BY <1>6, <2>1 DEF rule_excludes
  <2>3. UNION {excludes.rule[x] : x \in rows} = {}
    BY <2>2
  <2> QED
    BY <1>4, <2>2, <2>3
<1> QED
  BY <1>5, <1>6

\* RowKeepsItsRule in every behaviour, for all values of the constants: ids are never
\* reused (rule_engine_v3.hpp), so that a slot written under one configuration is
\* judged by its own rule's excludes under every later one.
THEOREM RowKeepsItsRuleCorrect == Spec => []RowKeepsItsRule
<1>1. UInv => RowKeepsItsRule
  BY RowOfRule DEF UInv, PInv, Slots, RowKeepsItsRule
<1> QED
  BY <1>1, UAlways, PTL

\* AnswersHeard in every behaviour, for all values of the constants: however many
\* SOCKS5 sessions of a port die, the one alive is the one the port uses and a
\* downstream coroutine reads it (on_session_created_, socks5_udp_manager.hpp).
THEOREM AnswersHeardCorrect == Spec => []AnswersHeard
<1>1. UInv => AnswersHeard
  BY DEF UInv, Relay
<1> QED
  BY <1>1, UAlways, PTL

\* Types of the whole model (TypeOK), with the bounds of the generations: a worker has
\* seen no generation that the reloads have not reached.
THEOREM UdpTypeCorrect == Spec => []TypeOK
<1>1. UInv => TypeOK
  <2> SUFFICES ASSUME UInv PROVE TypeOK
    OBVIOUS
  <2> USE DEF UInv
  <2>1. /\ generation \in Nat /\ Len(tables) \in {generation + 1, generation + 2}
        /\ Len(tables) <= MaxReloads + 1 /\ MaxReloads \in Nat
    BY PolicyAssumption DEF PInv, Tables, Rows
  <2>2. generation \in 0 .. MaxReloads /\ Len(tables) \in 1 .. (MaxReloads + 1)
    BY <2>1
  <2>3. wseen \in [UWorkers -> 0 .. MaxReloads]
    <3>1. wseen \in [UWorkers -> Nat] /\ \A w \in UWorkers : wseen[w] <= generation
      BY DEF PInv, Readers
    <3>2. \A w \in UWorkers : wseen[w] \in 0 .. MaxReloads
      BY <2>1, <2>2, <3>1
    <3> QED
      BY <3>1, <3>2
  <2>4. wgen \in [UWorkers -> 0 .. MaxReloads]
    <3>1. wgen \in [UWorkers -> Nat] /\ \A w \in UWorkers : wgen[w] <= generation
      BY DEF PInv, Judging
    <3>2. \A w \in UWorkers : wgen[w] \in 0 .. MaxReloads
      BY <2>1, <2>2, <3>1
    <3> QED
      BY <3>1, <3>2
  <2>5. PolicyTypeOK
    BY <2>2, <2>3 DEF PolicyTypeOK, Rows, IdsOK
  <2>6. TrackerTypeOK
    BY DEF TrackerTypeOK, Slots
  <2>7. NetworkTypeOK
    BY <2>4 DEF NetworkTypeOK, Workers, Reflected, SessionTable
  <2> QED
    BY <2>5, <2>6, <2>7 DEF TypeOK, Stack, Relay
<1> QED
  BY <1>1, UAlways, PTL

\* A socket whose CLOSE the strand has not taken.
Open(u) == ustate[u] \in {"bound", "connected"}
IsClose(ev, u) == ev.ev = "CLOSE" /\ ev.sock = u
Held(u) == Open(u) \/ \E k \in DOMAIN usockq : IsClose(usockq[k], u)

\* Behind every other event of a socket its CLOSE is still to come.
Events ==
  \A k \in DOMAIN usockq : usockq[k].ev # "CLOSE" =>
    \/ Open(usockq[k].sock)
    \/ \E j \in DOMAIN usockq : j > k /\ IsClose(usockq[j], usockq[k].sock)

\* A slot that is up, or about to be, belongs to a socket of its port.
Owned ==
  /\ \A p \in UPorts : active[p] => PortOf[entry[p].sock] = p /\ Held(entry[p].sock)
  /\ writing # None /\ writing.raise =>
       PortOf[writing.new.sock] = writing.port /\ Held(writing.new.sock)

\* Who is busy with a port: its socket, by an event or by a datagram on its way.
InFlight == {"net", "worker", "relay", "proxied"}
Uses(u) ==
  \/ Open(u)
  \/ \E k \in DOMAIN usockq : usockq[k].sock = u
  \/ \E d \in DOMAIN dgrams : fate[d] \in InFlight /\ dgrams[d].sock = u

OneUser == \A u, v \in Sockets : Uses(u) /\ Uses(v) /\ PortOf[u] = PortOf[v] => u = v

\* Only what a rule or the user asks for is taken off the network.
OnlyProxied == \A d \in DOMAIN dgrams : fate[d] \notin {"net", "direct"} => Proxied(dgrams[d].sock)

OInv == Events /\ Owned /\ OneUser /\ OnlyProxied

LEMMA OInit == Init => OInv
BY DEF Init, StackInit, TrackerInit, OInv, Events, Owned, OneUser, Uses, Open, OnlyProxied

\* A slot stays owned while no socket loses its hold.
LEMMA OwnedKept ==
  ASSUME Slots, Owned, UNCHANGED trackerVars, \A u \in Sockets : Held(u) => Held(u)'
  PROVE  Owned'
<1>1. \A p \in UPorts : active[p] => entry[p].sock \in Sockets
  BY DEF Slots, Good
<1>2. writing # None /\ writing.raise => writing.new.sock \in Sockets
  BY DEF Slots, Good
<1> QED
  BY <1>1, <1>2 DEF Owned, trackerVars

\* A rule's id outlives the rule.
LEMMA ProxiedStays ==
  ASSUME UInv, [Next]_vars, NEW u, Proxied(u)
  PROVE  Proxied(u)'
<1>1. CASE \E e \in Excludes : Reload(e)
  <2>1. PICK e \in Excludes : policy_ids' = assign_policy_ids(policy_ids, e)
    BY <1>1 DEF Reload, SwapTable
  <2>2. \A r \in ExcludeRules : policy_ids[r] # 0 => policy_ids'[r] = policy_ids[r]
    BY <2>1, IdsNeverReused DEF UInv, Rows
  <2> QED
    BY <2>2 DEF Proxied
<1>2. CASE UNCHANGED policy_ids
  BY <1>2 DEF Proxied
<1>3. UNCHANGED policy_ids \/ \E e \in Excludes : Reload(e)
  BY DEF Next, vars, AppStep, StrandStep, StrandNext, OnBind, OnConnect, OnClose, TakeSocketEvent,
         EndWrite, Published, BumpGeneration, WorkerStep, RelayStep, policyVars
<1> QED
  BY <1>1, <1>2, <1>3

LEMMA DatagramsBounded ==
  ASSUME Stack
  PROVE  DOMAIN dgrams \subseteq Datagram
<1>1. Len(dgrams) \in Nat /\ DOMAIN dgrams = 1 .. Len(dgrams) /\ Len(dgrams) <= MaxDatagrams
  BY ElementFacts DEF Stack, StackTypeOK
<1> QED
  BY <1>1, StackAssumption DEF Datagram

\* Whoever uses a port after a step that binds none used it before.
LEMMA UsersShrink ==
  ASSUME Stack, UNCHANGED <<ustate, dgrams>>,
         \A k \in DOMAIN usockq' : \E j \in DOMAIN usockq : usockq'[k] = usockq[j],
         \A d \in Datagram : fate'[d] \in InFlight => fate[d] \in InFlight
  PROVE  \A u \in Sockets : Uses(u)' => Uses(u)
<1>1. DOMAIN dgrams \subseteq Datagram
  BY DatagramsBounded
<1> SUFFICES ASSUME NEW u \in Sockets, Uses(u)' PROVE Uses(u)
  OBVIOUS
<1>2. CASE Open(u)'
  BY <1>2 DEF Uses, Open
<1>3. CASE \E k \in DOMAIN usockq' : usockq'[k].sock = u
  BY <1>3 DEF Uses
<1>4. CASE \E d \in DOMAIN dgrams' : fate'[d] \in InFlight /\ dgrams'[d].sock = u
  BY <1>1, <1>4 DEF Uses
<1> QED
  BY <1>2, <1>3, <1>4 DEF Uses, InFlight

LEMMA UsersKept ==
  ASSUME Stack, OneUser, UNCHANGED <<ustate, dgrams>>,
         \A k \in DOMAIN usockq' : \E j \in DOMAIN usockq : usockq'[k] = usockq[j],
         \A d \in Datagram : fate'[d] \in InFlight => fate[d] \in InFlight
  PROVE  OneUser'
BY UsersShrink DEF OneUser

\* A step that moves datagrams, and only those that are on their way or that were taken
\* off the network already.
LEMMA OMoves ==
  ASSUME UInv, OInv, [Next]_vars, UNCHANGED <<ustate, usockq, dgrams, trackerVars>>,
         NEW d \in Datagram, fate[d] \in InFlight,
         NEW f \in {"worker", "direct", "relay", "proxied", "done", "lost"},
         fate' = [fate EXCEPT ![d] = f],
         f = "direct" \/ fate[d] # "net" \/ Proxied(dgrams[d].sock)
  PROVE  OInv'
<1>1. Events' /\ \A u \in Sockets : Held(u) => Held(u)'
  BY DEF OInv, Events, Held, Open
<1>2. Owned'
  BY <1>1, OwnedKept DEF UInv, OInv
<1>3. \A e \in Datagram : fate'[e] = IF e = d THEN f ELSE fate[e]
  BY DEF UInv, Stack, StackTypeOK
<1>4. OneUser'
  <2>1. \A e \in Datagram : fate'[e] \in InFlight => fate[e] \in InFlight
    BY <1>3
  <2> QED
    BY <2>1, UsersKept DEF UInv, OInv
<1>5. OnlyProxied'
  <2>1. DOMAIN dgrams \subseteq Datagram
    BY DatagramsBounded DEF UInv
  <2> SUFFICES ASSUME NEW e \in DOMAIN dgrams, fate'[e] \notin {"net", "direct"}
               PROVE  Proxied(dgrams[e].sock)'
    BY DEF OnlyProxied
  <2>2. Proxied(dgrams[e].sock)
    <3>1. CASE e = d
      <4>1. fate[d] # "direct"
        BY DEF InFlight
      <4> QED
        BY <1>3, <2>1, <3>1, <4>1 DEF OInv, OnlyProxied
    <3>2. CASE e # d
      BY <1>3, <2>1, <3>2 DEF OInv, OnlyProxied
    <3> QED
      BY <3>1, <3>2
  <2> QED
    BY <2>2, ProxiedStays
<1> QED
  BY <1>1, <1>2, <1>4, <1>5 DEF OInv

\* A step that touches neither sockets nor datagrams nor slots.
LEMMA OQuiet ==
  ASSUME UInv, OInv, [Next]_vars, UNCHANGED <<ustate, usockq, dgrams, fate, trackerVars>>
  PROVE  OInv'
<1>1. Events' /\ \A u \in Sockets : Held(u) => Held(u)'
  BY DEF OInv, Events, Held, Open
<1>2. Owned'
  BY <1>1, OwnedKept DEF UInv, OInv
<1>3. OneUser'
  BY UsersKept DEF UInv, OInv
<1>4. OnlyProxied'
  BY ProxiedStays DEF OInv, OnlyProxied
<1> QED
  BY <1>1, <1>2, <1>3, <1>4 DEF OInv

\* A SOCKET event goes behind those that wait.
LEMMA EventQueued ==
  ASSUME Stack, NEW ev \in {"BIND", "CONNECT", "CLOSE"}, NEW u \in Sockets,
         NEW dst \in Dsts \cup {None}, Event(ev, u, dst)
  PROVE  /\ DOMAIN usockq = 1 .. Len(usockq) /\ DOMAIN usockq' = 1 .. Len(usockq) + 1
         /\ Len(usockq) \in Nat /\ \A i \in DOMAIN usockq : usockq'[i] = usockq[i]
         /\ usockq'[Len(usockq) + 1].ev = ev /\ usockq'[Len(usockq) + 1].sock = u
<1> DEFINE e == [ev |-> ev, sock |-> u, dst |-> dst]
<1>1. e \in SocketEvent /\ e.ev = ev /\ e.sock = u
  BY DEF SocketEvent
<1>2. usockq \in Seq(SocketEvent) /\ usockq' = Append(usockq, e)
  BY DEF Stack, StackTypeOK, Event
<1> HIDE DEF e
<1> QED
  BY <1>1, <1>2, AppendFacts

\* An event of a socket makes no other one a user.
LEMMA SocketUsers ==
  ASSUME UInv, NEW u \in Sockets, NEW ev \in {"BIND", "CONNECT", "CLOSE"},
         NEW dst \in Dsts \cup {None}, Event(ev, u, dst),
         NEW st \in {"bound", "connected", "closed"}, ustate' = [ustate EXCEPT ![u] = st],
         UNCHANGED <<dgrams, fate>>
  PROVE  \A v \in Sockets : Uses(v)' => Uses(v) \/ v = u
<1> DEFINE n == Len(usockq)
<1>1. /\ DOMAIN usockq = 1 .. n /\ DOMAIN usockq' = 1 .. n + 1 /\ n \in Nat
      /\ \A i \in DOMAIN usockq : usockq'[i] = usockq[i]
      /\ usockq'[n + 1].ev = ev /\ usockq'[n + 1].sock = u
  BY EventQueued DEF UInv
<1> HIDE DEF n
<1>2. \A v \in Sockets \ {u} : ustate'[v] = ustate[v]
  BY DEF UInv, Stack, StackTypeOK
<1> SUFFICES ASSUME NEW v \in Sockets, Uses(v)', v # u PROVE Uses(v)
  OBVIOUS
<1>3. CASE Open(v)'
  BY <1>2, <1>3 DEF Open, Uses
<1>4. CASE \E k \in DOMAIN usockq' : usockq'[k].sock = v
  <2>1. PICK k \in 1 .. n + 1 : usockq'[k].sock = v
    BY <1>1, <1>4
  <2>2. k \in DOMAIN usockq /\ usockq[k].sock = v
    BY <1>1, <2>1
  <2> QED
    BY <2>2 DEF Uses
<1>5. CASE \E d \in DOMAIN dgrams' : fate'[d] \in InFlight /\ dgrams'[d].sock = v
  BY <1>5 DEF Uses
<1> QED
  BY <1>3, <1>4, <1>5 DEF Uses, InFlight

\* The application opens, connects or closes a socket, which it may do to one that is
\* its port's only user.
LEMMA OSocket ==
  ASSUME UInv, OInv, NEW u \in Sockets, NEW ev \in {"BIND", "CONNECT", "CLOSE"},
         NEW dst \in Dsts \cup {None}, Event(ev, u, dst),
         NEW st \in {"bound", "connected", "closed"}, ustate' = [ustate EXCEPT ![u] = st],
         (st = "closed") <=> (ev = "CLOSE"),
         \A v \in Sockets : Uses(v) /\ PortOf[v] = PortOf[u] => v = u,
         UNCHANGED <<dgrams, fate, policyVars, trackerVars>>
  PROVE  OInv'
<1> DEFINE n == Len(usockq)
<1>1. /\ DOMAIN usockq = 1 .. n /\ DOMAIN usockq' = 1 .. n + 1 /\ n \in Nat
      /\ \A i \in DOMAIN usockq : usockq'[i] = usockq[i]
      /\ usockq'[n + 1].ev = ev /\ usockq'[n + 1].sock = u
  BY EventQueued DEF UInv
<1> HIDE DEF n
<1>2. /\ ustate'[u] = st
      /\ \A v \in Sockets \ {u} : ustate'[v] = ustate[v]
  BY DEF UInv, Stack, StackTypeOK
<1>3. Open(u)' \/ IsClose(usockq'[n + 1], u)
  BY <1>1, <1>2 DEF Open, IsClose
<1>4. \A v \in Sockets : Held(v) => Held(v)'
  <2> SUFFICES ASSUME NEW v \in Sockets, Held(v) PROVE Held(v)'
    OBVIOUS
  <2>1. n + 1 \in DOMAIN usockq' /\ DOMAIN usockq \subseteq DOMAIN usockq'
    BY <1>1
  <2>2. CASE v = u
    BY <1>3, <2>1, <2>2 DEF Held
  <2>3. CASE v # u
    <3>1. CASE Open(v)
      BY <1>2, <2>3, <3>1 DEF Held, Open
    <3>2. CASE \E k \in DOMAIN usockq : IsClose(usockq[k], v)
      BY <1>1, <2>1, <3>2 DEF Held
    <3> QED
      BY <3>1, <3>2 DEF Held
  <2> QED
    BY <2>2, <2>3
<1>5. Owned'
  BY <1>4, OwnedKept DEF UInv, OInv
<1>6. Events'
  <2> SUFFICES ASSUME NEW k \in 1 .. n + 1, usockq'[k].ev # "CLOSE"
               PROVE  \/ ustate'[usockq'[k].sock] \in {"bound", "connected"}
                      \/ \E j \in 1 .. n + 1 : j > k /\ IsClose(usockq'[j], usockq'[k].sock)
    BY <1>1 DEF Events, Open
  <2>1. CASE k = n + 1
    BY <1>1, <1>3, <2>1 DEF IsClose, Open
  <2>2. CASE k \in 1 .. n
    <3> DEFINE v == usockq[k].sock
    <3>1. usockq'[k] = usockq[k] /\ v \in Sockets /\ n + 1 > k
      <4>1. usockq[k] \in SocketEvent
        BY <1>1, <2>2, ElementFacts DEF UInv, Stack, StackTypeOK
      <4> QED
        BY <1>1, <2>2, <4>1 DEF SocketEvent
    <3>2. CASE Open(v)
      <4>1. CASE v = u
        <5>1. CASE Open(u)'
          BY <3>1, <4>1, <5>1 DEF Open
        <5>2. CASE IsClose(usockq'[n + 1], u)
          <6>1. n + 1 \in 1 .. n + 1
            BY <1>1
          <6> QED
            BY <3>1, <4>1, <5>2, <6>1
        <5> QED
          BY <1>3, <5>1, <5>2
      <4>2. CASE v # u
        BY <1>2, <3>1, <3>2, <4>2 DEF Open
      <4> QED
        BY <4>1, <4>2
    <3>3. CASE \E j \in DOMAIN usockq : j > k /\ IsClose(usockq[j], v)
      <4>1. PICK j \in 1 .. n : j > k /\ IsClose(usockq[j], v)
        BY <1>1, <3>3
      <4>2. j \in 1 .. n + 1 /\ IsClose(usockq'[j], v)
        BY <1>1, <4>1
      <4> QED
        BY <3>1, <4>1, <4>2
    <3> QED
      BY <1>1, <2>2, <3>1, <3>2, <3>3 DEF OInv, Events
  <2> QED
    BY <1>1, <2>1, <2>2
<1>7. \A v \in Sockets : Uses(v)' => Uses(v) \/ v = u
  BY SocketUsers
<1>8. OneUser'
  BY <1>7 DEF OneUser, OInv
<1>9. OnlyProxied'
  BY DEF OInv, OnlyProxied, Proxied, policyVars
<1> QED
  BY <1>5, <1>6, <1>8, <1>9 DEF OInv

\* Without Lagging a port is bound anew once nobody is busy with it any more.
LEMMA BoundWhenQuiet ==
  ASSUME UInv, NEW u \in Sockets, AppBind(u), Quiet(PortOf[u])
  PROVE  \A v \in Sockets : Uses(v) /\ PortOf[v] = PortOf[u] => v = u
<1> SUFFICES ASSUME NEW v \in Sockets, Uses(v), PortOf[v] = PortOf[u] PROVE FALSE
  OBVIOUS
<1>1. ~Open(v)
  BY DEF AppBind, Open
<1>2. \A k \in DOMAIN usockq : usockq[k].sock # v
  BY DEF Quiet
<1>3. \A d \in DOMAIN dgrams : fate[d] \in InFlight => dgrams[d].sock # v
  BY DatagramsBounded DEF Quiet, InState, InFlight, dport, UInv
<1> QED
  BY <1>1, <1>2, <1>3 DEF Uses

LEMMA OApp ==
  ASSUME ~Lagging, UInv, OInv, AppStep
  PROVE  OInv'
<1>1. UNCHANGED <<policyVars, trackerVars, workerVars, relayVars>>
  BY DEF AppStep
<1>2. \A u \in Sockets : Open(u) =>
        \A v \in Sockets : Uses(v) /\ PortOf[v] = PortOf[u] => v = u
  BY DEF OInv, OneUser, Uses
<1>3. ASSUME NEW u \in Sockets, AppBind(u), Quiet(PortOf[u]) PROVE OInv'
  BY <1>1, <1>3, BoundWhenQuiet, OSocket DEF AppBind
<1>4. ASSUME NEW u \in Sockets, NEW dst \in Dsts, AppUdpConnect(u, dst) PROVE OInv'
  BY <1>1, <1>2, <1>4, OSocket DEF AppUdpConnect, Open
<1>5. ASSUME NEW u \in Sockets, AppUdpClose(u) PROVE OInv'
  BY <1>1, <1>2, <1>5, OSocket DEF AppUdpClose, Open
<1>6. ASSUME NEW u \in Sockets, NEW dst \in Dsts, AppSend(u, dst) PROVE OInv'
  <2> DEFINE n == Len(dgrams) + 1
             x == [sock |-> u, dst |-> dst]
  <2>1. /\ dgrams' = Append(dgrams, x) /\ fate' = [fate EXCEPT ![n] = "net"]
        /\ UNCHANGED <<ustate, usockq>> /\ Len(dgrams) < MaxDatagrams
    BY <1>6 DEF AppSend
  <2>2. /\ DOMAIN dgrams' = 1 .. n /\ DOMAIN dgrams = 1 .. Len(dgrams) /\ Len(dgrams) \in Nat
        /\ dgrams'[n] = x /\ \A i \in DOMAIN dgrams : dgrams'[i] = dgrams[i]
    BY <2>1, AppendFacts DEF UInv, Stack, StackTypeOK
  <2>3. x.sock = u /\ Open(u)
    BY <1>6 DEF AppSend, Open
  <2>4. \A d \in Datagram : fate'[d] = IF d = n THEN "net" ELSE fate[d]
    BY <2>1 DEF UInv, Stack, StackTypeOK
  <2>5. n \in Datagram /\ DOMAIN dgrams \subseteq Datagram
    BY <2>1, <2>2, DatagramsBounded, StackAssumption DEF UInv, Datagram
  <2> HIDE DEF n, x
  <2>6. \A d \in DOMAIN dgrams' : d = n \/ (d \in DOMAIN dgrams /\ d # n)
    BY <2>2 DEF n
  <2>7. Events' /\ \A v \in Sockets : Held(v) => Held(v)'
    BY <2>1 DEF OInv, Events, Held, Open
  <2>8. Owned'
    BY <1>1, <2>7, OwnedKept DEF UInv, OInv
  <2>9. \A v \in Sockets : Uses(v)' => Uses(v)
    <3> SUFFICES ASSUME NEW v \in Sockets, Uses(v)' PROVE Uses(v)
      OBVIOUS
    <3>1. CASE Open(v)' \/ \E k \in DOMAIN usockq' : usockq'[k].sock = v
      BY <2>1, <3>1 DEF Uses, Open
    <3>2. CASE \E d \in DOMAIN dgrams' : fate'[d] \in InFlight /\ dgrams'[d].sock = v
      <4>1. PICK d \in DOMAIN dgrams' : fate'[d] \in InFlight /\ dgrams'[d].sock = v
        BY <3>2
      <4>2. CASE d = n
        BY <2>2, <2>3, <4>1, <4>2 DEF Uses
      <4>3. CASE d \in DOMAIN dgrams /\ d # n
        BY <2>2, <2>4, <2>5, <4>1, <4>3 DEF Uses
      <4> QED
        BY <2>6, <4>2, <4>3
    <3> QED
      BY <3>1, <3>2 DEF Uses, InFlight
  <2>10. OneUser'
    BY <2>9 DEF OneUser, OInv
  <2>11. OnlyProxied'
    BY <1>1, <2>2, <2>4, <2>5, <2>6 DEF OInv, OnlyProxied, Proxied, policyVars
  <2> QED
    BY <2>7, <2>8, <2>10, <2>11 DEF OInv
<1> QED
  BY <1>3, <1>4, <1>5, <1>6 DEF AppStep

\* The strand takes an event: what waits behind it stays, and of the sockets whose
\* CLOSE waited only the one of a CLOSE taken is let go.
LEMMA EventTaken ==
  ASSUME UInv, OInv, NEW ev, TakeSocketEvent(ev)
  PROVE  /\ Head(usockq).sock \in Sockets /\ Events' /\ OneUser' /\ OnlyProxied'
         /\ writing = None /\ UNCHANGED ustate
         /\ \A u \in Sockets : ev # "CLOSE" /\ u = Head(usockq).sock => Held(u)'
         /\ \A u \in Sockets : Held(u) => Held(u)' \/ (ev = "CLOSE" /\ u = Head(usockq).sock)
<1>1. /\ usockq # <<>> /\ Head(usockq).ev = ev /\ usockq' = Tail(usockq) /\ writing = None
      /\ UNCHANGED <<ustate, peer, dgrams, fate, policyVars>>
  BY DEF TakeSocketEvent, StrandFree
<1>2. usockq \in Seq(SocketEvent)
  BY DEF UInv, Stack, StackTypeOK
<1> DEFINE n == Len(usockq)
<1>3. /\ Head(usockq) \in SocketEvent /\ Head(usockq) = usockq[1] /\ 1 \in DOMAIN usockq
      /\ DOMAIN usockq' = 1 .. n - 1 /\ DOMAIN usockq = 1 .. n /\ n \in Nat \ {0}
      /\ \A i \in 1 .. n - 1 : usockq'[i] = usockq[i + 1] /\ i + 1 \in DOMAIN usockq
  BY <1>1, <1>2, QueueFacts
<1> HIDE DEF n
<1>4. Head(usockq).sock \in Sockets
  BY <1>3 DEF SocketEvent
<1>5. \A k \in 1 .. n : k > 1 => k - 1 \in 1 .. n - 1 /\ usockq'[k - 1] = usockq[k]
  <2> SUFFICES ASSUME NEW k \in 1 .. n, k > 1
               PROVE  k - 1 \in 1 .. n - 1 /\ usockq'[k - 1] = usockq[k]
    OBVIOUS
  <2>1. k - 1 \in 1 .. n - 1 /\ (k - 1) + 1 = k
    BY <1>3
  <2> QED
    BY <1>3, <2>1
<1>6. \A u \in Sockets : Held(u) => Held(u)' \/ (ev = "CLOSE" /\ u = Head(usockq).sock)
  <2> SUFFICES ASSUME NEW u \in Sockets, Held(u), ~(ev = "CLOSE" /\ u = Head(usockq).sock)
               PROVE  Held(u)'
    OBVIOUS
  <2>1. CASE Open(u)
    BY <1>1, <2>1 DEF Held, Open
  <2>2. CASE \E k \in DOMAIN usockq : IsClose(usockq[k], u)
    <3>1. PICK k \in 1 .. n : IsClose(usockq[k], u)
      BY <1>3, <2>2
    <3>2. k > 1
      BY <1>1, <1>3, <3>1 DEF IsClose
    <3> QED
      BY <1>3, <1>5, <3>1, <3>2 DEF Held
  <2> QED
    BY <2>1, <2>2 DEF Held
<1>7. Events'
  <2> SUFFICES ASSUME NEW k \in 1 .. n - 1, usockq'[k].ev # "CLOSE"
               PROVE  \/ ustate'[usockq'[k].sock] \in {"bound", "connected"}
                      \/ \E j \in 1 .. n - 1 : j > k /\ IsClose(usockq'[j], usockq'[k].sock)
    BY <1>3 DEF Events, Open
  <2>1. usockq'[k] = usockq[k + 1] /\ k + 1 \in DOMAIN usockq
    BY <1>3
  <2> DEFINE u == usockq[k + 1].sock
  <2>2. CASE Open(u)
    BY <1>1, <2>1, <2>2 DEF Open
  <2>3. CASE \E j \in DOMAIN usockq : j > k + 1 /\ IsClose(usockq[j], u)
    <3>1. PICK j \in 1 .. n : j > k + 1 /\ IsClose(usockq[j], u)
      BY <1>3, <2>3
    <3>2. j > 1 /\ j - 1 > k
      BY <3>1
    <3> QED
      BY <1>5, <2>1, <3>1, <3>2
  <2> QED
    BY <2>1, <2>2, <2>3 DEF OInv, Events
<1>8. OneUser'
  <2>1. \A k \in DOMAIN usockq' : \E j \in DOMAIN usockq : usockq'[k] = usockq[j]
    BY <1>3
  <2> QED
    BY <1>1, <2>1, UsersKept DEF UInv, OInv
<1>9. OnlyProxied'
  BY <1>1 DEF OInv, OnlyProxied, Proxied, policyVars
<1>10. ASSUME NEW u \in Sockets, ev # "CLOSE", u = Head(usockq).sock PROVE Held(u)'
  <2>1. CASE Open(u)
    BY <1>1, <2>1 DEF Held, Open
  <2>2. CASE \E j \in DOMAIN usockq : j > 1 /\ IsClose(usockq[j], u)
    <3>1. PICK j \in 1 .. n : j > 1 /\ IsClose(usockq[j], u)
      BY <1>3, <2>2
    <3> QED
      BY <1>3, <1>5, <3>1 DEF Held
  <2> QED
    BY <1>1, <1>3, <1>10, <2>1, <2>2 DEF OInv, Events
<1> QED
  BY <1>1, <1>4, <1>6, <1>7, <1>8, <1>9, <1>10

LEMMA OwnedPut ==
  ASSUME Slots, Owned, NEW u \in Sockets, put(PortOf[u], tracker_entry(u)), Held(u)',
         \A v \in Sockets : Held(v) => Held(v)'
  PROVE  Owned'
<1> DEFINE w == [port |-> PortOf[u], new |-> tracker_entry(u), raise |-> TRUE]
<1>1. writing' = w /\ UNCHANGED <<active, entry>> /\ w.new.sock = u /\ w.port = PortOf[u]
  BY DEF put, tracker_entry
<1> HIDE DEF w
<1>2. \A p \in UPorts : active[p] => entry[p].sock \in Sockets
  BY DEF Slots, Good
<1>3. \A p \in UPorts : active'[p] => PortOf[entry'[p].sock] = p /\ Held(entry[p].sock)'
  <2> SUFFICES ASSUME NEW p \in UPorts, active[p] PROVE PortOf[entry[p].sock] = p /\ Held(entry[p].sock)'
    BY <1>1
  <2> DEFINE v == entry[p].sock
  <2>1. v \in Sockets /\ PortOf[v] = p /\ Held(v)
    BY <1>2 DEF Owned
  <2> HIDE DEF v
  <2>2. Held(v)'
    BY <2>1, <1>1 DEF v
  <2> QED
    BY <1>1, <2>1, <2>2 DEF v
<1>4. Held(writing.new.sock)' /\ PortOf[writing'.new.sock] = writing'.port
  BY <1>1
<1> QED
  BY <1>3, <1>4 DEF Owned

\* The slot of a closed socket's port goes down with it.
LEMMA OwnedClear ==
  ASSUME Slots, Owned, NEW p \in UPorts, clear(p),
         \A v \in Sockets : Held(v) => Held(v)' \/ PortOf[v] = p
  PROVE  Owned'
<1> DEFINE w == [port |-> p, new |-> EmptyEntry, raise |-> FALSE]
<1>1. writing' = w /\ ~w.raise /\ active' = [active EXCEPT ![p] = FALSE] /\ UNCHANGED entry
  BY DEF clear
<1> HIDE DEF w
<1>2. \A q \in UPorts : active'[q] => active[q] /\ q # p
  BY <1>1 DEF Slots
<1>3. \A q \in UPorts : active'[q] => PortOf[entry'[q].sock] = q /\ Held(entry[q].sock)'
  <2> SUFFICES ASSUME NEW q \in UPorts, active'[q] PROVE PortOf[entry'[q].sock] = q /\ Held(entry[q].sock)'
    OBVIOUS
  <2>1. entry[q].sock \in Sockets /\ PortOf[entry[q].sock] = q /\ Held(entry[q].sock) /\ q # p
    BY <1>2 DEF Slots, Good, Owned
  <2>2. \A v \in Sockets : v = entry[q].sock => Held(v)'
    BY <2>1
  <2> QED
    BY <1>1, <2>1, <2>2
<1>4. ~writing'.raise
  BY <1>1
<1> QED
  BY <1>3, <1>4 DEF Owned

LEMMA OwnedWritten ==
  ASSUME Slots, Owned, EndWrite
  PROVE  Owned'
<1> DEFINE p == writing.port
<1>1. /\ writing # None /\ writing' = None /\ UNCHANGED <<ustate, usockq>>
      /\ entry' = [entry EXCEPT ![p] = writing.new]
      /\ active' = [active EXCEPT ![p] = active[p] \/ writing.raise]
  BY DEF EndWrite, FinishWrite, stackVars
<1>2. p \in UPorts /\ writing.raise \in BOOLEAN /\ (~writing.raise => ~active[p])
  BY <1>1 DEF Slots
<1>3. \A u : Held(u) => Held(u)'
  BY <1>1 DEF Held, Open
<1>4. \A q \in UPorts : active'[q] => PortOf[entry'[q].sock] = q /\ Held(entry'[q].sock)
  <2> SUFFICES ASSUME NEW q \in UPorts, active'[q]
               PROVE  PortOf[entry'[q].sock] = q /\ Held(entry'[q].sock)
    OBVIOUS
  <2>1. CASE q = p
    <3>1. writing.raise /\ entry'[q] = writing.new
      BY <1>1, <1>2, <2>1 DEF Slots
    <3> QED
      BY <1>1, <2>1, <3>1 DEF Owned
  <2>2. CASE q # p
    <3>1. active[q] /\ entry'[q] = entry[q]
      BY <1>1, <1>2, <2>2 DEF Slots
    <3> QED
      BY <3>1 DEF Owned
  <2> QED
    BY <2>1, <2>2
<1>5. \A q \in UPorts : active'[q] => Held(entry[q].sock)'
  <2> SUFFICES ASSUME NEW q \in UPorts, active'[q] PROVE Held(entry[q].sock)'
    OBVIOUS
  <2>1. Held(entry'[q].sock)
    BY <1>4
  <2> QED
    BY <1>1, <2>1 DEF Held, Open
<1> QED
  BY <1>1, <1>4, <1>5 DEF Owned

LEMMA OStrand ==
  ASSUME UInv, OInv, StrandStep
  PROVE  OInv'
<1> DEFINE u == Head(usockq).sock
<1>1. Slots /\ Owned
  BY DEF UInv, OInv
<1>2. CASE OnBind
  <2>1. TakeSocketEvent("BIND")
    BY <1>2 DEF OnBind
  <2>2. /\ u \in Sockets /\ Events' /\ OneUser' /\ OnlyProxied'
        /\ \A v \in Sockets : (v = u => Held(v)') /\ (Held(v) => Held(v)')
    BY <2>1, EventTaken
  <2>3. put(PortOf[u], tracker_entry(u)) \/ UNCHANGED trackerVars
    BY <1>2 DEF OnBind
  <2> HIDE DEF u
  <2>4. Owned'
    BY <1>1, <2>2, <2>3, OwnedPut, OwnedKept
  <2> QED
    BY <2>2, <2>4 DEF OInv
<1>3. CASE OnConnect
  <2>1. TakeSocketEvent("CONNECT")
    BY <1>3 DEF OnConnect
  <2>2. /\ u \in Sockets /\ Events' /\ OneUser' /\ OnlyProxied'
        /\ \A v \in Sockets : (v = u => Held(v)') /\ (Held(v) => Held(v)')
    BY <2>1, EventTaken
  <2>3. put(PortOf[u], tracker_entry(u)) \/ clear(PortOf[u]) \/ UNCHANGED trackerVars
    BY <1>3 DEF OnConnect
  <2> HIDE DEF u
  <2>4. PortOf[u] \in UPorts
    BY <2>2, StackAssumption
  <2>5. Owned'
    BY <1>1, <2>2, <2>3, <2>4, OwnedPut, OwnedClear, OwnedKept
  <2> QED
    BY <2>2, <2>5 DEF OInv
<1>4. CASE OnClose
  <2>1. TakeSocketEvent("CLOSE") /\ clear(PortOf[u])
    BY <1>4 DEF OnClose
  <2>2. /\ u \in Sockets /\ Events' /\ OneUser' /\ OnlyProxied'
        /\ \A v \in Sockets : Held(v) => Held(v)' \/ v = u
    BY <2>1, EventTaken
  <2> HIDE DEF u
  <2>3. PortOf[u] \in UPorts
    BY <2>2, StackAssumption
  <2>4. Owned'
    BY <1>1, <2>1, <2>2, <2>3, OwnedClear
  <2> QED
    BY <2>2, <2>4 DEF OInv
<1>5. CASE EndWrite
  <2>1. UNCHANGED <<ustate, usockq, dgrams, fate, policyVars>>
    BY <1>5 DEF EndWrite, stackVars
  <2>2. Events' /\ OneUser' /\ OnlyProxied'
    BY <2>1 DEF OInv, Events, Open, OneUser, Uses, OnlyProxied, Proxied, policyVars
  <2> QED
    BY <1>1, <1>5, <2>2, OwnedWritten DEF OInv
<1>6. CASE (\E e \in Excludes : Reload(e)) \/ Published
  <2>1. UNCHANGED <<ustate, usockq, dgrams, fate, trackerVars>>
    BY <1>6 DEF Reload, Published, stackVars
  <2> QED
    BY <2>1, OQuiet DEF Next
<1> QED
  BY <1>2, <1>3, <1>4, <1>5, <1>6 DEF StrandStep, StrandNext

\* A worker takes a datagram off the network only for the socket that owns the slot.
LEMMA OWorker ==
  ASSUME UInv, OInv, NEW w \in UWorkers, WorkerStep(w)
  PROVE  OInv'
<1>1. [Next]_vars /\ UNCHANGED trackerVars
  BY DEF Next, WorkerStep
<1>2. CASE CopyEntry(w) \/ Refresh(w) \/ SaveSession(w)
  BY <1>1, <1>2, OQuiet DEF CopyEntry, Refresh, SaveSession, stackVars
<1>3. wpc[w] # "recv" => wd[w] \in Datagram /\ fate[wd[w]] = "worker"
  BY DEF UInv, Workers
<1>4. CASE Evaluate(w)
  <2>1. CASE PassOrReflect(w, "direct")
    <3>1. /\ fate' = [fate EXCEPT ![wd[w]] = "direct"]
          /\ UNCHANGED <<ustate, usockq, dgrams, trackerVars>> /\ wpc[w] # "recv"
      BY <1>1, <1>4, <2>1 DEF Evaluate, PassOrReflect
    <3> QED
      BY <1>1, <1>3, <3>1, OMoves DEF InFlight
  <2>2. CASE UNCHANGED stackVars
    BY <1>1, <2>2, OQuiet DEF stackVars
  <2> QED
    BY <1>4, <2>1, <2>2 DEF Evaluate
<1>5. CASE Reflect(w)
  <2>1. /\ fate' = [fate EXCEPT ![wd[w]] = "relay"] /\ wpc[w] # "recv"
        /\ UNCHANGED <<ustate, usockq, dgrams, trackerVars>>
    BY <1>1, <1>5 DEF Reflect, PassOrReflect
  <2> QED
    BY <1>1, <1>3, <2>1, OMoves DEF InFlight
<1>6. ASSUME NEW d \in InState("net"), Receive(w, d) PROVE OInv'
  <2>1. /\ d \in Datagram /\ fate[d] = "net" /\ UNCHANGED <<ustate, usockq, dgrams, trackerVars>>
    BY <1>1, <1>6 DEF Receive, InState
  <2>2. CASE active[dport(d)]
    <3>1. fate' = [fate EXCEPT ![d] = "worker"]
      BY <1>6, <2>2 DEF Receive
    <3>2. /\ dport(d) \in UPorts /\ dgrams[d].sock \in Sockets /\ d \in DOMAIN dgrams
      BY <2>1, SentDatagram DEF UInv
    <3> DEFINE u == dgrams[d].sock
               v == entry[dport(d)].sock
    <3>3. v \in Sockets /\ Proxied(v) /\ PortOf[v] = PortOf[u] /\ Held(v)
      BY <2>2, <3>2 DEF UInv, Slots, Good, OInv, Owned, dport
    <3>4. Uses(v)
      BY <3>3 DEF Held, Uses, IsClose
    <3>5. Uses(u)
      BY <2>1, <3>2 DEF Uses, InFlight
    <3>6. u = v
      BY <3>2, <3>3, <3>4, <3>5 DEF OInv, OneUser
    <3> QED
      BY <1>1, <2>1, <3>1, <3>3, <3>6, OMoves DEF InFlight
  <2>3. CASE ~active[dport(d)]
    <3>1. fate' = [fate EXCEPT ![d] = "direct"]
      BY <1>6, <2>3 DEF Receive
    <3> QED
      BY <1>1, <2>1, <3>1, OMoves DEF InFlight
  <2> QED
    BY <2>2, <2>3
<1> QED
  BY <1>2, <1>4, <1>5, <1>6 DEF WorkerStep, WorkerNext

LEMMA ORelay ==
  ASSUME UInv, OInv, RelayStep
  PROVE  OInv'
<1>1. [Next]_vars /\ UNCHANGED trackerVars
  BY DEF Next, RelayStep
<1>2. ASSUME NEW f \in {"proxied", "lost"}, TakeReflected(f) PROVE OInv'
  <2>1. Head(relayq) \in Datagram /\ fate[Head(relayq)] = "relay"
    BY <1>2, TakenOff
  <2>2. fate' = [fate EXCEPT ![Head(relayq)] = f] /\ UNCHANGED <<ustate, usockq, dgrams>>
    BY <1>2 DEF TakeReflected
  <2> QED
    BY <1>1, <2>1, <2>2, OMoves DEF InFlight
<1>3. ASSUME NEW d \in Datagram, PeerDone(d) PROVE OInv'
  BY <1>1, <1>3, OMoves DEF PeerDone, InFlight
<1>4. CASE UNCHANGED stackVars
  BY <1>1, <1>4, OQuiet DEF stackVars
<1> QED
  BY <1>2, <1>3, <1>4 DEF RelayStep, RelayNext, UpstreamReuse, UpstreamCreate, UpstreamDrop,
                          SweepIdle, ControlLost, Downstream

LEMMA OStep == ASSUME ~Lagging PROVE UInv /\ OInv /\ [Next]_vars => OInv'
<1> SUFFICES ASSUME UInv, OInv, [Next]_vars PROVE OInv'
  OBVIOUS
<1>1. CASE UNCHANGED vars
  BY <1>1, OQuiet DEF vars, stackVars
<1> QED
  BY <1>1, OApp, OStrand, OWorker, ORelay DEF Next

LEMMA OAlways == ASSUME ~Lagging PROVE Spec => []OInv
BY UAlways, OInit, OStep, PTL DEF Spec

\* DirectUntouched in every behaviour in which a port is bound anew only once nothing is
\* left of its last socket: whatever a worker takes off the network belongs to the
\* socket the slot was written for (worker_loop(), windivert_network_udp.hpp).
THEOREM DirectUntouchedCorrect == ASSUME ~Lagging PROVE Spec => []DirectUntouched
<1>1. OInv => DirectUntouched
  BY VerdictAssumption DEF OInv, OnlyProxied, Proxied, DirectUntouched
<1> QED
  BY <1>1, OAlways, PTL

\* What the session table may hold for a port a datagram to dst came from.
Matches(p, dst) == sessions[p] = None \/ sessions[p].dst = dst

\* A socket that does not roam has one endpoint.
Peers == \A d \in DOMAIN dgrams : peer[dgrams[d].sock] = dgrams[d].dst

\* From the worker's upsert to the answer the table has a datagram's endpoint, whoever
\* else writes the port's entry.
Kept ==
  /\ \A w \in UWorkers : wpc[w] = "reflect" => Matches(dport(wd[w]), dgrams[wd[w]].dst)
  /\ \A d \in DOMAIN dgrams : fate[d] \in {"relay", "proxied"} => Matches(dport(d), dgrams[d].dst)

\* It goes out through a session of its port, with its own destination.
Framed ==
  /\ \A p \in UPorts : current[p] # 0 => socks[current[p]].port = p
  /\ \A d \in DOMAIN dgrams : fate[d] = "proxied" =>
       socks[via[d]].port = dport(d) /\ sent_to[d] = dgrams[d].dst
  /\ \A d \in Datagram : sent_to[d] # None => d \in DOMAIN dgrams /\ sent_to[d] = dgrams[d].dst

\* An answer comes from the endpoint of every socket that still uses the port.
Answered ==
  /\ \A r \in replies :
       /\ Matches(socks[r[1]].port, r[2])
       /\ \A u \in Sockets : Uses(u) /\ PortOf[u] = socks[r[1]].port => peer[u] = r[2]
  /\ ReplyFromPeer

FInv == Peers /\ Kept /\ Framed /\ Answered

LEMMA FInit == Init => FInv
BY DEF Init, StackInit, NetworkInit, RelayInit, FInv, Peers, Kept, Framed, Answered, ReplyFromPeer

\* A datagram on its way is from the one socket of its port, which has one endpoint.
LEMMA SamePeer ==
  ASSUME UInv, OInv, FInv, NEW u \in Sockets, Uses(u), NEW d \in Datagram, fate[d] \in InFlight,
         dport(d) = PortOf[u]
  PROVE  dgrams[d].dst = peer[u] /\ dgrams[d].sock = u
<1>1. d \in DOMAIN dgrams /\ dgrams[d].sock \in Sockets
  BY SentDatagram DEF UInv, InFlight
<1>2. Uses(dgrams[d].sock)
  BY <1>1 DEF Uses
<1>3. dgrams[d].sock = u
  BY <1>1, <1>2 DEF OInv, OneUser, dport
<1> QED
  BY <1>1, <1>3 DEF FInv, Peers

LEMMA SessionPorts ==
  ASSUME Relay
  PROVE  \A i \in DOMAIN socks : socks[i].port \in UPorts
<1>1. socks \in Seq([port : UPorts, group : UGroups, alive : BOOLEAN, reader : BOOLEAN])
  BY DEF Relay, RelayTypeOK
<1>2. \A i \in DOMAIN socks : socks[i] \in [port : UPorts, group : UGroups, alive : BOOLEAN, reader : BOOLEAN]
  BY <1>1, ElementFacts
<1> QED
  BY <1>2

\* A step that neither opens a socket nor touches the session table or the relay.
LEMMA FQuiet ==
  ASSUME UInv, FInv, UNCHANGED <<ustate, peer, dgrams, sessions, relayVars>>,
         \A k \in DOMAIN usockq' : \E j \in DOMAIN usockq : usockq'[k] = usockq[j],
         \A d \in Datagram :
           /\ fate'[d] \in InFlight => fate[d] \in InFlight
           /\ fate'[d] = "proxied" => fate[d] = "proxied"
           /\ fate'[d] = "relay" => fate[d] = "relay" \/ Matches(dport(d), dgrams[d].dst),
         \A w \in UWorkers : wpc'[w] = "reflect" => wpc[w] = "reflect" /\ wd'[w] = wd[w]
  PROVE  FInv'
<1>1. DOMAIN dgrams \subseteq Datagram
  BY DatagramsBounded DEF UInv
<1>2. \A u \in Sockets : Uses(u)' => Uses(u)
  BY UsersShrink DEF UInv
<1>3. Peers'
  BY DEF FInv, Peers
<1>4. Kept'
  BY <1>1 DEF FInv, Kept, Matches, dport
<1>5. Framed'
  BY <1>1 DEF FInv, Framed, relayVars, dport
<1>6. Answered'
  BY <1>2 DEF FInv, Answered, ReplyFromPeer, Matches, relayVars
<1> QED
  BY <1>3, <1>4, <1>5, <1>6 DEF FInv

LEMMA FStrand ==
  ASSUME UInv, FInv, StrandStep
  PROVE  FInv'
<1>1. UNCHANGED <<ustate, peer, dgrams, fate, workerVars, relayVars>>
  BY DEF StrandStep, StrandNext, OnBind, OnConnect, OnClose, TakeSocketEvent, EndWrite, Reload, Published, stackVars
<1>2. \A k \in DOMAIN usockq' : \E j \in DOMAIN usockq : usockq'[k] = usockq[j]
  <2>1. CASE UNCHANGED usockq
    BY <2>1
  <2>2. CASE usockq # <<>> /\ usockq' = Tail(usockq)
    BY <2>2, QueueFacts DEF UInv, Stack, StackTypeOK
  <2> QED
    BY <2>1, <2>2 DEF StrandStep, StrandNext, OnBind, OnConnect, OnClose, TakeSocketEvent, EndWrite, Reload, Published, stackVars
<1> QED
  BY <1>1, <1>2, FQuiet DEF workerVars

\* The entry a worker writes is the one every datagram and answer of the port goes by.
LEMMA FSave ==
  ASSUME UInv, OInv, FInv, NEW w \in UWorkers, SaveSession(w), UNCHANGED relayVars
  PROVE  FInv'
<1> DEFINE p == dport(wd[w])
           u == dgrams[wd[w]].sock
           s == [dst |-> dgrams[wd[w]].dst, group |-> wte[w].group, sock |-> wte[w].sock]
<1>1. /\ sessions' = [sessions EXCEPT ![p] = s] /\ wpc[w] = "upsert"
      /\ UNCHANGED <<ustate, peer, usockq, dgrams, fate, wd>> /\ s.dst = dgrams[wd[w]].dst
      /\ wpc' = [wpc EXCEPT ![w] = "reflect"]
  BY DEF SaveSession, upsert, sent_from, GoTo, stackVars
<1>2. wd[w] \in Datagram /\ fate[wd[w]] = "worker"
  BY <1>1 DEF UInv, Workers
<1>3. wd[w] \in DOMAIN dgrams /\ u \in Sockets /\ p \in UPorts /\ p = PortOf[u] /\ Uses(u)
  BY <1>2, SentDatagram DEF UInv, dport, Uses, InFlight
<1>4. s.dst = peer[u]
  BY <1>1, <1>3 DEF FInv, Peers
<1> HIDE DEF s
<1>5. \A q \in UPorts : sessions'[q] = IF q = p THEN s ELSE sessions[q]
  BY <1>1, <1>3 DEF UInv, SessionTable
<1> HIDE DEF p, u
<1>6. Peers' /\ Framed'
  BY <1>1 DEF FInv, Peers, Framed, dport, relayVars
<1>7. Kept'
  <2>1. ASSUME NEW d \in Datagram, fate[d] \in InFlight, Matches(dport(d), dgrams[d].dst) \/ dport(d) = p
        PROVE  sessions'[dport(d)] = None \/ sessions'[dport(d)].dst = dgrams[d].dst
    <3>1. dport(d) \in UPorts
      BY <2>1, SentDatagram DEF UInv, InFlight
    <3>2. CASE dport(d) = p
      <4>1. dgrams[d].dst = peer[u]
        BY <1>3, <2>1, <3>2, SamePeer
      <4> QED
        BY <1>3, <1>4, <1>5, <3>2, <4>1
    <3>3. CASE dport(d) # p
      BY <1>5, <2>1, <3>1, <3>3 DEF Matches
    <3> QED
      BY <3>2, <3>3
  <2>2. \A v \in UWorkers : wpc'[v] = "reflect" =>
          sessions'[dport(wd[v])] = None \/ sessions'[dport(wd[v])].dst = dgrams[wd[v]].dst
    <3> SUFFICES ASSUME NEW v \in UWorkers, wpc'[v] = "reflect"
                 PROVE  sessions'[dport(wd[v])] = None \/ sessions'[dport(wd[v])].dst = dgrams[wd[v]].dst
      OBVIOUS
    <3>1. wpc[v] = "reflect" \/ v = w
      BY <1>1 DEF UInv, Workers
    <3>2. wd[v] \in Datagram /\ fate[wd[v]] = "worker"
      BY <1>1, <3>1 DEF UInv, Workers
    <3>3. Matches(dport(wd[v]), dgrams[wd[v]].dst) \/ dport(wd[v]) = p
      BY <3>1 DEF FInv, Kept, p
    <3> QED
      BY <2>1, <3>2, <3>3 DEF InFlight
  <2>3. \A d \in DOMAIN dgrams : fate[d] \in {"relay", "proxied"} =>
          sessions'[dport(d)] = None \/ sessions'[dport(d)].dst = dgrams[d].dst
    BY <2>1, DatagramsBounded DEF UInv, FInv, Kept, InFlight
  <2> QED
    BY <1>1, <2>2, <2>3 DEF Kept, Matches, dport
<1>8. Answered'
  <2>1. \A r \in replies : socks[r[1]].port \in UPorts
    BY SessionPorts DEF UInv, Relay
  <2>2. \A r \in replies : sessions'[socks[r[1]].port] = None \/ sessions'[socks[r[1]].port].dst = r[2]
    BY <1>3, <1>4, <1>5, <2>1 DEF FInv, Answered, Matches
  <2> QED
    BY <1>1, <2>2 DEF FInv, Answered, Matches, ReplyFromPeer, relayVars, Uses, Open
<1> QED
  BY <1>6, <1>7, <1>8 DEF FInv

LEMMA FWorker ==
  ASSUME UInv, OInv, FInv, NEW w \in UWorkers, WorkerStep(w)
  PROVE  FInv'
<1>1. UNCHANGED relayVars
  BY DEF WorkerStep
<1>2. wpc[w] # "recv" => wd[w] \in Datagram /\ fate[wd[w]] = "worker"
  BY DEF UInv, Workers
<1>3. wpc \in [UWorkers -> {"recv", "copy", "evaluate", "refresh", "upsert", "reflect"}] /\ wd \in [UWorkers -> 0 .. MaxDatagrams]
  BY DEF UInv, Workers
<1>4. ASSUME NEW d \in Datagram, fate[d] \in InFlight, NEW f \in {"worker", "direct", "relay"},
             fate' = [fate EXCEPT ![d] = f],
             f = "relay" => Matches(dport(d), dgrams[d].dst),
             UNCHANGED <<ustate, peer, usockq, dgrams, sessions>>,
             \A v \in UWorkers : wpc'[v] = "reflect" => wpc[v] = "reflect" /\ wd'[v] = wd[v]
      PROVE  FInv'
  <2>1. \A e \in Datagram : fate'[e] = IF e = d THEN f ELSE fate[e]
    BY <1>4 DEF UInv, Stack, StackTypeOK
  <2>2. \A e \in Datagram :
          /\ fate'[e] \in InFlight => fate[e] \in InFlight
          /\ fate'[e] = "proxied" => fate[e] = "proxied"
          /\ fate'[e] = "relay" => fate[e] = "relay" \/ Matches(dport(e), dgrams[e].dst)
    BY <1>4, <2>1
  <2> QED
    BY <1>1, <1>4, <2>2, FQuiet
<1>5. CASE CopyEntry(w) \/ Refresh(w)
  <2>1. /\ UNCHANGED <<ustate, peer, usockq, dgrams, fate, sessions, wd>>
        /\ GoTo(w, "evaluate") \/ GoTo(w, "refresh")
    BY <1>5 DEF CopyEntry, Refresh, stackVars
  <2>2. \A v \in UWorkers : wpc'[v] = "reflect" => wpc[v] = "reflect" /\ wd'[v] = wd[v]
    BY <1>3, <2>1 DEF GoTo
  <2> QED
    BY <1>1, <2>1, <2>2, FQuiet
<1>6. CASE Evaluate(w)
  <2>1. CASE PassOrReflect(w, "direct")
    <3>1. \A v \in UWorkers : wpc'[v] = "reflect" => wpc[v] = "reflect" /\ wd'[v] = wd[v]
      BY <1>3, <2>1 DEF PassOrReflect, GoTo
    <3> QED
      BY <1>2, <1>4, <1>6, <2>1, <3>1 DEF Evaluate, PassOrReflect, InFlight
  <2>2. CASE GoTo(w, "upsert") /\ UNCHANGED <<stackVars, wd, sessions>>
    <3>1. \A v \in UWorkers : wpc'[v] = "reflect" => wpc[v] = "reflect" /\ wd'[v] = wd[v]
      BY <1>3, <2>2 DEF GoTo
    <3> QED
      BY <1>1, <2>2, <3>1, FQuiet DEF stackVars
  <2> QED
    BY <1>6, <2>1, <2>2 DEF Evaluate
<1>7. CASE Reflect(w)
  <2>1. \A v \in UWorkers : wpc'[v] = "reflect" => wpc[v] = "reflect" /\ wd'[v] = wd[v]
    BY <1>3, <1>7 DEF Reflect, PassOrReflect, GoTo
  <2>2. Matches(dport(wd[w]), dgrams[wd[w]].dst)
    BY <1>7 DEF Reflect, FInv, Kept
  <2> QED
    BY <1>2, <1>4, <1>7, <2>1, <2>2 DEF Reflect, PassOrReflect, InFlight
<1>8. ASSUME NEW d \in InState("net"), Receive(w, d) PROVE FInv'
  <2>1. d \in Datagram /\ fate[d] = "net" /\ UNCHANGED <<ustate, peer, usockq, dgrams, sessions>>
    BY <1>8 DEF Receive, InState
  <2>2. \A v \in UWorkers : wpc'[v] = "reflect" => wpc[v] = "reflect" /\ wd'[v] = wd[v]
    BY <1>3, <1>8 DEF Receive, GoTo
  <2>3. fate' = [fate EXCEPT ![d] = "worker"] \/ fate' = [fate EXCEPT ![d] = "direct"]
    BY <1>8 DEF Receive
  <2> QED
    BY <1>4, <2>1, <2>2, <2>3 DEF InFlight
<1>9. CASE SaveSession(w)
  BY <1>1, <1>9, FSave
<1> QED
  BY <1>5, <1>6, <1>7, <1>8, <1>9 DEF WorkerStep, WorkerNext

\* A socket that has a peer keeps it, and one that gets its first has no answer waiting
\* at its port.
LEMMA FApp ==
  ASSUME ~Lagging, Roaming = {}, UInv, OInv, FInv, AppStep
  PROVE  FInv'
<1> USE DEF FInv
<1>1. UNCHANGED <<sessions, wpc, wd, relayVars>>
  BY DEF AppStep, workerVars
<1>2. DOMAIN dgrams \subseteq Datagram /\ \A d \in DOMAIN dgrams : dgrams[d].sock \in Sockets /\ dgrams[d].dst \in Dsts /\ fate[d] # "unsent"
  <2>1. DOMAIN dgrams \subseteq Datagram /\ DOMAIN dgrams = 1 .. Len(dgrams) /\ Len(dgrams) \in Nat
    BY DatagramsBounded, ElementFacts DEF UInv, Stack, StackTypeOK
  <2>2. \A d \in DOMAIN dgrams : fate[d] # "unsent"
    BY <2>1 DEF UInv, Stack
  <2> QED
    BY <2>1, <2>2, SentDatagram DEF UInv
<1>3. \A r \in replies : r[2] \in Dsts
  BY DEF UInv, Relay, RelayTypeOK
<1>4. \A w \in UWorkers : wpc[w] = "reflect" => wd[w] \in DOMAIN dgrams
  <2>1. \A w \in UWorkers : wpc[w] = "reflect" => wd[w] \in Datagram /\ fate[wd[w]] # "unsent"
    BY DEF UInv, Workers
  <2> QED
    BY <2>1, SentDatagram DEF UInv
\* The datagrams that were there are where they were.
<1>5. ASSUME \A d \in DOMAIN dgrams : dgrams'[d] = dgrams[d] /\ fate'[d] = fate[d],
             \A d \in DOMAIN dgrams' \ DOMAIN dgrams : fate'[d] = "net",
             DOMAIN dgrams \subseteq DOMAIN dgrams'
      PROVE  Kept' /\ Framed'
  <2>1. Kept'
    BY <1>1, <1>4, <1>5 DEF Kept, Matches, dport
  <2>2. Framed'
    BY <1>1, <1>2, <1>5 DEF Framed, relayVars, dport
  <2> QED
    BY <2>1, <2>2
<1>6. ASSUME NEW u \in Sockets, AppBind(u), Quiet(PortOf[u]) PROVE FInv'
  <2>1. UNCHANGED <<peer, dgrams, fate>> /\ ustate' = [ustate EXCEPT ![u] = "bound"]
    BY <1>6 DEF AppBind
  <2>2. Kept' /\ Framed' /\ Peers'
    BY <1>5, <2>1 DEF Peers
  <2>3. \A r \in replies : socks[r[1]].port # PortOf[u]
    BY <1>6 DEF Quiet
  <2>4. \A v \in Sockets : Uses(v)' => Uses(v) \/ v = u
    BY <1>6, SocketUsers DEF AppBind
  <2>5. Answered'
    BY <1>1, <2>1, <2>3, <2>4 DEF Answered, Matches, ReplyFromPeer, relayVars
  <2> QED
    BY <2>2, <2>5
<1>7. ASSUME NEW u \in Sockets, NEW dst \in Dsts, AppUdpConnect(u, dst) PROVE FInv'
  <2>1. /\ UNCHANGED <<dgrams, fate>> /\ ustate' = [ustate EXCEPT ![u] = "connected"]
        /\ peer' = [peer EXCEPT ![u] = dst] /\ peer[u] \in {None, dst} /\ Uses(u)
    BY <1>7 DEF AppUdpConnect, Uses, Open
  <2>2. Kept' /\ Framed'
    BY <1>5, <2>1
  <2>3. \A v \in Sockets : peer[v] \in Dsts => peer'[v] = peer[v]
    BY <2>1, StackAssumption DEF UInv, Stack, StackTypeOK
  <2>4. Peers'
    BY <1>2, <2>1, <2>3 DEF Peers
  <2>5. \A v \in Sockets : Uses(v)' => Uses(v)
    BY <1>7, <2>1, SocketUsers DEF AppUdpConnect
  <2>6. Answered'
    BY <1>1, <1>3, <2>3, <2>5 DEF Answered, Matches, ReplyFromPeer, relayVars
  <2> QED
    BY <2>2, <2>4, <2>6
<1>8. ASSUME NEW u \in Sockets, AppUdpClose(u) PROVE FInv'
  <2>1. /\ UNCHANGED <<peer, dgrams, fate>> /\ ustate' = [ustate EXCEPT ![u] = "closed"] /\ Uses(u)
    BY <1>8 DEF AppUdpClose, Uses, Open
  <2>2. Kept' /\ Framed' /\ Peers'
    BY <1>5, <2>1 DEF Peers
  <2>3. \A v \in Sockets : Uses(v)' => Uses(v)
    BY <1>8, <2>1, SocketUsers DEF AppUdpClose
  <2>4. Answered'
    BY <1>1, <2>1, <2>3 DEF Answered, Matches, ReplyFromPeer, relayVars
  <2> QED
    BY <2>2, <2>4
<1>9. ASSUME NEW u \in Sockets, NEW dst \in Dsts, AppSend(u, dst) PROVE FInv'
  <2> DEFINE n == Len(dgrams) + 1
             x == [sock |-> u, dst |-> dst]
  <2>1. /\ dgrams' = Append(dgrams, x) /\ fate' = [fate EXCEPT ![n] = "net"]
        /\ UNCHANGED <<ustate, usockq>> /\ Len(dgrams) < MaxDatagrams
        /\ peer' = [peer EXCEPT ![u] = dst] /\ peer[u] \in {None, dst} /\ Uses(u)
    BY <1>9 DEF AppSend, Uses, Open
  <2>2. /\ DOMAIN dgrams' = 1 .. n /\ DOMAIN dgrams = 1 .. Len(dgrams) /\ Len(dgrams) \in Nat
        /\ dgrams'[n] = x /\ \A i \in DOMAIN dgrams : dgrams'[i] = dgrams[i]
    BY <2>1, AppendFacts DEF UInv, Stack, StackTypeOK
  <2>3. n \in Datagram /\ n \notin DOMAIN dgrams /\ \A d \in DOMAIN dgrams' : d = n \/ d \in DOMAIN dgrams
    BY <2>1, <2>2, StackAssumption DEF Datagram
  <2>4. x.sock = u /\ x.dst = dst /\ fate'[n] = "net" /\ \A d \in DOMAIN dgrams : fate'[d] = fate[d]
    BY <1>2, <2>1, <2>3 DEF UInv, Stack, StackTypeOK
  <2>5. DOMAIN dgrams \subseteq DOMAIN dgrams'
    BY <2>2
  <2> HIDE DEF n, x
  <2>6. Kept' /\ Framed'
    BY <1>5, <2>2, <2>3, <2>4, <2>5
  <2>7. \A v \in Sockets : peer[v] \in Dsts => peer'[v] = peer[v]
    BY <2>1, StackAssumption DEF UInv, Stack, StackTypeOK
  <2>8. peer'[u] = dst
    BY <2>1 DEF UInv, Stack, StackTypeOK
  <2>9. Peers'
    BY <1>2, <2>2, <2>3, <2>4, <2>7, <2>8 DEF Peers
  <2>10. \A v \in Sockets : Uses(v)' => Uses(v)
    <3> SUFFICES ASSUME NEW v \in Sockets, Uses(v)' PROVE Uses(v)
      OBVIOUS
    <3>1. CASE \E d \in DOMAIN dgrams' : fate'[d] \in InFlight /\ dgrams'[d].sock = v
      BY <2>1, <2>2, <2>3, <2>4, <3>1 DEF Uses
    <3>2. CASE Open(v)' \/ \E k \in DOMAIN usockq' : usockq'[k].sock = v
      BY <2>1, <3>2 DEF Uses, Open
    <3> QED
      BY <3>1, <3>2 DEF Uses, InFlight
  <2>11. Answered'
    BY <1>1, <1>3, <2>7, <2>10 DEF Answered, Matches, ReplyFromPeer, relayVars
  <2> QED
    BY <2>6, <2>9, <2>11
<1> QED
  BY <1>6, <1>7, <1>8, <1>9 DEF AppStep

\* The datagram taken off the queue goes out with its own destination.
LEMMA FEncoded ==
  ASSUME UInv, FInv, TakeReflected("proxied"), NEW i \in Nat, Encode(i),
         sessions[dport(Head(relayq))] # None,
         \A j \in DOMAIN socks : socks'[j].port = socks[j].port,
         socks'[i].port = dport(Head(relayq)),
         \A p \in UPorts : current'[p] # 0 => socks'[current'[p]].port = p
  PROVE  FInv'
<1> DEFINE d == Head(relayq)
<1>1. /\ d \in Datagram /\ fate[d] = "relay" /\ UNCHANGED dgrams
      /\ fate' = [fate EXCEPT ![d] = "proxied"] /\ UNCHANGED <<replies, answers, sessions>>
  BY TakenOff
<1>2. UNCHANGED <<ustate, peer, usockq, wpc, wd>>
  BY DEF TakeReflected
<1>3. d \in DOMAIN dgrams
  BY <1>1, SentDatagram DEF UInv
<1>4. sessions[dport(d)].dst = dgrams[d].dst
  BY <1>1, <1>3 DEF FInv, Kept, Matches
<1>5. via' = [via EXCEPT ![d] = i] /\ sent_to' = [sent_to EXCEPT ![d] = dgrams[d].dst]
  BY <1>4 DEF Encode
<1>6. socks'[i].port = dport(d)
  OBVIOUS
<1> HIDE DEF d
<1>7. /\ \A e \in Datagram : fate'[e] = IF e = d THEN "proxied" ELSE fate[e]
      /\ \A e \in Datagram : via'[e] = IF e = d THEN i ELSE via[e]
      /\ \A e \in Datagram : sent_to'[e] = IF e = d THEN dgrams[d].dst ELSE sent_to[e]
  BY <1>1, <1>5 DEF UInv, Stack, StackTypeOK, Relay, RelayTypeOK
<1>8. DOMAIN dgrams \subseteq Datagram
  BY DatagramsBounded DEF UInv
<1>9. Peers'
  BY <1>1, <1>2 DEF FInv, Peers
<1>10. Kept'
  BY <1>1, <1>2, <1>7, <1>8 DEF FInv, Kept, Matches, dport
<1>11. Framed'
  <2>1. \A e \in DOMAIN dgrams : fate'[e] = "proxied" => socks'[via'[e]].port = dport(e) /\ sent_to'[e] = dgrams[e].dst
    <3> SUFFICES ASSUME NEW e \in DOMAIN dgrams, fate'[e] = "proxied"
                 PROVE  socks'[via'[e]].port = dport(e) /\ sent_to'[e] = dgrams[e].dst
      OBVIOUS
    <3>1. CASE e = d
      BY <1>6, <1>7, <1>8, <3>1
    <3>2. CASE e # d
      <4>1. fate[e] = "proxied" /\ via'[e] = via[e] /\ sent_to'[e] = sent_to[e]
        BY <1>7, <1>8, <3>2
      <4>2. via[e] \in DOMAIN socks
        BY <1>8, <4>1 DEF UInv, Relay
      <4> QED
        BY <4>1, <4>2 DEF FInv, Framed
    <3> QED
      BY <3>1, <3>2
  <2>2. \A e \in Datagram : sent_to'[e] # None => e \in DOMAIN dgrams /\ sent_to'[e] = dgrams[e].dst
    BY <1>3, <1>7 DEF FInv, Framed
  <2> QED
    BY <1>1, <2>1, <2>2 DEF Framed, dport
<1>12. Answered'
  <2>1. \A u \in Sockets : Uses(u)' => Uses(u)
    BY <1>1, <1>2, <1>7, UsersShrink DEF UInv, InFlight
  <2>2. \A r \in replies : socks'[r[1]].port = socks[r[1]].port
    BY DEF UInv, Relay
  <2> QED
    BY <1>1, <1>2, <2>1, <2>2 DEF FInv, Answered, Matches, ReplyFromPeer
<1> QED
  BY <1>9, <1>10, <1>11, <1>12 DEF FInv

LEMMA FRelay ==
  ASSUME UInv, OInv, FInv, RelayStep
  PROVE  FInv'
<1> DEFINE S == [port : UPorts, group : UGroups, alive : BOOLEAN, reader : BOOLEAN]
<1>1. socks \in Seq(S) /\ \A i \in DOMAIN socks : socks[i] \in S
  <2>1. socks \in Seq(S)
    BY DEF UInv, Relay, RelayTypeOK
  <2> QED
    BY <2>1, ElementFacts
<1>2. CASE UpstreamReuse
  <2> DEFINE p == dport(Head(relayq))
  <2>1. /\ TakeReflected("proxied") /\ sessions[p] # None /\ current[p] # 0 /\ Encode(current[p])
        /\ UNCHANGED <<socks, current>>
    BY <1>2 DEF UpstreamReuse, live
  <2>2. Head(relayq) \in Datagram /\ fate[Head(relayq)] = "relay"
    BY <2>1, TakenOff
  <2>3. p \in UPorts
    BY <2>2, SentDatagram DEF UInv
  <2>4. current[p] \in Nat /\ socks[current[p]].port = p
    BY <2>1, <2>3 DEF UInv, Relay, RelayTypeOK, FInv, Framed
  <2> QED
    BY <2>1, <2>4, FEncoded DEF FInv, Framed
<1>3. CASE UpstreamCreate
  <2> DEFINE p == dport(Head(relayq))
             n == Len(socks) + 1
             s == [port |-> p, group |-> sessions[p].group, alive |-> TRUE, reader |-> reader(p)]
  <2>1. /\ TakeReflected("proxied") /\ sessions[p] # None /\ socks' = Append(socks, s)
        /\ current' = [current EXCEPT ![p] = Len(socks')] /\ Encode(Len(socks'))
    BY <1>3 DEF UpstreamCreate
  <2>2. Head(relayq) \in Datagram /\ fate[Head(relayq)] = "relay"
    BY <2>1, TakenOff
  <2>3. p \in UPorts
    BY <2>2, SentDatagram DEF UInv
  <2>4. s \in S /\ s.port = p
    BY <2>1, <2>3 DEF reader, UInv, SessionTable, UdpSession
  <2> HIDE DEF s, p
  <2>5. /\ Len(socks') = n /\ Len(socks) \in Nat /\ DOMAIN socks = 1 .. Len(socks)
        /\ socks'[n] = s /\ \A j \in DOMAIN socks : socks'[j] = socks[j]
    BY <1>1, <2>1, <2>4, AppendFacts
  <2>6. \A q \in UPorts : current'[q] # 0 => socks'[current'[q]].port = q
    <3> SUFFICES ASSUME NEW q \in UPorts, current'[q] # 0 PROVE socks'[current'[q]].port = q
      OBVIOUS
    <3>1. CASE q = p
      BY <2>1, <2>3, <2>4, <2>5, <3>1 DEF UInv, Relay, RelayTypeOK
    <3>2. CASE q # p
      <4>1. current'[q] = current[q] /\ current[q] \in DOMAIN socks
        BY <2>1, <2>3, <2>5, <3>2 DEF UInv, Relay, RelayTypeOK
      <4> QED
        BY <2>5, <4>1 DEF FInv, Framed
    <3> QED
      BY <3>1, <3>2
  <2>7. socks'[n].port = p /\ n \in Nat /\ Encode(n)
    BY <2>1, <2>4, <2>5
  <2> HIDE DEF n
  <2>8. \A j \in DOMAIN socks : socks'[j].port = socks[j].port
    BY <2>5
  <2> QED
    BY <2>1, <2>6, <2>7, <2>8, FEncoded DEF p
<1>4. CASE UpstreamDrop
  <2>1. TakeReflected("lost") /\ UNCHANGED <<socks, current, via, sent_to>>
    BY <1>4 DEF UpstreamDrop
  <2>2. /\ Head(relayq) \in Datagram /\ fate[Head(relayq)] = "relay"
        /\ fate' = [fate EXCEPT ![Head(relayq)] = "lost"]
        /\ UNCHANGED <<ustate, peer, usockq, dgrams, wpc, wd, sessions, relayVars>>
    BY <2>1, TakenOff DEF TakeReflected, relayVars
  <2>3. \A e \in Datagram : fate'[e] = IF e = Head(relayq) THEN "lost" ELSE fate[e]
    BY <2>2 DEF UInv, Stack, StackTypeOK
  <2> QED
    BY <2>2, <2>3, FQuiet DEF InFlight
<1>5. ASSUME NEW p \in UPorts, SweepIdle(p) PROVE FInv'
  <2>1. /\ UNCHANGED <<ustate, peer, usockq, dgrams, fate, wpc, wd, relayVars>>
        /\ sessions' = [sessions EXCEPT ![p] = None]
    BY <1>5 DEF SweepIdle, stackVars
  <2>2. \A q \in UPorts : sessions'[q] = IF q = p THEN None ELSE sessions[q]
    BY <2>1 DEF UInv, SessionTable
  <2>3. \A q \in UPorts : \A dst : Matches(q, dst) => sessions'[q] = None \/ sessions'[q].dst = dst
    BY <2>2 DEF Matches
  <2>4. \A d \in Datagram : fate[d] # "unsent" => dport(d) \in UPorts
    BY SentDatagram DEF UInv
  <2>5. \A w \in UWorkers : wpc[w] = "reflect" => wd[w] \in Datagram /\ fate[wd[w]] # "unsent"
    BY DEF UInv, Workers
  <2>6. \A r \in replies : socks[r[1]].port \in UPorts
    BY SessionPorts DEF UInv, Relay
  <2>7. DOMAIN dgrams \subseteq Datagram
    BY DatagramsBounded DEF UInv
  <2>8. Peers' /\ Framed'
    BY <2>1 DEF FInv, Peers, Framed, relayVars, dport
  <2>9. Kept'
    BY <2>1, <2>3, <2>4, <2>5, <2>7 DEF FInv, Kept, Matches, dport
  <2>10. Answered'
    BY <2>1, <2>3, <2>6 DEF FInv, Answered, Matches, ReplyFromPeer, relayVars, Uses, Open
  <2> QED
    BY <2>8, <2>9, <2>10 DEF FInv
\* A step of one session that stays at its port.
<1>6. ASSUME NEW i \in DOMAIN socks, NEW s \in S, s.port = socks[i].port,
             socks' = [socks EXCEPT ![i] = s], replies' \subseteq replies,
             UNCHANGED <<stackVars, workerVars, current, via, sent_to>>, ReplyFromPeer'
      PROVE  FInv'
  <2>1. \A j \in DOMAIN socks : socks'[j].port = socks[j].port
    BY <1>1, <1>6
  <2>2. \A p \in UPorts : current[p] # 0 => current[p] \in DOMAIN socks
    BY <1>1, ElementFacts DEF UInv, Relay
  <2>3. \A d \in DOMAIN dgrams : fate[d] = "proxied" => via[d] \in DOMAIN socks
    BY DatagramsBounded DEF UInv, Relay
  <2>4. Peers' /\ Kept'
    BY <1>6 DEF stackVars, workerVars, FInv, Peers, Kept, Matches, dport
  <2>5. Framed'
    BY <1>6, <2>1, <2>2, <2>3 DEF stackVars, FInv, Framed, dport
  <2>6. Answered'
    <3>1. \A r \in replies' : r \in replies /\ socks'[r[1]].port = socks[r[1]].port
      BY <1>6, <2>1 DEF UInv, Relay
    <3> QED
      BY <1>6, <3>1 DEF stackVars, workerVars, FInv, Answered, Matches, Uses, Open
  <2> QED
    BY <2>4, <2>5, <2>6 DEF FInv
<1>7. ASSUME NEW i \in DOMAIN socks, ControlLost(i) PROVE FInv'
  <2> DEFINE s == [socks[i] EXCEPT !.alive = FALSE]
  <2>1. socks' = [socks EXCEPT ![i] = s] /\ UNCHANGED <<stackVars, workerVars, current, via, sent_to, replies, answers>>
    BY <1>7 DEF ControlLost
  <2>2. s \in S /\ s.port = socks[i].port
    BY <1>1
  <2> HIDE DEF s
  <2>3. ReplyFromPeer'
    BY <2>1 DEF FInv, Answered, ReplyFromPeer
  <2> QED
    BY <1>6, <2>1, <2>2, <2>3
<1>8. ASSUME NEW r \in replies, Downstream(r[1], r[2]) PROVE FInv'
  <2> DEFINE i == r[1]
             s == [socks[i] EXCEPT !.reader = socks[i].alive]
  <2>1. /\ socks' = [socks EXCEPT ![i] = s] /\ replies' \subseteq replies
        /\ UNCHANGED <<stackVars, workerVars, current, via, sent_to>>
        /\ LET x == sessions[socks[i].port]
           IN answers' = IF x = None THEN answers ELSE answers \cup {<<r[2], x.dst>>}
    BY <1>8 DEF Downstream
  <2>2. i \in DOMAIN socks
    BY DEF UInv, Relay
  <2>3. s \in S /\ s.port = socks[i].port
    BY <1>1, <2>2
  <2>4. Matches(socks[i].port, r[2])
    BY DEF FInv, Answered
  <2> HIDE DEF s
  <2>5. ReplyFromPeer'
    BY <2>1, <2>4 DEF FInv, Answered, ReplyFromPeer, Matches
  <2> QED
    BY <1>6, <2>1, <2>2, <2>3, <2>5
<1>9. ASSUME NEW d \in Datagram, PeerDone(d) PROVE FInv'
  <2>1. /\ fate[d] = "proxied" /\ fate' = [fate EXCEPT ![d] = "done"]
        /\ UNCHANGED <<ustate, peer, usockq, dgrams, workerVars, socks, current, via, sent_to, answers>>
        /\ replies' \subseteq replies \cup {<<via[d], sent_to[d]>>}
    BY <1>9 DEF PeerDone
  <2>2. \A e \in Datagram : fate'[e] = IF e = d THEN "done" ELSE fate[e]
    BY <2>1 DEF UInv, Stack, StackTypeOK
  <2>3. d \in DOMAIN dgrams /\ DOMAIN dgrams \subseteq Datagram
    BY <2>1, SentDatagram, DatagramsBounded DEF UInv
  <2>4. Peers'
    BY <2>1 DEF FInv, Peers
  <2>5. Kept'
    BY <2>1, <2>2, <2>3 DEF FInv, Kept, Matches, dport, workerVars
  <2>6. Framed'
    BY <2>1, <2>2, <2>3 DEF FInv, Framed, dport
  <2>7. \A u \in Sockets : Uses(u)' => Uses(u)
    BY <2>1, <2>2, UsersShrink DEF UInv, InFlight
  <2>8. socks[via[d]].port = dport(d) /\ sent_to[d] = dgrams[d].dst /\ Matches(dport(d), dgrams[d].dst)
    BY <2>1, <2>3 DEF FInv, Framed, Kept
  <2>9. \A u \in Sockets : Uses(u) /\ PortOf[u] = dport(d) => peer[u] = dgrams[d].dst
    BY <2>1, SamePeer DEF InFlight
  <2>10. Answered'
    <3>1. \A r \in replies' : /\ Matches(socks[r[1]].port, r[2])
                              /\ \A u \in Sockets : Uses(u) /\ PortOf[u] = socks[r[1]].port => peer[u] = r[2]
      <4> SUFFICES ASSUME NEW r \in replies'
                   PROVE  /\ Matches(socks[r[1]].port, r[2])
                          /\ \A u \in Sockets : Uses(u) /\ PortOf[u] = socks[r[1]].port => peer[u] = r[2]
        OBVIOUS
      <4>1. CASE r \in replies
        BY <4>1 DEF FInv, Answered
      <4>2. CASE r = <<via[d], sent_to[d]>>
        BY <2>8, <2>9, <4>2
      <4> QED
        BY <2>1, <4>1, <4>2
    <3> QED
      BY <2>1, <2>7, <3>1 DEF FInv, Answered, Matches, ReplyFromPeer, workerVars
  <2> QED
    BY <2>4, <2>5, <2>6, <2>10 DEF FInv
<1> QED
  BY <1>2, <1>3, <1>4, <1>5, <1>7, <1>8, <1>9 DEF RelayStep, RelayNext

LEMMA FStep ==
  ASSUME ~Lagging, Roaming = {}
  PROVE  UInv /\ OInv /\ FInv /\ [Next]_vars => FInv'
<1> SUFFICES ASSUME UInv, OInv, FInv, [Next]_vars PROVE FInv'
  OBVIOUS
<1>1. CASE UNCHANGED vars
  BY <1>1, FQuiet DEF vars, stackVars, workerVars
<1> QED
  BY <1>1, FApp, FStrand, FWorker, FRelay DEF Next

LEMMA FAlways == ASSUME ~Lagging, Roaming = {} PROVE Spec => []FInv
BY UAlways, OAlways, FInit, FStep, PTL DEF Spec

\* DestinationKept in every behaviour of sockets that send to one endpoint each and
\* whose ports are not bound anew too early: the entry that another worker, the idle
\* sweep or a later datagram leaves in the session table is the same one.
THEOREM DestinationKeptCorrect ==
  ASSUME ~Lagging, Roaming = {}
  PROVE  Spec => []DestinationKept
<1>1. UInv /\ FInv => DestinationKept
  BY DatagramsBounded DEF UInv, FInv, Framed, DestinationKept
<1> QED
  BY <1>1, UAlways, FAlways, PTL

\* ReplyFromPeer, under the same conditions: what downstream_for_session() (udp_relay.hpp)
\* finds in the session table when the answer arrives is the endpoint that answered.
THEOREM ReplyFromPeerCorrect ==
  ASSUME ~Lagging, Roaming = {}
  PROVE  Spec => []ReplyFromPeer
<1>1. FInv => ReplyFromPeer
  BY DEF FInv, Answered
<1> QED
  BY <1>1, FAlways, PTL
=============================================================================
