-------------------------- MODULE ProxyGroupsProofs --------------------------
(***************************************************************************)
(* The properties of ProxyGroups for any number of HTTP threads, changes,  *)
(* processes and proxies, by two inductive invariants.  BInv relates the   *)
(* group maps and the connections to the configuration: ids that are       *)
(* referred to were given out, and the requests that have still to bring a *)
(* change to the maps are those the maps may differ because of.  DInv says *)
(* what a request that erases a group has established at each of its       *)
(* steps, and that two requests about one group were noticed.              *)
(***************************************************************************)
EXTENDS ProxyGroups, FiniteSetTheorems, TLAPS

AGroup == [id : Nat, ep : Endpoints, made : Nat]
Config == [groups : SUBSET AGroup, next : Nat, rule : Nat \cup {None}]

\* What a request keeps between its steps.
Request ==
  [pc : {"idle", "count", "write", "rules", "clear", "fill", "rewrite"},
   op : {"none", "create", "update", "rule", "delete", "migrate", "replace"},
   about : SUBSET Nat, from : Nat \cup {None}, to : Nat \cup {None} \cup Endpoints, at : Nat]

Shape(r) ==
  /\ r.pc = "idle" => r = Idle
  /\ r.pc = "count" => r.op = "delete"
  /\ r.pc = "write" => r.op \in {"delete", "migrate"}
  /\ r.pc = "rewrite" => r.op = "migrate"
  /\ r.op = "delete" => r.from \in Nat /\ r.about = {r.from}
  /\ r.op = "migrate" => r.from \in Nat /\ r.to \in Nat /\ r.from # r.to /\ r.about = {r.from, r.to}
  /\ r.op = "rule" => r.to \in Nat \cup {None} /\ r.about = {r.to} \ {None}
  /\ r.op \in {"none", "create", "update", "replace"} => r.about = {}

Types ==
  /\ config \in Config /\ mutations \in 0 .. MaxMutations
  /\ config.next <= mutations + 1
  /\ req \in [Threads -> Request] /\ \A t \in Threads : Shape(req[t])
  /\ rule_ \in Nat \cup {None}
  /\ mark \in [Processes -> [group : Nat \cup {None}, manual : BOOLEAN, auto : BOOLEAN]]
  /\ flow \in [Processes -> [st : {"none", "decided", "connected"}, gid : Nat \cup {None},
                             since : Nat, known : BOOLEAN]]
  /\ \A g \in DOMAIN groups_ : g \in Nat /\ groups_[g] \in AGroup /\ groups_[g].id = g
  /\ unsynced \in BOOLEAN /\ broken \in BOOLEAN

\* Ids that are referred to have been given out.
Known(g) == g \in Nat => g < config.next
References ==
  /\ \A x \in config.groups : Known(x.id) /\ x.made <= mutations
  /\ \A g \in DOMAIN groups_ : Known(g) /\ groups_[g].made <= mutations
  /\ Known(config.rule) /\ Known(rule_)
  /\ \A n \in snapshots : n.after.rule \in Nat \cup {None} /\ Known(n.after.rule)
  /\ \A p \in Processes : Known(mark[p].group) /\ Known(flow[p].gid)
  /\ \A t \in Threads : \A g \in req[t].about : Known(g)
  /\ \A g \in overlapped : g \in Nat /\ Known(g)

\* What the groups were made at that a decided connection can find.
Decided ==
  \A p \in Processes :
    /\ flow[p].st = "decided" =>
         /\ flow[p].gid \in Nat
         /\ \A x \in config.groups : x.id = flow[p].gid => x.made <= flow[p].since
         /\ flow[p].gid \in DOMAIN groups_ => groups_[flow[p].gid].made <= flow[p].since
    /\ flow[p].st = "connected" => flow[p].known

\* The maps, once only requests that fill them are under way.
Synced ==
  (~unsynced /\ \A t \in Threads : req[t].pc \notin {"rules", "clear"}) =>
    /\ groups_ = <<>> \/ groups_ = MapOf(config)
    /\ (\A t \in Threads : req[t].pc # "fill") => groups_ = MapOf(config)

BInv == Types /\ References /\ Decided /\ Synced
-----------------------------------------------------------------------------
Unreferred(g) == config.rule # g /\ hijacked(g) = {}

\* Two requests about one group overlap.
Apart == \A t, u \in Threads : t # u => req[t].about \cap req[u].about \subseteq overlapped

\* A request that erases group r.from, or has others refer to r.to.
ErasingBy(r) ==
  /\ r.op = "delete" /\ r.from \notin overlapped =>
       /\ config.rule # r.from
       /\ r.pc # "count" => hijacked(r.from) = {}
       /\ r.pc \in {"count", "write"} <=> r.from \in Ids(config)
  /\ r.op = "migrate" /\ r.from \notin overlapped =>
       /\ r.pc = "write" <=> r.from \in Ids(config)
       /\ r.pc # "write" => config.rule # r.from
  /\ r.op \in {"migrate", "rule"} /\ r.to \notin overlapped \cup {None} => r.to \in Ids(config)

Erasing == \A t \in Threads : ErasingBy(req[t])

\* A group that was erased, when no request is about it.
Erased == \A g \in Nat \ (Ids(config) \cup overlapped) : ~BusyWith(g) => Unreferred(g)

DInv == Apart /\ Erasing /\ Erased
-----------------------------------------------------------------------------
\* What the maps are filled with belongs to the configuration.
LEMMA MapFacts ==
  ASSUME NEW c, NEW g \in DOMAIN MapOf(c)
  PROVE  MapOf(c)[g] \in c.groups /\ MapOf(c)[g].id = g
<1>1. g \in Ids(c) /\ MapOf(c)[g] = CHOOSE x \in c.groups : x.id = g
  BY DEF MapOf
<1>2. \E x \in c.groups : x.id = g
  BY <1>1 DEF Ids
<1> QED
  BY <1>1, <1>2

\* Filling the maps leaves of the old entries only what the new ones lack.
LEMMA FillFacts ==
  ASSUME NEW c
  PROVE  /\ filled(MapOf(c), <<>>) = MapOf(c) /\ filled(MapOf(c), MapOf(c)) = MapOf(c)
         /\ \A f : \A g \in DOMAIN filled(MapOf(c), f) :
              \/ g \in DOMAIN MapOf(c) /\ filled(MapOf(c), f)[g] = MapOf(c)[g]
              \/ g \in DOMAIN f /\ filled(MapOf(c), f)[g] = f[g]
<1>1. DOMAIN <<>> = {}
  OBVIOUS
<1>2. MapOf(c) = [g \in DOMAIN MapOf(c) |-> MapOf(c)[g]]
  BY DEF MapOf
<1> DEFINE m == MapOf(c)
<1> HIDE DEF m
<1>3. filled(m, <<>>) = m /\ filled(m, m) = m
  BY <1>1, <1>2 DEF filled, m
<1>4. \A f : \A g \in DOMAIN filled(m, f) :
        \/ g \in DOMAIN m /\ filled(m, f)[g] = m[g]
        \/ g \in DOMAIN f /\ filled(m, f)[g] = f[g]
  BY DEF filled
<1> QED
  BY <1>3, <1>4 DEF m

LEMMA BInit == Init => BInv
<1> SUFFICES ASSUME Init PROVE BInv
  OBVIOUS
<1> USE DEF Init, StoreInit, InitialConfig
<1> DEFINE x == [id |-> 0, ep |-> Default, made |-> 0]
<1>1. x \in AGroup /\ config.groups = {x} /\ config.next = 1 /\ config.rule = None
  BY GroupsAssumption DEF AGroup
<1>2. config = [groups |-> {x}, next |-> 1, rule |-> None]
  OBVIOUS
<1>3. config \in Config
  BY <1>1, <1>2 DEF Config
<1>4. Idle \in Request /\ Shape(Idle)
  BY GroupsAssumption DEF Idle, Request, Shape
<1>5. \A g \in DOMAIN groups_ : g = 0 /\ groups_[g] = x
  BY <1>1, MapFacts
<1> HIDE DEF x
<1>6. Types
  <2>1. mutations \in 0 .. MaxMutations /\ config.next <= mutations + 1
    BY <1>1, StoreAssumption
  <2>2. req \in [Threads -> Request] /\ \A t \in Threads : Shape(req[t])
    BY <1>4
  <2>3. mark \in [Processes -> [group : Nat \cup {None}, manual : BOOLEAN, auto : BOOLEAN]]
    BY DEF Unmarked
  <2>4. flow \in [Processes -> [st : {"none", "decided", "connected"}, gid : Nat \cup {None},
                               since : Nat, known : BOOLEAN]]
    BY DEF NoFlow
  <2>5. unsynced \in BOOLEAN /\ broken \in BOOLEAN
    OBVIOUS
  <2>6. rule_ \in Nat \cup {None} /\ \A g \in DOMAIN groups_ :
                                   g \in Nat /\ groups_[g] \in AGroup /\ groups_[g].id = g
    BY <1>1, <1>5 DEF x
  <2> HIDE DEF Init, StoreInit, InitialConfig
  <2> QED
    BY <1>3, <2>1, <2>2, <2>3, <2>4, <2>5, <2>6 DEF Types
<1>7. References
  <2>1. ~(None \in Nat) /\ x.id = 0 /\ x.made = 0
    BY GroupsAssumption DEF x
  <2>2. /\ \A y \in config.groups : Known(y.id) /\ y.made <= mutations
        /\ \A g \in DOMAIN groups_ : Known(g) /\ groups_[g].made <= mutations
    <3>1. mutations = 0 /\ config.next = 1 /\ config.groups = {x}
      BY <1>1
    <3>2. \A g \in DOMAIN groups_ : g = 0 /\ groups_[g] = x
      BY <1>5
    <3> HIDE DEF Init, StoreInit, InitialConfig
    <3> QED
      BY <3>1, <3>2, <2>1 DEF Known
  <2>3. \A p \in Processes : Known(mark[p].group) /\ Known(flow[p].gid)
    BY <2>1 DEF Known, Unmarked, NoFlow
  <2>4. \A t \in Threads : req[t].about = {}
    BY DEF Idle
  <2>5. Known(config.rule) /\ Known(rule_) /\ snapshots = {} /\ overlapped = {}
    BY <1>1, <2>1 DEF Known
  <2> QED
    BY <2>2, <2>3, <2>4, <2>5 DEF References
<1>8. Decided /\ Synced
  BY DEF Decided, Synced, NoFlow
<1> QED
  BY <1>6, <1>7, <1>8 DEF BInv

\* A request goes on to another step.
LEMMA Requested ==
  ASSUME Types, References, NEW t \in Threads, NEW q \in Request, Shape(q),
         \A g \in q.about : g < config.next, req' = [req EXCEPT ![t] = q]
  PROVE  /\ req' \in [Threads -> Request] /\ \A u \in Threads : Shape(req'[u])
         /\ \A u \in Threads : \A g \in req'[u].about : g \in Nat => g < config.next
         /\ req'[t] = q /\ \A u \in Threads : u # t => req'[u] = req[u]
BY DEF Types, References, Known

LEMMA IdleFacts == /\ Idle \in Request /\ Shape(Idle) /\ Idle.about = {} /\ Idle.pc = "idle"
                   /\ Idle.op = "none"
BY GroupsAssumption DEF Idle, Request, Shape

\* A change of the configuration gives out at most one id, the next one, and its request
\* has still to bring the change to the maps, unless the save failed.
LEMMA Written ==
  ASSUME BInv, NEW t \in Threads, NEW q \in Request, Shape(q), q.pc = "rules",
         \A g \in q.about : g < config.next,
         NEW c \in Config, config' = c, mutations' = mutations + 1, mutations < MaxMutations,
         c.next \in {config.next, config.next + 1}, c.rule \in Nat => c.rule < config.next,
         \A x \in c.groups :
           \/ x.id = config.next /\ c.next = config.next + 1 /\ x.made = mutations + 1
           \/ \E y \in config.groups : x.id = y.id /\ x.made = y.made,
         \/ req' = [req EXCEPT ![t] = q]
         \/ req' = [req EXCEPT ![t] = Idle] /\ unsynced',
         \A n \in snapshots' : n \in snapshots \/ n.after = c,
         \A g \in overlapped' : g \in overlapped \/ (g \in Nat /\ g < config.next),
         unsynced' \in BOOLEAN, broken' \in BOOLEAN, UNCHANGED <<rule_, mark, groups_, flow>>
  PROVE  BInv'
<1> USE DEF BInv
<1>1. /\ req' \in [Threads -> Request] /\ \A u \in Threads : Shape(req'[u])
      /\ \A u \in Threads : \A g \in req'[u].about : g \in Nat => g < config.next
      /\ req'[t] = q \/ unsynced'
  BY Requested, IdleFacts
<1>2. config.next \in Nat /\ c.next \in Nat /\ mutations \in Nat /\ MaxMutations \in Nat
  BY StoreAssumption DEF Types, Config
<1>3. \A x \in config.groups : x.id \in Nat /\ x.id < config.next /\ x.made \in Nat /\ x.made <= mutations
  BY DEF Types, References, Config, AGroup, Known
<1>4. Types'
  <2>1. mutations' \in 0 .. MaxMutations /\ c.next <= mutations' + 1
    BY <1>2 DEF Types
  <2> QED
    BY <1>1, <2>1 DEF Types
<1>5. \A g : Known(g) => (g \in Nat => g < c.next)
  BY <1>2 DEF Known
<1>6. References'
  <2>1. \A x \in c.groups : (x.id \in Nat => x.id < c.next) /\ x.made <= mutations + 1
    BY <1>2, <1>3
  <2>2. \A g \in DOMAIN groups_ : groups_[g].made <= mutations + 1
    BY <1>2 DEF Types, References, AGroup
  <2>3. c.rule \in Nat => c.rule < c.next
    BY <1>2
  <2>4. \A n \in snapshots' : n.after.rule \in Nat \cup {None} /\ (n.after.rule \in Nat => n.after.rule < c.next)
    <3>1. c.rule \in Nat \cup {None}
      BY DEF Config
    <3> QED
      BY <1>5, <2>3, <3>1 DEF References
  <2>5. \A u \in Threads : \A g \in req'[u].about : g \in Nat => g < c.next
    BY <1>1, <1>2
  <2>6. \A g \in overlapped' : g \in Nat /\ g < c.next
    BY <1>2, <1>5 DEF References
  <2> QED
    BY <1>5, <2>1, <2>2, <2>3, <2>4, <2>5, <2>6 DEF References, Known
<1>7. Decided'
  <2> SUFFICES ASSUME NEW p \in Processes, flow[p].st = "decided", NEW x \in c.groups, x.id = flow[p].gid
               PROVE  x.made <= flow[p].since
    BY DEF Decided
  <2>1. flow[p].gid \in Nat /\ flow[p].gid < config.next
    BY DEF Decided, References, Known
  <2>2. PICK y \in config.groups : x.id = y.id /\ x.made = y.made
    BY <1>2, <2>1
  <2>3. \A z \in config.groups : z.id = flow[p].gid => z.made <= flow[p].since
    BY DEF Decided
  <2> QED
    BY <2>2, <2>3
<1>8. Synced'
  BY <1>1 DEF Synced
<1> QED
  BY <1>4, <1>6, <1>7, <1>8

\* A step of a request, or of the strand, that leaves the configuration, the maps and the
\* connections alone.
LEMMA Stepped ==
  ASSUME BInv, NEW t \in Threads, NEW q \in Request, Shape(q), \A g \in q.about : g \in Nat /\ g < config.next,
         req' = [req EXCEPT ![t] = q], q.pc = "fill" => req[t].pc = "fill",
         q.pc \in {"rules", "clear", "fill"} <=> req[t].pc \in {"rules", "clear", "fill"},
         \A g \in overlapped' : g \in overlapped \/ (g \in Nat /\ g < config.next),
         rule_' \in Nat \cup {None}, Known(rule_'),
         mark' \in [Processes -> [group : Nat \cup {None}, manual : BOOLEAN, auto : BOOLEAN]],
         \A p \in Processes : Known(mark'[p].group),
         broken' \in BOOLEAN, UNCHANGED <<storeVars, groups_, flow, unsynced>>
  PROVE  BInv'
<1> USE DEF BInv, storeVars
<1>1. /\ req' \in [Threads -> Request] /\ \A u \in Threads : Shape(req'[u])
      /\ \A u \in Threads : \A g \in req'[u].about : g \in Nat => g < config.next
      /\ req'[t] = q /\ \A u \in Threads : u # t => req'[u] = req[u]
  BY Requested
<1>2. Types'
  BY <1>1 DEF Types
<1>3. References'
  <2>1. \A g \in overlapped' : g \in Nat /\ g < config.next
    BY DEF References, Known
  <2> QED
    BY <1>1, <2>1 DEF References, Known
<1>4. Decided'
  BY DEF Decided
<1>5. Synced'
  <2>1. MapOf(config)' = MapOf(config)
    BY DEF MapOf, Ids
  <2>2. \A u \in Threads : req'[u].pc \in {"rules", "clear", "fill"} <=> req[u].pc \in {"rules", "clear", "fill"}
    BY <1>1
  <2>3. \A u \in Threads : req'[u].pc = "fill" => req[u].pc = "fill"
    BY <1>1
  <2>4. ASSUME ~unsynced, \A u \in Threads : req'[u].pc \notin {"rules", "clear"}
        PROVE  \A u \in Threads : req[u].pc \notin {"rules", "clear"}
    BY <1>1, <2>4
  <2> QED
    BY <2>1, <2>2, <2>4 DEF Synced
<1> QED
  BY <1>2, <1>3, <1>4, <1>5

LEMMA NowIdle == \A t \in Threads : req[t] = Idle => req[t].pc = "idle" /\ req[t].about = {}
BY IdleFacts

LEMMA MarksKnown ==
  ASSUME BInv
  PROVE  /\ rule_ \in Nat \cup {None} /\ Known(rule_)
         /\ mark \in [Processes -> [group : Nat \cup {None}, manual : BOOLEAN, auto : BOOLEAN]]
         /\ \A p \in Processes : Known(mark[p].group)
         /\ broken \in BOOLEAN /\ \A g \in Ids(config) : g \in Nat /\ g < config.next
         /\ \A t \in Threads : \A g \in req[t].about : g \in Nat /\ g < config.next
BY DEF BInv, Types, References, Ids, Config, AGroup, Known, Request

LEMMA BBegin ==
  ASSUME BInv, NEW t \in Threads, NEW r \in Request, Shape(r), r.pc \in {"count", "write"},
         \A g \in r.about : g \in Nat /\ g < config.next, Begin(t, r)
  PROVE  BInv'
<1>1. \A g \in overlapped' : g \in overlapped \/ (g \in Nat /\ g < config.next)
  BY DEF Begin, Colliding
<1>2. req' = [req EXCEPT ![t] = r] /\ req[t].pc = "idle"
  BY NowIdle DEF Begin
<1>3. UNCHANGED <<storeVars, rule_, mark, groups_, flow, unsynced, broken>>
  BY DEF Begin
<1> QED
  BY <1>1, <1>2, <1>3, MarksKnown, Stepped

LEMMA BCheck ==
  ASSUME BInv, NEW t \in Threads, Delete(t) \/ Migrate(t)
  PROVE  BInv'
<1>1. CASE Delete(t)
  <2>1. PICK g \in Ids(config) :
          Begin(t, [Idle EXCEPT !.pc = "count", !.op = "delete", !.from = g, !.about = {g}])
    BY <1>1 DEF Delete
  <2> DEFINE r == [Idle EXCEPT !.pc = "count", !.op = "delete", !.from = g, !.about = {g}]
  <2>2. g \in Nat /\ g < config.next
    BY MarksKnown
  <2>3. r \in Request /\ Shape(r) /\ r.pc = "count" /\ r.about = {g}
    BY <2>2, GroupsAssumption DEF Idle, Request, Shape
  <2> QED
    BY <2>1, <2>2, <2>3, BBegin
<1>2. CASE Migrate(t)
  <2>1. PICK g \in Ids(config), h \in Ids(config) : g # h /\ 
          Begin(t, [Idle EXCEPT !.pc = "write", !.op = "migrate", !.from = g, !.to = h,
                                !.about = {g, h}])
    BY <1>2 DEF Migrate
  <2> DEFINE r == [Idle EXCEPT !.pc = "write", !.op = "migrate", !.from = g, !.to = h, !.about = {g, h}]
  <2>2. g \in Nat /\ g < config.next /\ h \in Nat /\ h < config.next
    BY MarksKnown
  <2>3. r \in Request /\ Shape(r) /\ r.pc = "write" /\ r.about = {g, h}
    BY <2>1, <2>2, GroupsAssumption DEF Idle, Request, Shape
  <2> QED
    BY <2>1, <2>2, <2>3, BBegin
<1> QED
  BY <1>1, <1>2

LEMMA BCount ==
  ASSUME BInv, NEW t \in Threads, Count(t)
  PROVE  BInv'
<1> DEFINE q == IF hijacked(req[t].from) = {} THEN [req[t] EXCEPT !.pc = "write"] ELSE Idle
<1>1. req[t] \in Request /\ Shape(req[t]) /\ req[t].pc = "count"
  BY DEF BInv, Types, Count
<1>2. q \in Request /\ Shape(q) /\ q.pc \in {"write", "idle"} /\ (q.about = req[t].about \/ q.about = {})
  <2>1. CASE hijacked(req[t].from) = {}
    BY <1>1, <2>1 DEF Shape, Request
  <2>2. CASE hijacked(req[t].from) # {}
    BY <2>2, IdleFacts
  <2> QED
    BY <2>1, <2>2
<1>3. req' = [req EXCEPT ![t] = q] /\ UNCHANGED <<storeVars, rule_, mark, groups_, flow, ghostVars>>
  BY DEF Count
<1> HIDE DEF q
<1> QED
  BY <1>1, <1>2, <1>3, MarksKnown, Stepped DEF ghostVars

LEMMA BApplyRules ==
  ASSUME BInv, NEW t \in Threads, ApplyRules(t)
  PROVE  BInv'
<1>1. PICK n \in snapshots : rule_' = n.after.rule /\ mark' = apply_auto_rules(mark, n.after.rule)
  BY DEF ApplyRules
<1> DEFINE q == [req[t] EXCEPT !.pc = "clear"]
<1>2. /\ req[t].pc = "rules" /\ req' = [req EXCEPT ![t] = q]
      /\ UNCHANGED <<storeVars, groups_, flow, ghostVars>>
  BY DEF ApplyRules, BInv, Types
<1>3. req[t] \in Request /\ Shape(req[t])
  BY DEF BInv, Types
<1>4. q \in Request /\ Shape(q) /\ q.pc = "clear" /\ q.about = req[t].about
  BY <1>2, <1>3 DEF Shape, Request
<1>5. n.after.rule \in Nat \cup {None} /\ Known(n.after.rule)
  BY DEF BInv, References
<1> DEFINE g == n.after.rule
           left(p) == IF ~mark[p].auto THEN mark[p]
                      ELSE IF mark[p].manual THEN [mark[p] EXCEPT !.auto = FALSE] ELSE Unmarked
           M == [group : Nat \cup {None}, manual : BOOLEAN, auto : BOOLEAN]
<1>6. \A p \in Processes : left(p) \in M /\ Known(left(p).group)
  <2>1. Unmarked \in M /\ Known(Unmarked.group)
    BY GroupsAssumption DEF Unmarked, Known
  <2> QED
    BY <2>1, MarksKnown
<1>7. mark' = [p \in Processes |-> IF g = None \/ p \notin RuleMatches \/ left(p).manual THEN left(p)
                                   ELSE [left(p) EXCEPT !.group = g, !.auto = TRUE]]
  BY <1>1 DEF apply_auto_rules
<1> HIDE DEF left, q
<1>8. \A p \in Processes : mark'[p] \in M /\ Known(mark'[p].group)
  BY <1>5, <1>6, <1>7
<1>9. mark' \in [Processes -> M]
  BY <1>7, <1>8
<1> HIDE DEF g
<1> QED
  BY <1>1, <1>2, <1>4, <1>5, <1>8, <1>9, MarksKnown, Stepped DEF ghostVars

LEMMA BRewrite ==
  ASSUME BInv, NEW t \in Threads, Rewrite(t)
  PROVE  BInv'
<1>1. req[t] \in Request /\ Shape(req[t]) /\ req[t].pc = "rewrite"
  BY DEF BInv, Types, Rewrite
<1>2. req[t].to \in Nat /\ req[t].to \in req[t].about
  BY <1>1 DEF Shape
<1>3. req[t].to < config.next
  BY <1>2, MarksKnown
<1>4. mark' = [p \in Processes |-> IF p \in hijacked(req[t].from)
                                   THEN [mark[p] EXCEPT !.group = req[t].to] ELSE mark[p]]
  BY DEF Rewrite
<1>5. \A p \in Processes : /\ mark'[p] \in [group : Nat \cup {None}, manual : BOOLEAN, auto : BOOLEAN]
                           /\ Known(mark'[p].group)
  BY <1>2, <1>3, <1>4, MarksKnown DEF Known
<1>6. mark' \in [Processes -> [group : Nat \cup {None}, manual : BOOLEAN, auto : BOOLEAN]]
  BY <1>4, <1>5
<1>7. req' = [req EXCEPT ![t] = Idle] /\ UNCHANGED <<storeVars, rule_, groups_, flow, ghostVars>>
  BY DEF Rewrite
<1> QED
  BY <1>1, <1>5, <1>6, <1>7, IdleFacts, MarksKnown, Stepped DEF ghostVars

\* The commands of the window change the marks of some processes.
LEMMA BHijack ==
  ASSUME BInv, NEW ps \in SUBSET Processes, Hijack(ps) \/ Unhijack(ps)
  PROVE  BInv'
<1> DEFINE M == [group : Nat \cup {None}, manual : BOOLEAN, auto : BOOLEAN]
<1>1. /\ mark' \in [Processes -> M] /\ \A p \in Processes : Known(mark'[p].group)
      /\ \A g \in overlapped' : g \in overlapped \/ (g \in Nat /\ g < config.next)
      /\ UNCHANGED <<storeVars, req, rule_, groups_, flow, unsynced, broken>>
  <2>1. CASE Hijack(ps)
    <3>1. PICK g \in Ids(config) :
            /\ mark' = [p \in Processes |-> IF p \notin ps THEN mark[p]
                                            ELSE [mark[p] EXCEPT !.group = g, !.manual = TRUE]]
            /\ overlapped' = overlapped \cup Colliding({g})
      BY <2>1 DEF Hijack
    <3>2. g \in Nat /\ g < config.next
      BY MarksKnown
    <3>3. \A p \in Processes : mark'[p] \in M /\ Known(mark'[p].group)
      BY <3>1, <3>2, MarksKnown DEF Known
    <3>4. \A h \in Colliding({g}) : h = g
      BY DEF Colliding
    <3> QED
      BY <2>1, <3>1, <3>2, <3>3, <3>4 DEF Hijack
  <2>2. CASE Unhijack(ps)
    <3>1. mark' = [p \in Processes |->
                    IF p \notin ps THEN mark[p]
                    ELSE IF mark[p].auto THEN [mark[p] EXCEPT !.manual = FALSE] ELSE Unmarked]
      BY <2>2 DEF Unhijack
    <3>2. Unmarked \in M /\ Known(Unmarked.group)
      BY GroupsAssumption DEF Unmarked, Known
    <3>3. \A p \in Processes : mark'[p] \in M /\ Known(mark'[p].group)
      BY <3>1, <3>2, MarksKnown
    <3> QED
      BY <2>2, <3>1, <3>3 DEF Unhijack, ghostVars
  <2> QED
    BY <2>1, <2>2
<1>2. 1 \in Threads
  BY StoreAssumption DEF Threads
<1>3. req[1] \in Request /\ Shape(req[1]) /\ req' = [req EXCEPT ![1] = req[1]]
  BY <1>1, <1>2 DEF BInv, Types
<1> HIDE DEF M
<1>4. mark' \in [Processes -> [group : Nat \cup {None}, manual : BOOLEAN, auto : BOOLEAN]]
  BY <1>1 DEF M
<1> QED
  BY <1>1, <1>2, <1>3, <1>4, MarksKnown, Stepped

\* The maps are cleared, then filled.
LEMMA BClearMaps ==
  ASSUME BInv, NEW t \in Threads, ClearMaps(t)
  PROVE  BInv'
<1> USE DEF BInv
<1> DEFINE q == [req[t] EXCEPT !.pc = "fill"]
<1>1. /\ req[t].pc = "clear" /\ groups_' = <<>> /\ req' = [req EXCEPT ![t] = q]
      /\ UNCHANGED <<storeVars, rule_, mark, flow, unsynced, overlapped>> /\ Race(Filling # {})
  BY DEF ClearMaps, Types
<1>2. q \in Request /\ Shape(q) /\ q.pc = "fill" /\ q.about = req[t].about
  BY <1>1 DEF Types, Shape, Request
<1>3. /\ req' \in [Threads -> Request] /\ \A u \in Threads : Shape(req'[u])
      /\ \A u \in Threads : \A g \in req'[u].about : g \in Nat => g < config.next
      /\ req'[t] = q /\ \A u \in Threads : u # t => req'[u] = req[u]
  <2>1. \A g \in q.about : g < config.next
    BY <1>2, MarksKnown
  <2> HIDE DEF q
  <2> QED
    BY <1>1, <1>2, <2>1, Requested
<1>4. broken' \in BOOLEAN /\ DOMAIN groups_' = {}
  <2>1. broken' \in BOOLEAN
    BY <1>1 DEF Race
  <2>2. DOMAIN <<>> = {}
    OBVIOUS
  <2> QED
    BY <1>1, <2>1, <2>2
<1>5. Types'
  BY <1>1, <1>3, <1>4 DEF Types, storeVars
<1>6. References'
  BY <1>1, <1>3, <1>4 DEF References, Known, storeVars
<1>7. Decided'
  BY <1>1, <1>4 DEF Decided, storeVars
<1>8. Synced'
  BY <1>1, <1>2, <1>3 DEF Synced
<1> QED
  BY <1>5, <1>6, <1>7, <1>8

LEMMA BFillMaps ==
  ASSUME BInv, NEW t \in Threads, FillMaps(t)
  PROVE  BInv'
<1> USE DEF BInv
<1> DEFINE q == IF req[t].op = "migrate" THEN [req[t] EXCEPT !.pc = "rewrite"] ELSE Idle
<1>1. /\ req[t].pc = "fill" /\ req' = [req EXCEPT ![t] = q] /\ groups_' = filled(MapOf(config), groups_)
      /\ UNCHANGED <<config, mutations, rule_, mark, flow, unsynced, overlapped>>
      /\ \A n \in snapshots' : n \in snapshots
      /\ Race(Filling # {t})
  BY DEF FillMaps, Notify, source, Types
<1>2. q \in Request /\ Shape(q) /\ q.pc \in {"rewrite", "idle"} /\ (q.about = req[t].about \/ q.about = {})
  <2>1. CASE req[t].op = "migrate"
    BY <1>1, <2>1 DEF Types, Shape, Request
  <2>2. CASE req[t].op # "migrate"
    BY <2>2, IdleFacts
  <2> QED
    BY <2>1, <2>2
<1> HIDE DEF q
<1>3. /\ req' \in [Threads -> Request] /\ \A u \in Threads : Shape(req'[u])
      /\ \A u \in Threads : \A g \in req'[u].about : g \in Nat => g < config.next
      /\ req'[t] = q /\ \A u \in Threads : u # t => req'[u] = req[u]
  <2>1. \A g \in q.about : g < config.next
    BY <1>2, MarksKnown
  <2> QED
    BY <1>1, <1>2, <2>1, Requested
<1>4. broken' \in BOOLEAN
  BY <1>1 DEF Race
<1>5. \A g \in DOMAIN groups_' :
        \/ groups_'[g] \in config.groups /\ groups_'[g].id = g
        \/ g \in DOMAIN groups_ /\ groups_'[g] = groups_[g]
  BY <1>1, FillFacts, MapFacts
<1>6. \A x \in config.groups : x \in AGroup /\ x.id \in Nat /\ Known(x.id) /\ x.made <= mutations
  BY DEF Types, References, Config, AGroup
<1>7. Types'
  <2>1. \A g \in DOMAIN groups_' : g \in Nat /\ groups_'[g] \in AGroup /\ groups_'[g].id = g
    BY <1>5, <1>6 DEF Types
  <2> QED
    BY <1>1, <1>3, <1>4, <2>1 DEF Types
<1>8. References'
  <2>1. \A g \in DOMAIN groups_' : Known(g) /\ groups_'[g].made <= mutations
    BY <1>5, <1>6 DEF References
  <2> QED
    BY <1>1, <1>3, <2>1 DEF References, Known
<1>9. Decided'
  <2>1. ASSUME NEW p \in Processes, flow[p].st = "decided", flow[p].gid \in DOMAIN groups_'
        PROVE  groups_'[flow[p].gid].made <= flow[p].since
    BY <1>5, <2>1 DEF Decided
  <2> QED
    BY <1>1, <2>1 DEF Decided
<1>10. Synced'
  <2>1. MapOf(config)' = MapOf(config)
    BY <1>1 DEF MapOf, Ids
  <2>2. ASSUME ~unsynced', \A u \in Threads : req'[u].pc \notin {"rules", "clear"}
        PROVE  groups_' = MapOf(config)
    <3>1. \A u \in Threads : req[u].pc \notin {"rules", "clear"}
      BY <1>1, <1>3, <2>2
    <3>2. groups_ = <<>> \/ groups_ = MapOf(config)
      BY <1>1, <2>2, <3>1 DEF Synced
    <3> QED
      BY <1>1, <3>2, FillFacts
  <2> QED
    BY <2>1, <2>2 DEF Synced
<1> QED
  BY <1>7, <1>8, <1>9, <1>10

\* A connection is decided, carried or refused, and ended.
LEMMA BFlow ==
  ASSUME BInv, NEW p \in Processes, NEW f, flow' = [flow EXCEPT ![p] = f],
         f \in [st : {"none", "decided", "connected"}, gid : Nat \cup {None},
                since : Nat, known : BOOLEAN],
         Known(f.gid),
         f.st = "decided" => f.gid \in Nat /\ f.since = mutations,
         f.st = "connected" => f.known,
         broken' \in BOOLEAN, UNCHANGED <<storeVars, serviceVars, unsynced, overlapped>>
  PROVE  BInv'
<1> USE DEF BInv, storeVars, serviceVars
<1>1. flow' \in [Processes -> [st : {"none", "decided", "connected"}, gid : Nat \cup {None},
                               since : Nat, known : BOOLEAN]]
      /\ flow'[p] = f /\ \A u \in Processes : u # p => flow'[u] = flow[u]
  BY DEF Types
<1>2. Types'
  BY <1>1 DEF Types
<1>3. References'
  BY <1>1 DEF References, Known
<1>4. Decided'
  BY <1>1 DEF Decided, References
<1>5. Synced'
  <2>1. MapOf(config)' = MapOf(config)
    BY DEF MapOf, Ids
  <2> QED
    BY <2>1 DEF Synced
<1> QED
  BY <1>2, <1>3, <1>4, <1>5

LEMMA BConnection ==
  ASSUME BInv, NEW p \in Processes, Connect(p) \/ LookUp(p) \/ Ended(p)
  PROVE  BInv'
<1> DEFINE F == [st : {"none", "decided", "connected"}, gid : Nat \cup {None},
                 since : Nat, known : BOOLEAN]
<1>1. NoFlow \in F /\ Known(NoFlow.gid) /\ NoFlow.st = "none"
  BY GroupsAssumption DEF NoFlow, Known
<1>2. CASE Connect(p)
  <2> DEFINE f == [NoFlow EXCEPT !.st = "decided", !.gid = mark[p].group, !.since = mutations]
  <2>1. /\ flow' = [flow EXCEPT ![p] = f] /\ mark[p].group # None
        /\ UNCHANGED <<storeVars, serviceVars, ghostVars>>
    BY <1>2 DEF Connect
  <2>2. mark[p].group \in Nat /\ Known(mark[p].group) /\ mutations \in Nat
    BY <2>1, MarksKnown, StoreAssumption DEF BInv, Types
  <2>3. f \in F /\ f.gid = mark[p].group /\ f.st = "decided" /\ f.since = mutations
    BY <2>2 DEF NoFlow
  <2> HIDE DEF f
  <2> QED
    BY <2>1, <2>2, <2>3, BFlow, MarksKnown DEF ghostVars
<1>3. CASE LookUp(p)
  <2> DEFINE g == flow[p].gid
             k == groups_[g].made <= flow[p].since
             f == IF g \in DOMAIN groups_ THEN [NoFlow EXCEPT !.st = "connected", !.known = k] ELSE NoFlow
  <2>1. /\ flow' = [flow EXCEPT ![p] = f] /\ flow[p].st = "decided"
        /\ UNCHANGED <<storeVars, serviceVars, unsynced, overlapped>> /\ Race(Filling # {})
    BY <1>3 DEF LookUp
  <2>2. g \in DOMAIN groups_ => k
    BY <2>1 DEF BInv, Decided
  <2>3. f \in F /\ Known(f.gid) /\ f.st # "decided" /\ (f.st = "connected" => f.known)
    <3>1. CASE g \in DOMAIN groups_
      <4>1. k = TRUE
        BY <2>2, <3>1
      <4>2. f = [NoFlow EXCEPT !.st = "connected", !.known = TRUE]
        BY <3>1, <4>1
      <4> HIDE DEF f
      <4> QED
        BY <1>1, <4>2 DEF NoFlow
    <3>2. CASE g \notin DOMAIN groups_
      BY <1>1, <3>2
    <3> QED
      BY <3>1, <3>2
  <2>4. broken' \in BOOLEAN
    BY <2>1 DEF Race
  <2> HIDE DEF f
  <2> QED
    BY <2>1, <2>3, <2>4, BFlow
<1>4. CASE Ended(p)
  BY <1>1, <1>4, BFlow, MarksKnown DEF Ended, ghostVars
<1> QED
  BY <1>2, <1>3, <1>4

\* The change a request makes.
LEMMA Changed ==
  ASSUME BInv, NEW r \in Request, Shape([r EXCEPT !.pc = "rules"]),
         r.op \in {"create", "update", "rule", "delete", "migrate"},
         r.op = "update" => r.to \in Endpoints,
         \A g \in r.about : g \in Nat /\ g < config.next
  PROVE  LET c == Change(config, r)
         IN /\ c \in Config
            /\ c.next \in {config.next, config.next + 1} /\ (c.rule \in Nat => c.rule < config.next)
            /\ \A x \in c.groups :
                 \/ x.id = config.next /\ c.next = config.next + 1 /\ x.made = mutations + 1
                 \/ \E y \in config.groups : x.id = y.id /\ x.made = y.made
<1> DEFINE c == Change(config, r)
<1> DEFINE s == [r EXCEPT !.pc = "rules"]
<1>00. s.op = r.op /\ s.from = r.from /\ s.to = r.to /\ s.about = r.about /\ Shape(s)
  BY DEF Request
<1> HIDE DEF s
<1>0. /\ config \in Config /\ config.next \in Nat /\ mutations \in Nat
      /\ (config.rule \in Nat => config.rule < config.next)
      /\ \A x \in config.groups : x \in AGroup
  BY StoreAssumption DEF BInv, Types, References, Known, Config
<1>1. CASE r.op = "create"
  <2> DEFINE x == [id |-> config.next, ep |-> Default, made |-> mutations + 1]
  <2>1. c = [config EXCEPT !.groups = config.groups \cup {x}, !.next = config.next + 1]
    BY <1>1 DEF Change, create_group, next_id
  <2>2. x \in AGroup
    BY <1>0, GroupsAssumption DEF AGroup
  <2> HIDE DEF c
  <2>3. c.groups = config.groups \cup {x} /\ c.next = config.next + 1 /\ c.rule = config.rule
    BY <2>1, <1>0 DEF Config
  <2>4. c \in Config
    <3>1. c = [groups |-> config.groups \cup {x}, next |-> config.next + 1, rule |-> config.rule]
      BY <2>1, <1>0 DEF Config
    <3>2. config.groups \cup {x} \in SUBSET AGroup
      BY <1>0, <2>2
    <3>3. config.next + 1 \in Nat /\ config.rule \in Nat \cup {None}
      BY <1>0 DEF Config
    <3> HIDE DEF x
    <3> QED
      BY <3>1, <3>2, <3>3 DEF Config
  <2> QED
    BY <1>0, <2>3, <2>4 DEF c
<1>2. CASE r.op = "update"
  <2> DEFINE patched(x) == IF x.id = r.from THEN [x EXCEPT !.ep = r.to] ELSE x
             G == {patched(x) : x \in config.groups}
  <2>1. c = [config EXCEPT !.groups = G]
    BY <1>2 DEF Change, update_group
  <2>2. \A x \in config.groups : patched(x) \in AGroup /\ patched(x).id = x.id /\ patched(x).made = x.made
    BY <1>0, <1>2 DEF AGroup
  <2>3. \A z \in G : z \in AGroup /\ \E y \in config.groups : z.id = y.id /\ z.made = y.made
    BY <2>2
  <2> HIDE DEF c, G
  <2>4. c \in Config /\ c.groups = G /\ c.next = config.next /\ c.rule = config.rule
    BY <1>0, <2>1, <2>3 DEF Config
  <2> QED
    BY <1>0, <2>3, <2>4 DEF c
<1>3. CASE r.op = "rule"
  <2>1. c = [config EXCEPT !.rule = r.to]
    BY <1>3 DEF Change, set_rule
  <2>2. r.to \in Nat \cup {None} /\ (r.to \in Nat => r.to < config.next)
    BY <1>00, <1>3, GroupsAssumption DEF Shape
  <2> HIDE DEF c
  <2>3. c \in Config /\ c.groups = config.groups /\ c.next = config.next /\ c.rule = r.to
    BY <1>0, <2>1, <2>2 DEF Config
  <2> QED
    BY <1>0, <2>2, <2>3 DEF c
<1>4. CASE r.op = "delete"
  <2>1. c = [config EXCEPT !.groups = {x \in config.groups : x.id # r.from}]
    BY <1>4 DEF Change, without
  <2> HIDE DEF c
  <2>2. c \in Config /\ c.groups = {x \in config.groups : x.id # r.from} /\ c.next = config.next
        /\ c.rule = config.rule
    BY <1>0, <2>1 DEF Config
  <2> QED
    BY <1>0, <2>2 DEF c
<1>5. CASE r.op = "migrate"
  <2> DEFINE u == IF config.rule = r.from THEN r.to ELSE config.rule
             d == [config EXCEPT !.rule = u]
  <2>1. c = [d EXCEPT !.groups = {x \in d.groups : x.id # r.from}]
    BY <1>5 DEF Change, migrate_group, without
  <2>2. u \in Nat \cup {None} /\ (u \in Nat => u < config.next)
    BY <1>00, <1>0, <1>5 DEF Shape, Config
  <2> HIDE DEF c, u
  <2>3. d \in Config /\ d.groups = config.groups /\ d.next = config.next /\ d.rule = u
    BY <1>0, <2>2 DEF Config
  <2> HIDE DEF d
  <2>4. c \in Config /\ c.groups = {x \in config.groups : x.id # r.from} /\ c.next = config.next
        /\ c.rule = u
    BY <2>1, <2>3 DEF Config
  <2> QED
    BY <1>0, <2>2, <2>4 DEF c
<1> QED
  BY <1>1, <1>2, <1>3, <1>4, <1>5

LEMMA BWrite ==
  ASSUME BInv, NEW t \in Threads, NEW r \in Request, r.pc \in {"idle", "write"},
         Shape([r EXCEPT !.pc = "rules"]),
         r.op \in {"create", "update", "rule", "delete", "migrate"},
         r.op = "update" => r.to \in Endpoints,
         \A g \in r.about : g \in Nat /\ g < config.next, 
         r.op = "migrate" => r.from < config.next, Write(t, r)
  PROVE  BInv'
<1> DEFINE q == [r EXCEPT !.pc = "rules", !.at = mutations']
           c == Change(config, r)
<1>1. /\ mutations' = mutations + 1 /\ mutations < MaxMutations /\ config' = c
      /\ \A n \in snapshots' : n \in snapshots \/ n.after = c
  BY DEF Write, Mutate
<1>2. \/ req' = [req EXCEPT ![t] = q]
      \/ req' = [req EXCEPT ![t] = Idle] /\ unsynced'
  BY DEF Write
<1>3. UNCHANGED <<rule_, mark, groups_, flow>> /\ broken' \in BOOLEAN
  BY DEF Write, Race
<1>4. unsynced' \in BOOLEAN
  BY DEF Write
<1>5. \A g \in overlapped' : g \in overlapped \/ (g \in Nat /\ g < config.next)
  <2>1. \A g \in overlapped' : g \in overlapped \/ g \in r.about \/ (r.op = "migrate" /\ g = r.from)
    BY DEF Write, Colliding
  <2>2. r.op = "migrate" => r.from \in Nat
    BY DEF Shape
  <2> QED
    BY <2>1, <2>2
<1>6. mutations' \in Nat
  BY <1>1 DEF BInv, Types
<1>7. q \in Request /\ q.pc = "rules" /\ q.about = r.about
  BY <1>6 DEF Request
<1>8. Shape(q)
  <2>1. /\ q.op = r.op /\ q.from = r.from /\ q.to = r.to /\ q.about = r.about
        /\ [r EXCEPT !.pc = "rules"].op = r.op /\ [r EXCEPT !.pc = "rules"].from = r.from
        /\ [r EXCEPT !.pc = "rules"].to = r.to /\ [r EXCEPT !.pc = "rules"].about = r.about
    BY DEF Request
  <2> HIDE DEF q
  <2> QED
    BY <1>7, <2>1 DEF Shape
<1>9. /\ c \in Config
      /\ c.next \in {config.next, config.next + 1} /\ (c.rule \in Nat => c.rule < config.next)
      /\ \A x \in c.groups :
           \/ x.id = config.next /\ c.next = config.next + 1 /\ x.made = mutations + 1
           \/ \E y \in config.groups : x.id = y.id /\ x.made = y.made
  BY Changed
<1> HIDE DEF q, c
<1>10. \A g \in q.about : g < config.next
  BY <1>7
<1> QED
  BY <1>1, <1>2, <1>3, <1>4, <1>5, <1>7, <1>8, <1>9, <1>10, Written

LEMMA BWrites ==
  ASSUME BInv, NEW t \in Threads, Create(t) \/ Update(t) \/ SetRule(t) \/ WriteChecked(t)
  PROVE  BInv'
<1>0. \A g \in Ids(config) : g \in Nat /\ g < config.next
  BY MarksKnown
<1>1. CASE Create(t)
  <2> DEFINE r == [Idle EXCEPT !.op = "create"]
  <2>1. r \in Request /\ r.pc = "idle" /\ r.op = "create" /\ r.about = {}
    BY GroupsAssumption DEF Idle, Request
  <2>2. Shape([r EXCEPT !.pc = "rules"])
    BY DEF Idle, Shape
  <2>3. Write(t, r)
    BY <1>1 DEF Create, WriteDirectly
  <2> HIDE DEF r
  <2> QED
    BY <2>1, <2>2, <2>3, BWrite
<1>2. CASE Update(t)
  <2>1. PICK g \in Ids(config), e \in Endpoints : Write(t, [Idle EXCEPT !.op = "update", !.from = g, !.to = e])
    BY <1>2 DEF Update, WriteDirectly
  <2> DEFINE r == [Idle EXCEPT !.op = "update", !.from = g, !.to = e]
  <2>2. r \in Request /\ r.pc = "idle" /\ r.op = "update" /\ r.about = {} /\ r.to \in Endpoints
    BY <1>0, GroupsAssumption DEF Idle, Request
  <2>3. Shape([r EXCEPT !.pc = "rules"])
    BY DEF Idle, Shape
  <2>4. Write(t, r)
    BY <2>1
  <2> HIDE DEF r
  <2> QED
    BY <2>2, <2>3, <2>4, BWrite
<1>3. CASE SetRule(t)
  <2>1. PICK g \in Ids(config) \cup {None} :
          Write(t, [Idle EXCEPT !.op = "rule", !.to = g, !.about = {g} \ {None}])
    BY <1>3 DEF SetRule, WriteDirectly
  <2> DEFINE r == [Idle EXCEPT !.op = "rule", !.to = g, !.about = {g} \ {None}]
  <2>2. r \in Request /\ r.pc = "idle" /\ r.op = "rule" /\ r.about = {g} \ {None}
    BY <1>0, GroupsAssumption DEF Idle, Request
  <2>3. Shape([r EXCEPT !.pc = "rules"])
    BY <1>0 DEF Idle, Shape
  <2>4. Write(t, r)
    BY <2>1
  <2>5. \A h \in {g} \ {None} : h \in Nat /\ h < config.next
    BY <1>0
  <2> HIDE DEF r
  <2> QED
    BY <2>2, <2>3, <2>4, <2>5, BWrite
<1>4. CASE WriteChecked(t)
  <2>1. req[t] \in Request /\ Shape(req[t]) /\ req[t].pc = "write" /\ Write(t, req[t])
    BY <1>4 DEF WriteChecked, BInv, Types
  <2>2. req[t].op \in {"delete", "migrate"}
    BY <2>1 DEF Shape
  <2>3. Shape([req[t] EXCEPT !.pc = "rules"])
    BY <2>1 DEF Shape, Request
  <2>4. \A g \in req[t].about : g \in Nat /\ g < config.next
    BY MarksKnown
  <2>5. req[t].op = "migrate" => req[t].from < config.next
    BY <2>1, <2>4 DEF Shape
  <2> QED
    BY <2>1, <2>2, <2>3, <2>4, <2>5, BWrite
<1> QED
  BY <1>1, <1>2, <1>3, <1>4

LEMMA BReplaceText ==
  ASSUME BInv, NEW t \in Threads, ReplaceText(t)
  PROVE  BInv'
<1>1. PICK g \in Ids(config) : 
        /\ Replace(without(config, g))
        /\ req' = [req EXCEPT ![t] = [Idle EXCEPT !.pc = "rules", !.op = "replace", !.at = mutations']]
        /\ unsynced' = FALSE /\ overlapped' = overlapped \cup {g}
        /\ Race(Filling # {}) /\ UNCHANGED <<rule_, mark, groups_, flow>>
  BY DEF ReplaceText
<1> DEFINE q == [Idle EXCEPT !.pc = "rules", !.op = "replace", !.at = mutations']
           c == without(config, g)
<1>2. /\ config \in Config /\ config.next \in Nat /\ mutations \in Nat
      /\ (config.rule \in Nat => config.rule < config.next)
  BY StoreAssumption DEF BInv, Types, References, Known, Config
<1>3. /\ mutations' = mutations + 1 /\ mutations < MaxMutations /\ config' = c
      /\ \A n \in snapshots' : n \in snapshots \/ n.after = c
  BY <1>1 DEF Replace
<1>4. q \in Request /\ Shape(q) /\ q.pc = "rules" /\ q.about = {}
  <2>1. mutations' \in Nat
    BY <1>2, <1>3
  <2>2. q \in Request
    BY <2>1 DEF Idle, Request
  <2>3. q.pc = "rules" /\ q.op = "replace" /\ q.about = {}
    BY DEF Idle
  <2> HIDE DEF q
  <2> QED
    BY <2>2, <2>3 DEF Shape
<1>5. g \in Nat /\ g < config.next
  BY MarksKnown
<1>6. c = [config EXCEPT !.groups = {x \in config.groups : x.id # g}]
  BY DEF without
<1> HIDE DEF c
<1>7. c \in Config /\ c.groups = {x \in config.groups : x.id # g} /\ c.next = config.next
      /\ c.rule = config.rule
  BY <1>2, <1>6 DEF Config
<1>8. req' = [req EXCEPT ![t] = q]
  BY <1>1
<1>9. unsynced' \in BOOLEAN /\ broken' \in BOOLEAN
  BY <1>1 DEF Race
<1>10. \A h \in overlapped' : h \in overlapped \/ (h \in Nat /\ h < config.next)
  BY <1>1, <1>5
<1>11. \A x \in c.groups : \E y \in config.groups : x.id = y.id /\ x.made = y.made
  BY <1>7
<1> HIDE DEF q
<1>12. /\ c.next \in {config.next, config.next + 1} /\ (c.rule \in Nat => c.rule < config.next)
       /\ \A h \in q.about : h < config.next
       /\ UNCHANGED <<rule_, mark, groups_, flow>>
  BY <1>1, <1>2, <1>4, <1>7
<1> QED
  BY <1>3, <1>4, <1>7, <1>8, <1>9, <1>10, <1>11, <1>12, Written

LEMMA BStep == BInv /\ [Next]_vars => BInv'
<1> SUFFICES ASSUME BInv, [Next]_vars PROVE BInv'
  OBVIOUS
<1>1. ASSUME NEW t \in Threads,
             \/ Create(t) \/ Update(t) \/ SetRule(t) \/ ReplaceText(t) \/ Delete(t) \/ Migrate(t)
             \/ Count(t) \/ WriteChecked(t) \/ ApplyRules(t) \/ ClearMaps(t) \/ FillMaps(t) \/ Rewrite(t)
      PROVE  BInv'
  BY <1>1, BWrites, BReplaceText, BCheck, BCount, BApplyRules, BClearMaps, BFillMaps, BRewrite
<1>2. CASE UNCHANGED vars
  <2>1. MapOf(config)' = MapOf(config)
    BY <1>2 DEF MapOf, Ids, vars, storeVars
  <2> USE <1>2 DEF vars, storeVars, serviceVars, ghostVars, BInv
  <2>2. Types' /\ References' /\ Decided'
    BY DEF Types, References, Known, Decided
  <2>3. Synced'
    BY <2>1 DEF Synced
  <2> QED
    BY <2>2, <2>3
<1> QED
  BY <1>1, <1>2, BHijack, BConnection DEF Next

LEMMA BInvariant == Spec => []BInv
<1>1. Init => BInv
  BY BInit
<1>2. BInv /\ [Next]_vars => BInv'
  BY BStep
<1> QED
  BY <1>1, <1>2, PTL DEF Spec

\* sync_groups() fills the maps from the live configuration: once no observer has still to
\* run and no save has failed since, both group maps are those of the configuration,
\* in whatever order the observers of overlapping requests ran.
THEOREM MapsFollowConfigCorrect == Spec => []MapsFollowConfig
<1>1. BInv => MapsFollowConfig
  BY DEF BInv, Synced, Settled, MapsFollowConfig
<1> QED
  BY <1>1, BInvariant, PTL

\* next_group_id is never given out twice, so that a relay that looks a decided group up,
\* however late, finds the group of the decision or none.
THEOREM OwnProxyOrNoneCorrect == Spec => []OwnProxyOrNone
<1>1. BInv => OwnProxyOrNone
  BY DEF BInv, Decided, OwnProxyOrNone
<1> QED
  BY <1>1, BInvariant, PTL

\* Every variable of the groups' world keeps its type; in particular group ids stay within
\* the changes made, and threads within the steps of a request.
THEOREM GroupTypesCorrect == Spec => []TypeOK
<1> SUFFICES ASSUME BInv PROVE TypeOK
  BY BInvariant, PTL
<1> USE DEF BInv
<1>1. config.next \in Nat /\ config.next <= MaxMutations + 1 /\ mutations \in 0 .. MaxMutations
      /\ MaxMutations \in Nat
  BY StoreAssumption DEF Types, Config
<1>2. \A g : g \in Nat /\ Known(g) => g \in Gids
  BY <1>1 DEF Known, Gids
<1>3. \A g \in Nat \cup {None} : Known(g) => g \in Gids \cup {None}
  BY <1>2
<1>4. \A x \in AGroup : Known(x.id) /\ x.made <= mutations => x \in Group
  <2> TAKE x \in AGroup
  <2> HAVE Known(x.id) /\ x.made <= mutations
  <2>1. x.id \in Gids /\ x.made \in 0 .. MaxMutations /\ x.ep \in Endpoints
    BY <1>1, <1>2 DEF AGroup
  <2>2. x = [id |-> x.id, ep |-> x.ep, made |-> x.made]
    BY DEF AGroup
  <2> QED
    BY <2>1, <2>2 DEF Group
<1>5. config.groups \subseteq Group
  BY <1>4 DEF Types, Config, References
<1>6. config.next \in Gids \cup {MaxMutations + 1}
  BY <1>1 DEF Gids
<1>7. config.rule \in Gids \cup {None} /\ rule_ \in Gids \cup {None}
  BY <1>3 DEF Types, Config, References
<1>8. DOMAIN req = Threads /\ \A t \in Threads : req[t].pc \in {"idle", "count", "write", "rules", "clear",
                                       "fill", "rewrite"}
  BY DEF Types, Request
<1>9. mark \in [Processes -> [group : Gids \cup {None}, manual : BOOLEAN, auto : BOOLEAN]]
  <2>1. \A p \in Processes : mark[p] \in [group : Gids \cup {None}, manual : BOOLEAN, auto : BOOLEAN]
    <3> TAKE p \in Processes
    <3>1. mark[p].group \in Gids \cup {None}
      BY <1>3 DEF Types, References
    <3>2. mark[p] \in [group : Nat \cup {None}, manual : BOOLEAN, auto : BOOLEAN]
      BY DEF Types
    <3> QED
      BY <3>1, <3>2
  <2> QED
    BY <2>1 DEF Types
<1>10. \A g \in DOMAIN groups_ : groups_[g] \in Group
  <2> SUFFICES ASSUME NEW g \in DOMAIN groups_ PROVE groups_[g] \in Group
    OBVIOUS
  <2> QED
    BY <1>4 DEF Types, References
<1>11. unsynced \in BOOLEAN /\ broken \in BOOLEAN
  BY DEF Types
<1>12. overlapped \subseteq Gids
  BY <1>2 DEF References
<1> QED
  BY <1>5, <1>6, <1>7, <1>8, <1>9, <1>10, <1>11, <1>12 DEF TypeOK

\* The two ways in which an erased group could be referred to again are a request that is
\* about it, and one that is given its id: neither is left when its eraser is done.
LEMMA Continued ==
  ASSUME BInv, BInv', DInv, NEW t \in Threads,
         \A u \in Threads : u # t => req'[u] = req[u],
         overlapped \subseteq overlapped',
         \A u \in Threads : u # t => req'[t].about \cap req[u].about \subseteq overlapped',
         \A g \in Nat : g < config.next /\ g \in Ids(config)' => g \in Ids(config),
         \A g \in Ids(config) : g \in Ids(config)' \/ g \in overlapped' \/ g \in req[t].about,
         \/ config'.rule \in {config.rule, None} \cup overlapped'
         \/ /\ config'.rule \in Ids(config)'
            /\ \A u \in Threads : u # t => config'.rule \notin req[u].about,
         \A g \in Nat : g \notin overlapped' =>
           \/ hijacked(g)' \subseteq hijacked(g)
           \/ g \in Ids(config)' /\ \A u \in Threads : u # t => g \notin req[u].about,
         ErasingBy(req[t])',
         \A g \in req[t].about \cup Ids(config) :
           g \notin req'[t].about \cup overlapped' \cup Ids(config)' => Unreferred(g)'
  PROVE  DInv'
<1> USE DEF DInv
<1>0. None \notin Nat
  BY GroupsAssumption
<1>1. Apart'
  <2> SUFFICES ASSUME NEW v \in Threads, NEW w \in Threads, v # w
               PROVE  req'[v].about \cap req'[w].about \subseteq overlapped'
    BY DEF Apart
  <2>1. CASE v = t
    BY <2>1
  <2>2. CASE w = t
    BY <2>2
  <2>3. CASE v # t /\ w # t
    BY <2>3 DEF Apart
  <2> QED
    BY <2>1, <2>2, <2>3
<1>2. Erasing'
  <2> SUFFICES ASSUME NEW u \in Threads, u # t
               PROVE  ErasingBy(req[u])'
    BY DEF Erasing
  <2> DEFINE r == req[u]
  <2>1. r' = r /\ ErasingBy(r) /\ Shape(r)
    BY DEF Erasing, BInv, Types
  <2>2. \A g \in r.about : g \in Nat /\ g < config.next
    BY MarksKnown
  <2>3. \A g \in r.about : g \notin overlapped' => (g \in Ids(config)' <=> g \in Ids(config))
    BY <2>2 DEF Apart
  <2>4. \A g \in r.about : g \notin overlapped' /\ config'.rule = g => config.rule = g
    BY <1>0, <2>2
  <2>5. \A g \in r.about : g \notin overlapped' => hijacked(g)' \subseteq hijacked(g)
    BY <2>2
  <2>6. CASE r.op = "delete" /\ r.from \notin overlapped'
    <3>1. r.from \in r.about /\ r.from \notin overlapped
      BY <2>1, <2>6 DEF Shape
    <3>2. config'.rule # r.from
      BY <2>1, <2>4, <2>6, <3>1 DEF ErasingBy
    <3>3. r.pc # "count" => hijacked(r.from)' = {}
      <4>1. r.pc # "count" => hijacked(r.from) = {}
        BY <2>1, <2>6, <3>1 DEF ErasingBy
      <4>2. hijacked(r.from)' \subseteq hijacked(r.from)
        BY <2>1, <2>5, <2>6, <3>1
      <4> QED
        BY <4>1, <4>2
    <3>4. r.pc \in {"count", "write"} <=> r.from \in Ids(config)'
      BY <2>1, <2>3, <2>6, <3>1 DEF ErasingBy
    <3> QED
      BY <2>1, <2>6, <3>2, <3>3, <3>4 DEF ErasingBy
  <2>7. CASE r.op = "migrate"
    <3>1. r.from \in r.about /\ r.to \in r.about
      BY <2>1, <2>7 DEF Shape
    <3> QED
      BY <2>1, <2>3, <2>4, <2>7, <3>1 DEF ErasingBy
  <2>8. CASE r.op = "rule"
    <3>1. r.to # None => r.to \in r.about
      BY <2>1, <2>8 DEF Shape
    <3> QED
      BY <2>1, <2>3, <2>8, <3>1 DEF ErasingBy
  <2> QED
    BY <2>1, <2>6, <2>7, <2>8 DEF ErasingBy
<1>3. Erased'
  <2> SUFFICES ASSUME NEW g \in Nat, g \notin Ids(config)', g \notin overlapped',
                      \A u \in Threads : g \notin req'[u].about
               PROVE  Unreferred(g)'
    BY DEF Erased, BusyWith
  <2>1. CASE g \in req[t].about \cup Ids(config)
    BY <2>1
  <2>2. CASE g \notin req[t].about \cup Ids(config)
    <3>1. Unreferred(g)
      BY <2>2 DEF Erased, BusyWith
    <3>2. hijacked(g)' = {} /\ config'.rule # g
      BY <1>0, <3>1 DEF Unreferred
    <3> QED
      BY <3>2 DEF Unreferred
  <2> QED
    BY <2>1, <2>2
<1> QED
  BY <1>1, <1>2, <1>3

\* A step of a request, or of the window, that leaves the configuration alone.
LEMMA Still ==
  ASSUME BInv, BInv', DInv, NEW t \in Threads, config' = config,
         \A u \in Threads : u # t => req'[u] = req[u],
         overlapped \subseteq overlapped',
         req'[t].about \subseteq req[t].about
           \/ \A u \in Threads : u # t => req'[t].about \cap req[u].about \subseteq overlapped',
         \A g \in Nat : g \notin overlapped' =>
           \/ hijacked(g)' \subseteq hijacked(g)
           \/ g \in Ids(config) /\ \A u \in Threads : u # t => g \notin req[u].about,
         ErasingBy(req[t])',
         \A g \in req[t].about :
           g \notin req'[t].about \cup overlapped' \cup Ids(config) => Unreferred(g)'
  PROVE  DInv'
<1>1. Ids(config)' = Ids(config)
  BY DEF Ids
<1>2. \A u \in Threads : u # t => req'[t].about \cap req[u].about \subseteq overlapped'
  BY DEF DInv, Apart
<1>3. config'.rule \in {config.rule, None} \cup overlapped'
  OBVIOUS
<1> QED
  BY <1>1, <1>2, <1>3, Continued

LEMMA SameMarks == mark' = mark => \A g : hijacked(g)' = hijacked(g)
BY DEF hijacked

LEMMA IdleErases == \A t \in Threads : req'[t] = Idle => ErasingBy(req[t])'
BY DEF ErasingBy, Idle

\* A request that goes on with what it is about.
LEMMA OwnKept ==
  ASSUME NEW t \in Threads, ErasingBy(req[t]), config' = config, overlapped \subseteq overlapped',
         req'[t].op = req[t].op, req'[t].from = req[t].from, req'[t].to = req[t].to,
         req[t].pc \notin {"count", "write"}, req'[t].pc \notin {"count", "write"},
         \A g \in Nat \cup {None} : hijacked(g)' \subseteq hijacked(g), req[t] \in Request
  PROVE  ErasingBy(req[t])'
<1> DEFINE r == req[t]
           s == req'[t]
<1>1. Ids(config)' = Ids(config)
  BY DEF Ids
<1> PICK f : f = r.from
  OBVIOUS
<1>2. ASSUME s.op = "delete", f \notin overlapped'
      PROVE  /\ config'.rule # f
             /\ hijacked(f)' = {}
             /\ f \notin Ids(config)
  <2>1. config.rule # f /\ hijacked(f) = {} /\ f \notin Ids(config)
    BY <1>2 DEF ErasingBy
  <2>2. f \in Nat \cup {None}
    BY DEF Request
  <2> QED
    BY <2>1, <2>2
<1>3. ASSUME s.op = "migrate", s.from \notin overlapped'
      PROVE  config'.rule # s.from /\ s.from \notin Ids(config)
  BY <1>3 DEF ErasingBy
<1>4. s.op \in {"migrate", "rule"} /\ s.to \notin overlapped' \cup {None} => s.to \in Ids(config)
  BY DEF ErasingBy
<1>5. s.op = "delete" /\ s.from \notin overlapped' =>
        config'.rule # s.from /\ {p \in Processes : mark'[p].group = s.from /\ mark'[p].manual} = {}
        /\ s.from \notin Ids(config)
  BY <1>2 DEF hijacked
<1> QED
  BY <1>1, <1>3, <1>4, <1>5 DEF ErasingBy, hijacked

LEMMA DBegin ==
  ASSUME BInv, BInv', DInv, NEW t \in Threads, NEW r \in Request, Begin(t, r),
         ErasingBy(r)', r' = r
  PROVE  DInv'
<1>1. /\ req' = [req EXCEPT ![t] = r] /\ config' = config /\ mark' = mark
      /\ overlapped' = overlapped \cup Colliding(r.about) /\ req[t].about = {}
  BY NowIdle DEF Begin, storeVars
<1>2. req'[t] = r /\ \A u \in Threads : u # t => req'[u] = req[u]
  BY <1>1 DEF BInv, Types
<1>3. \A u \in Threads : u # t => r.about \cap req[u].about \subseteq overlapped'
  BY <1>1 DEF Colliding
<1>4. ErasingBy(req[t])'
  BY <1>2 DEF ErasingBy
<1> QED
  BY <1>1, <1>2, <1>3, <1>4, SameMarks, Still

LEMMA DCheck ==
  ASSUME BInv, BInv', DInv, NEW t \in Threads, Delete(t) \/ Migrate(t)
  PROVE  DInv'
<1>0. Ids(config)' = Ids(config) /\ config' = config
  BY DEF Delete, Migrate, Begin, storeVars, Ids
<1>1. CASE Delete(t)
  <2>1. PICK g \in Ids(config) : config.rule # g /\
          Begin(t, [Idle EXCEPT !.pc = "count", !.op = "delete", !.from = g, !.about = {g}])
    BY <1>1 DEF Delete, in_use
  <2> DEFINE r == [Idle EXCEPT !.pc = "count", !.op = "delete", !.from = g, !.about = {g}]
  <2>2. g \in Nat
    BY MarksKnown
  <2>3. r \in Request
    BY <2>2, GroupsAssumption DEF Idle, Request
  <2>4. r.pc = "count" /\ r.op = "delete" /\ r.from = g
    BY DEF Idle
  <2>5. r' = r
    BY DEF Idle
  <2> HIDE DEF r
  <2>6. ErasingBy(r)'
    BY <1>0, <2>1, <2>4, <2>5 DEF ErasingBy
  <2>7. Begin(t, r)
    BY <2>1 DEF r
  <2> QED
    BY <2>3, <2>5, <2>6, <2>7, DBegin
<1>2. CASE Migrate(t)
  <2>1. PICK g \in Ids(config), h \in Ids(config) : g # h /\ 
          Begin(t, [Idle EXCEPT !.pc = "write", !.op = "migrate", !.from = g, !.to = h,
                                !.about = {g, h}])
    BY <1>2 DEF Migrate
  <2> DEFINE r == [Idle EXCEPT !.pc = "write", !.op = "migrate", !.from = g, !.to = h, !.about = {g, h}]
  <2>2. g \in Nat /\ h \in Nat
    BY MarksKnown
  <2>3. r \in Request
    BY <2>2, GroupsAssumption DEF Idle, Request
  <2>4. r.pc = "write" /\ r.op = "migrate" /\ r.from = g /\ r.to = h
    BY DEF Idle
  <2>5. r' = r
    BY DEF Idle
  <2> HIDE DEF r
  <2>6. ErasingBy(r)'
    BY <1>0, <2>1, <2>4, <2>5 DEF ErasingBy
  <2>7. Begin(t, r)
    BY <2>1 DEF r
  <2> QED
    BY <2>3, <2>5, <2>6, <2>7, DBegin
<1> QED
  BY <1>1, <1>2

LEMMA DCount ==
  ASSUME BInv, BInv', DInv, NEW t \in Threads, Count(t)
  PROVE  DInv'
<1> DEFINE r == req[t]
<1>1. r \in Request /\ Shape(r) /\ r.pc = "count" /\ r.op = "delete" /\ ErasingBy(r)
      /\ r.from \in Nat /\ r.about = {r.from}
  BY DEF BInv, Types, Count, DInv, Erasing, Shape
<1>2. config' = config /\ mark' = mark /\ overlapped' = overlapped
      /\ req' = [req EXCEPT ![t] = IF hijacked(r.from) = {} THEN [r EXCEPT !.pc = "write"] ELSE Idle]
  BY DEF Count, storeVars, ghostVars
<1>3. \A u \in Threads : u # t => req'[u] = req[u]
  BY <1>2 DEF BInv, Types
<1>4. CASE hijacked(r.from) = {}
  <2>1. req'[t] = [r EXCEPT !.pc = "write"]
    BY <1>2, <1>4 DEF BInv, Types
  <2>2. req'[t].pc = "write" /\ req'[t].op = "delete" /\ req'[t].from = r.from /\ req'[t].about = r.about
    BY <1>1, <2>1 DEF Request
  <2>3. Ids(config)' = Ids(config)
    BY <1>2 DEF Ids
  <2>4. {p \in Processes : mark'[p].group = req'[t].from /\ mark'[p].manual} = {}
    BY <1>2, <1>4, <2>2 DEF hijacked
  <2>5. ErasingBy(req[t])'
    <3>1. r.from \notin overlapped => config.rule # r.from /\ r.from \in Ids(config)
      BY <1>1 DEF ErasingBy
    <3> QED
      BY <1>2, <2>2, <2>3, <2>4, <3>1 DEF ErasingBy, hijacked
  <2> QED
    BY <1>2, <1>3, <2>2, <2>5, SameMarks, Still
<1>5. CASE hijacked(r.from) # {}
  <2>1. req'[t] = Idle
    BY <1>2, <1>5 DEF BInv, Types
  <2>2. r.from \in overlapped \cup Ids(config)
    BY <1>1 DEF ErasingBy
  <2> QED
    BY <1>1, <1>2, <1>3, <2>1, <2>2, IdleErases, IdleFacts, SameMarks, Still
<1> QED
  BY <1>4, <1>5

\* The observer sets and takes away marks of the rule only.
LEMMA DApplyRules ==
  ASSUME BInv, BInv', DInv, NEW t \in Threads, ApplyRules(t)
  PROVE  DInv'
<1>1. PICK n \in snapshots : mark' = apply_auto_rules(mark, n.after.rule)
  BY DEF ApplyRules
<1> DEFINE q == [req[t] EXCEPT !.pc = "clear"]
<1>2. /\ req[t].pc = "rules" /\ req' = [req EXCEPT ![t] = q]
      /\ config' = config /\ overlapped' = overlapped
  BY DEF ApplyRules, BInv, Types, storeVars, ghostVars
<1>3. /\ req'[t] = q /\ \A u \in Threads : u # t => req'[u] = req[u]
  BY <1>2 DEF BInv, Types
<1>4. q.pc = "clear" /\ q.op = req[t].op /\ q.from = req[t].from /\ q.to = req[t].to /\ q.about = req[t].about
  BY DEF BInv, Types, Request
<1> HIDE DEF q
<1>5. \A p \in Processes : mark'[p].manual => mark[p].manual /\ mark'[p].group = mark[p].group
  <2> DEFINE g == n.after.rule
             left(p) == IF ~mark[p].auto THEN mark[p]
                        ELSE IF mark[p].manual THEN [mark[p] EXCEPT !.auto = FALSE] ELSE Unmarked
  <2>1. \A p \in Processes : /\ left(p).manual => mark[p].manual /\ left(p).group = mark[p].group
                             /\ left(p) \in [group : Nat \cup {None}, manual : BOOLEAN, auto : BOOLEAN]
    BY GroupsAssumption, MarksKnown DEF Unmarked
  <2>2. mark' = [p \in Processes |-> IF g = None \/ p \notin RuleMatches \/ left(p).manual THEN left(p)
                                     ELSE [left(p) EXCEPT !.group = g, !.auto = TRUE]]
    BY <1>1 DEF apply_auto_rules
  <2> HIDE DEF g, left
  <2> QED
    BY <2>1, <2>2
<1>6. \A g : hijacked(g)' \subseteq hijacked(g)
  BY <1>5 DEF hijacked
<1>7. ErasingBy(req[t])'
  <2>1. ErasingBy(req[t]) /\ req[t] \in Request
    BY DEF DInv, Erasing, BInv, Types
  <2> QED
    BY <1>2, <1>3, <1>4, <1>6, <2>1, OwnKept
<1> QED
  BY <1>2, <1>3, <1>4, <1>6, <1>7, Still

LEMMA DClearMaps ==
  ASSUME BInv, BInv', DInv, NEW t \in Threads, ClearMaps(t)
  PROVE  DInv'
<1> DEFINE q == [req[t] EXCEPT !.pc = "fill"]
<1>1. /\ req[t].pc = "clear" /\ req' = [req EXCEPT ![t] = q]
      /\ config' = config /\ overlapped' = overlapped /\ mark' = mark
  BY DEF ClearMaps, BInv, Types, storeVars
<1>2. /\ req'[t] = q /\ \A u \in Threads : u # t => req'[u] = req[u]
  BY <1>1 DEF BInv, Types
<1>3. q.pc = "fill" /\ q.op = req[t].op /\ q.from = req[t].from /\ q.to = req[t].to /\ q.about = req[t].about
  BY DEF BInv, Types, Request
<1> HIDE DEF q
<1>4. ErasingBy(req[t])'
  <2>1. ErasingBy(req[t]) /\ req[t] \in Request
    BY DEF DInv, Erasing, BInv, Types
  <2> QED
    BY <1>1, <1>2, <1>3, <2>1, OwnKept, SameMarks
<1> QED
  BY <1>1, <1>2, <1>3, <1>4, SameMarks, Still

\* A request that is done leaves the group it erased unreferred to.
LEMMA DFillMaps ==
  ASSUME BInv, BInv', DInv, NEW t \in Threads, FillMaps(t)
  PROVE  DInv'
<1> DEFINE r == req[t]
<1>1. /\ r.pc = "fill" /\ config' = config /\ overlapped' = overlapped /\ mark' = mark
      /\ req' = [req EXCEPT ![t] = IF r.op = "migrate" THEN [r EXCEPT !.pc = "rewrite"] ELSE Idle]
  BY DEF FillMaps, Notify
<1>2. \A u \in Threads : u # t => req'[u] = req[u]
  BY <1>1 DEF BInv, Types
<1>3. ErasingBy(r) /\ Shape(r) /\ r \in Request
  BY DEF DInv, Erasing, BInv, Types
<1>4. CASE r.op = "migrate"
  <2>1. req'[t] = [r EXCEPT !.pc = "rewrite"]
    BY <1>1, <1>4 DEF BInv, Types
  <2>2. req'[t].pc = "rewrite" /\ req'[t].op = r.op /\ req'[t].from = r.from /\ req'[t].to = r.to
        /\ req'[t].about = r.about
    BY <1>3, <2>1 DEF Request
  <2>3. ErasingBy(req[t])'
    BY <1>1, <1>3, <2>2, OwnKept, SameMarks
  <2> QED
    BY <1>1, <1>2, <2>2, <2>3, SameMarks, Still
<1>5. CASE r.op # "migrate"
  <2>1. req'[t] = Idle
    BY <1>1, <1>5 DEF BInv, Types
  <2>2. \A g \in r.about : g \notin overlapped \cup Ids(config) => Unreferred(g)
    <3> TAKE g \in r.about
    <3> HAVE g \notin overlapped \cup Ids(config)
    <3>1. CASE r.op = "delete"
      <4>1. g = r.from
        BY <1>3, <3>1 DEF Shape
      <4> QED
        BY <1>1, <1>3, <3>1, <4>1 DEF ErasingBy, Unreferred
    <3>2. CASE r.op = "rule"
      BY <1>3, <3>2 DEF ErasingBy, Shape
    <3> QED
      BY <1>3, <1>5, <3>1, <3>2 DEF Shape, Request
  <2>3. \A g : Unreferred(g)' <=> Unreferred(g)
    BY <1>1, SameMarks DEF Unreferred
  <2> QED
    BY <1>1, <1>2, <2>1, <2>2, <2>3, IdleErases, IdleFacts, SameMarks, Still
<1> QED
  BY <1>4, <1>5

\* The processes hijacked to the group a migration erased go to the group it was migrated to.
LEMMA DRewrite ==
  ASSUME BInv, BInv', DInv, NEW t \in Threads, Rewrite(t)
  PROVE  DInv'
<1> DEFINE r == req[t]
<1>1. r \in Request /\ Shape(r) /\ r.pc = "rewrite" /\ ErasingBy(r)
  BY DEF BInv, Types, Rewrite, DInv, Erasing
<1>2. /\ r.op = "migrate" /\ r.from \in Nat /\ r.to \in Nat /\ r.to # r.from /\ r.about = {r.from, r.to}
      /\ r.to \in overlapped \cup Ids(config)
      /\ r.from \notin overlapped => config.rule # r.from
  BY <1>1, GroupsAssumption DEF Shape, ErasingBy
<1>3. mark' = [p \in Processes |-> IF p \in hijacked(r.from)
                                   THEN [mark[p] EXCEPT !.group = r.to] ELSE mark[p]]
      /\ config' = config /\ overlapped' = overlapped /\ req' = [req EXCEPT ![t] = Idle]
  BY DEF Rewrite, storeVars, ghostVars
<1>4. req'[t] = Idle /\ \A u \in Threads : u # t => req'[u] = req[u]
  BY <1>3 DEF BInv, Types
<1>5. \A p \in Processes :
        /\ p \in hijacked(r.from) => mark'[p].group = r.to
        /\ p \notin hijacked(r.from) => mark'[p] = mark[p]
  BY <1>3, MarksKnown
<1>6. \A g \in Nat : g = r.from => hijacked(g)' = {}
  <2> SUFFICES ASSUME NEW g \in Nat, g = r.from, NEW p \in Processes, mark'[p].group = g, mark'[p].manual
               PROVE  FALSE
    BY DEF hijacked
  <2>1. p \notin hijacked(r.from)
    BY <1>2, <1>5
  <2> QED
    BY <1>5, <2>1 DEF hijacked
<1>7. \A g \in Nat : g # r.to => hijacked(g)' \subseteq hijacked(g)
  BY <1>5 DEF hijacked
<1>8. r.to \notin overlapped => \A u \in Threads : u # t => r.to \notin req[u].about
  BY <1>2 DEF DInv, Apart
<1>9. \A g \in r.about : g \notin overlapped \cup Ids(config) => Unreferred(g)'
  <2> TAKE g \in r.about
  <2> HAVE g \notin overlapped \cup Ids(config)
  <2>1. g = r.from
    BY <1>2
  <2>2. config'.rule # g
    BY <1>2, <1>3, <2>1
  <2>3. hijacked(g)' = {}
    BY <1>2, <1>6, <2>1
  <2> QED
    BY <2>2, <2>3 DEF Unreferred
<1>10. \A g \in Nat : g \notin overlapped' =>
           \/ hijacked(g)' \subseteq hijacked(g)
           \/ g \in Ids(config) /\ \A u \in Threads : u # t => g \notin req[u].about
  BY <1>2, <1>3, <1>7, <1>8
<1> QED
  BY <1>3, <1>4, <1>9, <1>10, IdleErases, IdleFacts, Still

LEMMA DHijack ==
  ASSUME BInv, BInv', DInv, NEW ps \in SUBSET Processes, Hijack(ps) \/ Unhijack(ps)
  PROVE  DInv'
<1>1. 1 \in Threads
  BY StoreAssumption DEF Threads
<1>2. config' = config /\ req' = req /\ overlapped \subseteq overlapped'
  BY DEF Hijack, Unhijack, storeVars, ghostVars
<1>3. \A g \in Nat : g \notin overlapped' =>
        \/ hijacked(g)' \subseteq hijacked(g)
        \/ g \in Ids(config) /\ \A u \in Threads : g \notin req[u].about
  <2>1. CASE Hijack(ps)
    <3>1. PICK h \in Ids(config) :
            /\ mark' = [p \in Processes |-> IF p \notin ps THEN mark[p]
                                            ELSE [mark[p] EXCEPT !.group = h, !.manual = TRUE]]
            /\ overlapped' = overlapped \cup Colliding({h})
      BY <2>1 DEF Hijack
    <3>2. h \notin overlapped' => \A u \in Threads : h \notin req[u].about
      BY <3>1 DEF Colliding
    <3>3. \A p \in Processes : mark'[p] = mark[p] \/ mark'[p].group = h
      BY <3>1, MarksKnown
    <3>4. \A g : g # h => hijacked(g)' \subseteq hijacked(g)
      BY <3>3 DEF hijacked
    <3> QED
      BY <3>2, <3>4
  <2>2. CASE Unhijack(ps)
    <3>1. mark' = [p \in Processes |->
                    IF p \notin ps THEN mark[p]
                    ELSE IF mark[p].auto THEN [mark[p] EXCEPT !.manual = FALSE] ELSE Unmarked]
      BY <2>2 DEF Unhijack
    <3>2. \A p \in Processes : mark'[p].manual => mark'[p] = mark[p]
      BY <3>1, MarksKnown DEF Unmarked
    <3>3. \A g : hijacked(g)' \subseteq hijacked(g)
      BY <3>2 DEF hijacked
    <3> QED
      BY <3>3
  <2> QED
    BY <2>1, <2>2
<1>4. ErasingBy(req[1])'
  <2> DEFINE r == req[1]
  <2>1. r' = r /\ ErasingBy(r) /\ Shape(r) /\ Ids(config)' = Ids(config)
    BY <1>1, <1>2 DEF DInv, Erasing, BInv, Types, Ids
  <2> PICK f : f = r.from
    OBVIOUS
  <2>2. r.op = "delete" /\ f \notin overlapped' => hijacked(f)' \subseteq hijacked(f)
    <3>1. r.op = "delete" => f \in Nat /\ f \in r.about
      BY <2>1 DEF Shape
    <3> QED
      BY <1>1, <1>3, <3>1
  <2>3. r.op = "delete" /\ r.from \notin overlapped' =>
          /\ config'.rule # r.from
          /\ r.pc # "count" => hijacked(r.from)' = {}
          /\ r.pc \in {"count", "write"} <=> r.from \in Ids(config)'
    <3>1. r.op = "delete" /\ f \notin overlapped' =>
            /\ config'.rule # f
            /\ r.pc # "count" => hijacked(f)' = {}
            /\ r.pc \in {"count", "write"} <=> f \in Ids(config)'
      BY <1>2, <2>1, <2>2 DEF ErasingBy
    <3>2. hijacked(r.from)' = hijacked(f)'
      BY <2>1 DEF hijacked
    <3> QED
      BY <2>1, <3>1, <3>2
  <2>4. r.op = "migrate" /\ r.from \notin overlapped' =>
          /\ r.pc = "write" <=> r.from \in Ids(config)'
          /\ r.pc # "write" => config'.rule # r.from
    BY <1>2, <2>1 DEF ErasingBy
  <2>5. r.op \in {"migrate", "rule"} /\ r.to \notin overlapped' \cup {None} => r.to \in Ids(config)'
    BY <1>2, <2>1 DEF ErasingBy
  <2> QED
    BY <2>1, <2>3, <2>4, <2>5 DEF ErasingBy
<1> QED
  BY <1>1, <1>2, <1>3, <1>4, Still

\* What a change does to the ids in use and to the rule.
LEMMA ChangedIds ==
  ASSUME config \in Config, NEW r \in Request
  PROVE  LET c == Change(config, r)
         IN /\ r.op = "create" => Ids(c) = Ids(config) \cup {config.next} /\ c.rule = config.rule
            /\ r.op = "update" => Ids(c) = Ids(config) /\ c.rule = config.rule
            /\ r.op = "rule" => Ids(c) = Ids(config) /\ c.rule = r.to
            /\ r.op = "delete" => Ids(c) = Ids(config) \ {r.from} /\ c.rule = config.rule
            /\ r.op = "migrate" => /\ Ids(c) = Ids(config) \ {r.from}
                                   /\ c.rule = IF config.rule = r.from THEN r.to ELSE config.rule
<1> DEFINE c == Change(config, r)
<1>1. ASSUME r.op = "create" PROVE Ids(c) = Ids(config) \cup {config.next} /\ c.rule = config.rule
  <2>1. c = [config EXCEPT !.groups = config.groups \cup {[id |-> config.next, ep |-> Default, made |-> mutations + 1]},
                           !.next = config.next + 1]
    BY <1>1 DEF Change, create_group, next_id
  <2> DEFINE x == [id |-> config.next, ep |-> Default, made |-> mutations + 1]
  <2> HIDE DEF c
  <2>2. c.groups = config.groups \cup {x} /\ c.rule = config.rule /\ x.id = config.next
    BY <2>1 DEF Config
  <2> HIDE DEF x
  <2> QED
    BY <2>2 DEF Ids
<1>2. ASSUME r.op = "update" PROVE Ids(c) = Ids(config) /\ c.rule = config.rule
  <2> DEFINE patched(x) == IF x.id = r.from THEN [x EXCEPT !.ep = r.to] ELSE x
             G == {patched(x) : x \in config.groups}
  <2>1. c = [config EXCEPT !.groups = G]
    BY <1>2 DEF Change, update_group
  <2>2. \A x \in config.groups : patched(x).id = x.id
    BY DEF Config, AGroup
  <2>3. {y.id : y \in G} = {x.id : x \in config.groups}
    <3>1. \A y \in G : \E x \in config.groups : y.id = x.id
      BY <2>2
    <3>2. \A x \in config.groups : \E y \in G : y.id = x.id
      <4> TAKE x \in config.groups
      <4>1. patched(x) \in G /\ patched(x).id = x.id
        BY <2>2
      <4> QED
        BY <4>1
    <3> HIDE DEF G
    <3> QED
      BY <3>1, <3>2
  <2> HIDE DEF c, G
  <2>4. c.groups = G /\ c.rule = config.rule
    BY <2>1 DEF Config
  <2> QED
    BY <2>3, <2>4 DEF Ids
<1>3. ASSUME r.op = "rule" PROVE Ids(c) = Ids(config) /\ c.rule = r.to
  <2>1. c = [config EXCEPT !.rule = r.to]
    BY <1>3 DEF Change, set_rule
  <2> HIDE DEF c
  <2> QED
    BY <2>1 DEF Config, Ids
<1>4. ASSUME r.op = "delete" PROVE Ids(c) = Ids(config) \ {r.from} /\ c.rule = config.rule
  <2>1. c = [config EXCEPT !.groups = {x \in config.groups : x.id # r.from}]
    BY <1>4 DEF Change, without
  <2> HIDE DEF c
  <2>2. c.groups = {x \in config.groups : x.id # r.from} /\ c.rule = config.rule
    BY <2>1 DEF Config
  <2> QED
    BY <2>2 DEF Ids
<1>5. ASSUME r.op = "migrate"
      PROVE  /\ Ids(c) = Ids(config) \ {r.from}
             /\ c.rule = IF config.rule = r.from THEN r.to ELSE config.rule
  <2> DEFINE u == IF config.rule = r.from THEN r.to ELSE config.rule
             d == [config EXCEPT !.rule = u]
  <2>1. c = [d EXCEPT !.groups = {x \in d.groups : x.id # r.from}]
    BY <1>5 DEF Change, migrate_group, without
  <2> HIDE DEF c, u
  <2>2. d = [groups |-> config.groups, next |-> config.next, rule |-> u]
    BY DEF Config
  <2> HIDE DEF d
  <2>3. c.groups = {x \in config.groups : x.id # r.from} /\ c.rule = u
    BY <2>1, <2>2
  <2> QED
    BY <2>3 DEF Ids, u
<1> HIDE DEF c
<1> QED
  BY <1>1, <1>2, <1>3, <1>4, <1>5 DEF c

\* A change, saved or not, leaves no reference to a group it erased.
LEMMA DWritten ==
  ASSUME BInv, BInv', DInv, NEW t \in Threads, NEW r \in Request, Write(t, r),
         NEW q \in Request, q = [r EXCEPT !.pc = "rules", !.at = mutations'],
         r = req[t] \/ req[t] = Idle,
         \A g \in Nat : g < config.next /\ g \in Ids(config)' => g \in Ids(config),
         \A g \in Ids(config) : g \in Ids(config)' \/ (g \in req[t].about /\ g \in r.about),
         \/ config'.rule \in {config.rule, None} \cup overlapped'
         \/ config'.rule \in Ids(config)' /\ config'.rule \in r.about,
         ErasingBy(q)',
         \A g \in req[t].about :
           g \notin overlapped' \cup Ids(config)' /\ snapshots' = snapshots => Unreferred(g)'
  PROVE  DInv'
<1>1. /\ snapshots' # snapshots => req' = [req EXCEPT ![t] = q]
      /\ snapshots' = snapshots => req' = [req EXCEPT ![t] = Idle]
      /\ overlapped \subseteq overlapped' /\ Colliding(r.about \ req[t].about) \subseteq overlapped'
      /\ mark' = mark
  BY DEF Write
<1>2. /\ snapshots' # snapshots => req'[t] = q
      /\ snapshots' = snapshots => req'[t] = Idle
      /\ \A u \in Threads : u # t => req'[u] = req[u]
  BY <1>1 DEF BInv, Types
<1>3. q.about = r.about
  BY DEF Request
<1>4. req[t].about \subseteq r.about
  BY IdleFacts
<1>5. \A u \in Threads : u # t => r.about \cap req[u].about \subseteq overlapped'
  <2>1. CASE r = req[t]
    BY <1>1, <2>1 DEF DInv, Apart
  <2>2. CASE req[t] = Idle
    BY <1>1, <2>2, IdleFacts DEF Colliding
  <2> QED
    BY <2>1, <2>2
<1>6. req'[t].about = r.about \/ req'[t].about = {}
  BY <1>2, <1>3, IdleFacts
<1>7. \A u \in Threads : u # t => req'[t].about \cap req[u].about \subseteq overlapped'
  BY <1>5, <1>6
<1>8. ErasingBy(req[t])'
  <2>1. CASE snapshots' # snapshots
    <3>1. req'[t] = q
      BY <1>2, <2>1
    <3> QED
      BY <3>1 DEF ErasingBy
  <2>2. CASE snapshots' = snapshots
    BY <1>2, <2>2, IdleErases
  <2> QED
    BY <2>1, <2>2
<1>9. \A g \in req[t].about \cup Ids(config) :
        g \notin req'[t].about \cup overlapped' \cup Ids(config)' => Unreferred(g)'
  <2> TAKE g \in req[t].about \cup Ids(config)
  <2> HAVE g \notin req'[t].about \cup overlapped' \cup Ids(config)'
  <2>1. g \in req[t].about /\ g \in r.about
    BY <1>4
  <2>2. snapshots' = snapshots
    BY <1>2, <1>3, <2>1
  <2> QED
    BY <2>1, <2>2
<1>10. \/ config'.rule \in {config.rule, None} \cup overlapped'
       \/ /\ config'.rule \in Ids(config)'
          /\ \A u \in Threads : u # t => config'.rule \notin req[u].about
  BY <1>5
<1>11. \A g \in Ids(config) : g \in Ids(config)' \/ g \in overlapped' \/ g \in req[t].about
  OBVIOUS
<1>12. \A g \in Nat : g \notin overlapped' => hijacked(g)' \subseteq hijacked(g)
  BY <1>1, SameMarks
<1> QED
  BY <1>1, <1>2, <1>7, <1>8, <1>9, <1>10, <1>11, <1>12, Continued

\* The three requests that refer to a group or to none, and erase nothing.
LEMMA DWriteDirectly ==
  ASSUME BInv, BInv', DInv, NEW t \in Threads, Create(t) \/ Update(t) \/ SetRule(t)
  PROVE  DInv'
<1>0. (\A g \in Ids(config) : g \in Nat /\ g < config.next) /\ config \in Config
      /\ config.next \in Nat /\ mutations' \in Nat
  BY MarksKnown, StoreAssumption DEF BInv, Types, Config
<1>1. CASE Create(t)
  <2> DEFINE r == [Idle EXCEPT !.op = "create"]
             q == [r EXCEPT !.pc = "rules", !.at = mutations']
             c == Change(config, r)
  <2>1. Write(t, r) /\ req[t] = Idle
    BY <1>1 DEF Create, WriteDirectly
  <2>2. r \in Request /\ r.op = "create"
    BY GroupsAssumption DEF Idle, Request
  <2> HIDE DEF r
  <2>3. q \in Request /\ q.op = "create"
    BY <1>0, <2>2 DEF Request
  <2>4. config' = c
    BY <2>1 DEF Write, Mutate
  <2>5. Ids(c) = Ids(config) \cup {config.next} /\ c.rule = config.rule
    BY <1>0, <2>2, ChangedIds
  <2>6. Ids(config)' = Ids(c)
    BY <2>4 DEF Ids
  <2>7. PICK s : s = q
    OBVIOUS
  <2> HIDE DEF q, c
  <2>8. ErasingBy(s)'
    BY <2>3, <2>7 DEF ErasingBy
  <2>9. \A g \in Nat : g < config.next /\ g \in Ids(config)' => g \in Ids(config)
    BY <1>0, <2>5, <2>6
  <2>10. config'.rule = config.rule /\ \A g \in Ids(config) : g \in Ids(config)'
    BY <2>4, <2>5, <2>6
  <2> QED
    BY <2>1, <2>2, <2>3, <2>7, <2>8, <2>9, <2>10, IdleFacts, DWritten DEF q
<1>2. CASE Update(t)
  <2>1. PICK g \in Ids(config), e \in Endpoints :
          req[t] = Idle /\ Write(t, [Idle EXCEPT !.op = "update", !.from = g, !.to = e])
    BY <1>2 DEF Update, WriteDirectly
  <2> DEFINE r == [Idle EXCEPT !.op = "update", !.from = g, !.to = e]
             q == [r EXCEPT !.pc = "rules", !.at = mutations']
             c == Change(config, r)
  <2>2. r \in Request /\ r.op = "update"
    BY <1>0, GroupsAssumption DEF Idle, Request
  <2>3. Write(t, r)
    BY <2>1
  <2> HIDE DEF r
  <2>4. q \in Request /\ q.op = "update"
    BY <1>0, <2>2 DEF Request
  <2>5. config' = c
    BY <2>3 DEF Write, Mutate
  <2>6. Ids(c) = Ids(config) /\ c.rule = config.rule
    BY <1>0, <2>2, ChangedIds
  <2>7. Ids(config)' = Ids(c)
    BY <2>5 DEF Ids
  <2>8. PICK s : s = q
    OBVIOUS
  <2> HIDE DEF q, c
  <2>9. ErasingBy(s)'
    BY <2>4, <2>8 DEF ErasingBy
  <2> QED
    BY <2>1, <2>2, <2>3, <2>4, <2>5, <2>6, <2>7, <2>8, <2>9, IdleFacts, DWritten DEF q
<1>3. CASE SetRule(t)
  <2>1. PICK g \in Ids(config) \cup {None} :
          req[t] = Idle /\ Write(t, [Idle EXCEPT !.op = "rule", !.to = g, !.about = {g} \ {None}])
    BY <1>3 DEF SetRule, WriteDirectly
  <2> DEFINE r == [Idle EXCEPT !.op = "rule", !.to = g, !.about = {g} \ {None}]
             q == [r EXCEPT !.pc = "rules", !.at = mutations']
             c == Change(config, r)
  <2>2. r \in Request /\ r.op = "rule" /\ r.to = g /\ r.about = {g} \ {None}
    BY <1>0, GroupsAssumption DEF Idle, Request
  <2>3. Write(t, r)
    BY <2>1
  <2> HIDE DEF r
  <2>4. q \in Request /\ q.op = "rule" /\ q.to = g
    BY <1>0, <2>2 DEF Request
  <2>5. config' = c
    BY <2>3 DEF Write, Mutate
  <2>6. Ids(c) = Ids(config) /\ c.rule = g
    BY <1>0, <2>2, ChangedIds
  <2>7. Ids(config)' = Ids(c)
    BY <2>5 DEF Ids
  <2>8. PICK s : s = q
    OBVIOUS
  <2> HIDE DEF q, c
  <2>9. ErasingBy(s)'
    BY <2>4, <2>6, <2>7, <2>8 DEF ErasingBy
  <2>10. config'.rule = None \/ (config'.rule \in Ids(config)' /\ config'.rule \in r.about)
    BY <2>2, <2>5, <2>6, <2>7
  <2> QED
    BY <2>1, <2>2, <2>3, <2>4, <2>6, <2>7, <2>8, <2>9, <2>10, IdleFacts, DWritten DEF q
<1> QED
  BY <1>1, <1>2, <1>3

LEMMA DWriteChecked ==
  ASSUME BInv, BInv', DInv, NEW t \in Threads, WriteChecked(t)
  PROVE  DInv'
<1> PICK r : r = req[t]
  OBVIOUS
<1> DEFINE q == [r EXCEPT !.pc = "rules", !.at = mutations']
           c == Change(config, r)
<1>1. /\ r \in Request /\ Shape(r) /\ r.pc = "write" /\ Write(t, r) /\ ErasingBy(r)
      /\ config \in Config /\ mutations' \in Nat
  BY DEF WriteChecked, BInv, Types, DInv, Erasing
<1>2. /\ r.op \in {"delete", "migrate"} /\ r.from \in Nat /\ r.from \in r.about
      /\ r.op = "delete" => r.about = {r.from}
      /\ r.op = "migrate" => r.to \in Nat /\ r.to # r.from /\ r.about = {r.from, r.to}
  BY <1>1 DEF Shape
<1>3. q \in Request /\ q.pc = "rules" /\ q.op = r.op /\ q.from = r.from /\ q.to = r.to
  BY <1>1 DEF Request
<1>4. config' = c
  BY <1>1 DEF Write, Mutate
<1>5. /\ Ids(c) = Ids(config) \ {r.from}
      /\ r.op = "delete" => c.rule = config.rule
      /\ r.op = "migrate" => c.rule = IF config.rule = r.from THEN r.to ELSE config.rule
  BY <1>1, <1>2, ChangedIds
<1>6. Ids(config)' = Ids(c)
  BY <1>4 DEF Ids
<1>7. overlapped \subseteq overlapped' /\ mark' = mark
      /\ (r.op = "migrate" /\ snapshots' = snapshots => r.from \in overlapped')
  BY <1>1 DEF Write
<1>8. /\ r.op = "delete" /\ r.from \notin overlapped => config.rule # r.from /\ hijacked(r.from) = {}
      /\ r.op = "migrate" /\ r.to \notin overlapped => r.to \in Ids(config)
  BY <1>1, <1>2, GroupsAssumption DEF ErasingBy
<1>9. PICK s : s = q
  OBVIOUS
<1> HIDE DEF q, c
<1>10. ErasingBy(s)'
  <2>1. CASE r.op = "delete"
    <3>1. r.from \notin overlapped' => config'.rule # r.from /\ r.from \notin Ids(config)'
      BY <1>4, <1>5, <1>6, <1>7, <1>8, <2>1
    <3>2. r.from \notin overlapped' => hijacked(r.from)' = {}
      BY <1>7, <1>8, <2>1 DEF hijacked
    <3> QED
      BY <1>3, <1>9, <2>1, <3>1, <3>2 DEF ErasingBy, hijacked
  <2>2. CASE r.op = "migrate"
    <3>1. config'.rule # r.from /\ r.from \notin Ids(config)'
      BY <1>2, <1>4, <1>5, <1>6, <2>2
    <3>2. r.to \notin overlapped' => r.to \in Ids(config)'
      BY <1>2, <1>5, <1>6, <1>7, <1>8, <2>2
    <3> QED
      BY <1>3, <1>9, <2>2, <3>1, <3>2 DEF ErasingBy
  <2> QED
    BY <1>2, <2>1, <2>2
<1>11. \/ config'.rule \in {config.rule, None}
       \/ config'.rule \in overlapped'
       \/ config'.rule \in Ids(config)' /\ config'.rule \in r.about
  BY <1>2, <1>4, <1>5, <1>6, <1>7, <1>8
<1>12. \A g \in r.about : g \notin overlapped' \cup Ids(config)' /\ snapshots' = snapshots => Unreferred(g)'
  <2> TAKE g \in r.about
  <2> HAVE g \notin overlapped' \cup Ids(config)' /\ snapshots' = snapshots
  <2>1. CASE r.op = "delete"
    <3>1. g = r.from /\ config'.rule # g /\ hijacked(g) = {}
      BY <1>2, <1>4, <1>5, <1>7, <1>8, <2>1
    <3>2. hijacked(g)' = {}
      BY <1>7, <3>1, SameMarks
    <3> QED
      BY <3>1, <3>2 DEF Unreferred
  <2>2. CASE r.op = "migrate"
    BY <1>2, <1>5, <1>6, <1>7, <1>8, <2>2
  <2> QED
    BY <1>2, <2>1, <2>2
<1>13. \A g \in Ids(config) : g \in Ids(config)' \/ (g \in req[t].about /\ g \in r.about)
  BY <1>2, <1>5, <1>6
<1>14. \A g \in Nat : g < config.next /\ g \in Ids(config)' => g \in Ids(config)
  BY <1>5, <1>6
<1> QED
  BY <1>1, <1>3, <1>9, <1>10, <1>11, <1>12, <1>13, <1>14, DWritten DEF q

\* A replaced configuration may lack a group that is referred to; the group counts as overlapped.
LEMMA DReplaceText ==
  ASSUME BInv, BInv', DInv, NEW t \in Threads, ReplaceText(t)
  PROVE  DInv'
<1>1. PICK g \in Ids(config) : 
        /\ config' = without(config, g) /\ req[t] = Idle
        /\ req' = [req EXCEPT ![t] = [Idle EXCEPT !.pc = "rules", !.op = "replace", !.at = mutations']]
        /\ overlapped' = overlapped \cup {g} /\ mark' = mark
  BY DEF ReplaceText, Replace
<1> DEFINE q == [Idle EXCEPT !.pc = "rules", !.op = "replace", !.at = mutations']
           c == without(config, g)
<1>2. q.op = "replace" /\ q.about = {}
  BY DEF Idle
<1>3. req'[t] = q /\ \A u \in Threads : u # t => req'[u] = req[u]
  BY <1>1 DEF BInv, Types
<1> HIDE DEF q
<1>4. c = [config EXCEPT !.groups = {x \in config.groups : x.id # g}]
  BY DEF without
<1> HIDE DEF c
<1>5. c.groups = {x \in config.groups : x.id # g} /\ c.rule = config.rule
  BY <1>4 DEF BInv, Types, Config
<1>6. Ids(config)' = Ids(config) \ {g} /\ config'.rule = config.rule
  BY <1>1, <1>5 DEF Ids, c
<1>7. ErasingBy(req[t])'
  BY <1>2, <1>3 DEF ErasingBy
<1>8. \A h \in req[t].about \cup Ids(config) :
        h \notin req'[t].about \cup overlapped' \cup Ids(config)' => Unreferred(h)'
  BY <1>1, <1>6, IdleFacts
<1>9. \A h \in Nat : h \notin overlapped' => hijacked(h)' \subseteq hijacked(h)
  BY <1>1, SameMarks
<1> QED
  BY <1>1, <1>2, <1>3, <1>6, <1>7, <1>8, <1>9, Continued

LEMMA DConnection ==
  ASSUME BInv, DInv, UNCHANGED <<config, req, mark, overlapped>>
  PROVE  DInv'
<1>1. Ids(config)' = Ids(config) /\ \A g : hijacked(g)' = hijacked(g)
  BY SameMarks DEF Ids
<1>2. Apart'
  BY DEF DInv, Apart
<1>3. Erasing'
  <2> SUFFICES ASSUME NEW t \in Threads PROVE ErasingBy(req[t])'
    BY DEF Erasing
  <2>1. ErasingBy(req[t])
    BY DEF DInv, Erasing
  <2> QED
    BY <1>1, <2>1 DEF ErasingBy, hijacked
<1>4. Erased'
  <2> SUFFICES ASSUME NEW g \in Nat \ (Ids(config) \cup overlapped), ~BusyWith(g)
               PROVE  Unreferred(g)'
    BY <1>1 DEF Erased, BusyWith
  <2>1. Unreferred(g)
    BY DEF DInv, Erased
  <2> QED
    BY <1>1, <2>1 DEF Unreferred
<1> QED
  BY <1>2, <1>3, <1>4 DEF DInv

LEMMA DInit == Init => DInv
<1> SUFFICES ASSUME Init PROVE DInv
  OBVIOUS
<1>1. /\ \A t \in Threads : req[t] = Idle
      /\ config.rule = None /\ \A p \in Processes : mark[p] = Unmarked
  BY DEF Init, StoreInit, InitialConfig
<1>2. Apart
  BY <1>1, IdleFacts DEF Apart
<1>3. Erasing
  BY <1>1, IdleFacts DEF Erasing, ErasingBy
<1>4. Erased
  BY <1>1, GroupsAssumption DEF Erased, Unreferred, hijacked, Unmarked
<1> QED
  BY <1>2, <1>3, <1>4 DEF DInv

LEMMA DStep == BInv /\ BInv' /\ DInv /\ [Next]_vars => DInv'
<1> SUFFICES ASSUME BInv, BInv', DInv, [Next]_vars PROVE DInv'
  OBVIOUS
<1>1. ASSUME NEW t \in Threads,
             \/ Create(t) \/ Update(t) \/ SetRule(t) \/ ReplaceText(t) \/ Delete(t) \/ Migrate(t)
             \/ Count(t) \/ WriteChecked(t) \/ ApplyRules(t) \/ ClearMaps(t) \/ FillMaps(t) \/ Rewrite(t)
      PROVE  DInv'
  BY <1>1, DWriteDirectly, DReplaceText, DCheck, DCount, DWriteChecked, DApplyRules, DClearMaps,
     DFillMaps, DRewrite
<1>2. ASSUME NEW p \in Processes, Connect(p) \/ LookUp(p) \/ Ended(p)
      PROVE  DInv'
  BY <1>2, DConnection DEF Connect, LookUp, Ended, storeVars, serviceVars, ghostVars
<1>3. CASE UNCHANGED vars
  BY <1>3, DConnection DEF vars, storeVars, serviceVars, ghostVars
<1> QED
  BY <1>1, <1>2, <1>3, DHijack DEF Next

\* delete_group() checks the rule on a copy of the configuration and the hijacked processes
\* on the strand, migrate_group() rewrites both: a group they erased is referred to by neither
\* once their requests are done, unless another request about the same group
\* overlapped with theirs or the save failed.
THEOREM NoDanglingCorrect == Spec => []NoDangling
<1>1. Init => BInv /\ DInv
  BY BInit, DInit
<1>2. BInv /\ DInv /\ [Next]_vars => BInv' /\ DInv'
  BY BStep, DStep
<1>3. DInv => NoDangling
  <2>1. Gids \subseteq Nat
    BY StoreAssumption DEF Gids
  <2> QED
    BY <2>1 DEF DInv, Erased, NoDangling, Unreferred
<1> QED
  BY <1>1, <1>2, <1>3, PTL DEF Spec
=============================================================================
