------------------------- MODULE ProcessTreeProofs -------------------------
(***************************************************************************)
(* Proofs about the process tree.  Each operator of FlatTree, RuleEngine   *)
(* and ProcessTree that changes a tree is first described by a relation    *)
(* between the trees before and after (Added, Insertion, Removed, Marked,  *)
(* Applied ...); the relations are what the invariants are proved from.    *)
(***************************************************************************)
EXTENDS ProcessTree, FiniteSetTheorems, SequenceTheorems, WellFoundedInduction, TLAPS

\* The types a tree, the rules and the manager's state take.
MarkSet == [group : Groups \cup {NO_PROXY}, manual : BOOLEAN, auto : BOOLEAN]
TreeSet ==
  [entries : Seq(0 .. MaxPsn), side_map : [Pids -> 0 .. MaxPsn],
   parent_pid : [PSN -> Pids \cup {NoPid}], parent_psn : [PSN -> 0 .. MaxPsn],
   parent : [PSN -> 0 .. MaxPsn], mark : [PSN -> MarkSet]]
RuleSet == [Rules -> [enabled : BOOLEAN, excluded : SUBSET Pids, matched : SUBSET Pids]]
OrphanSet == SUBSET (PSN \X Nat)
Managed == [tree : TreeSet, rules : RuleSet, orphans : OrphanSet]

-----------------------------------------------------------------------------
\* Induction on the naturals, over a set instead of a predicate.
LEMMA NatWF == IsWellFoundedOn({ss \in Nat \X Nat : ss[1] < ss[2]}, Nat)
BY NatLessThanWellFounded DEF OpToRel

\* A set with 0 and the successor of each of its numbers has them all.
LEMMA SetInduction ==
  ASSUME NEW S, 0 \in S, \A n \in Nat : n \in S => n + 1 \in S
  PROVE  Nat \subseteq S
<1> DEFINE T == Nat \ S
           R == {ss \in Nat \X Nat : ss[1] < ss[2]}
<1> SUFFICES ASSUME T # {} PROVE FALSE OBVIOUS
<1>1. IsWellFoundedOn(R, Nat) BY NatWF
<1>2. T \subseteq Nat OBVIOUS
<1> HIDE DEF T, R
<1>3. PICK x \in T : \A y \in T : ~(<<y, x>> \in R) BY <1>1, <1>2, WFMin
<1>4. x \in Nat /\ x # 0 BY <1>3 DEF T
<1>5. x - 1 \in Nat BY <1>4
<1>6. <<x - 1, x>> \in R BY <1>5, <1>4 DEF R
<1>7. x - 1 \notin T BY <1>3, <1>6
<1>8. x - 1 \in S BY <1>7, <1>5 DEF T
<1>9. (x - 1) + 1 \in S BY <1>8, <1>5
<1>10. (x - 1) + 1 = x BY <1>4
<1> QED BY <1>9, <1>10, <1>3 DEF T

\* A sequence of steps stays in the sets it is led through.
LEMMA StepsStay ==
  ASSUME NEW N \in Nat, NEW f, NEW M,
         f[0] \in M[0], \A n \in 1 .. N : f[n - 1] \in M[n - 1] => f[n] \in M[n]
  PROVE  \A n \in 0 .. N : f[n] \in M[n]
<1> DEFINE S == {k \in Nat : k <= N => f[k] \in M[k]}
<1>1. 0 \in S OBVIOUS
<1>2. ASSUME NEW k \in Nat, k \in S PROVE k + 1 \in S
  <2>1. CASE k + 1 <= N
    <3>1. k + 1 \in 1 .. N /\ (k + 1) - 1 = k BY <2>1
    <3>2. f[k] \in M[k] BY <1>2, <2>1
    <3>3. f[k + 1] \in M[k + 1] BY <3>1, <3>2
    <3> QED BY <3>3
  <2>2. CASE ~(k + 1 <= N) BY <2>2
  <2> QED BY <2>1, <2>2
<1> HIDE DEF S
<1>3. Nat \subseteq S BY <1>1, <1>2, SetInduction
<1> QED BY <1>3 DEF S

\* A recursion over 0 .. N whose steps are functions on a set has a solution.
Solvable(N, A, a, G) ==
  \E g \in [0 .. N -> A] : g[0] = a /\ \A n \in 1 .. N : g[n] = G[n][g[n - 1]]

\* Such a recursion has a solution.
LEMMA Recursion ==
  ASSUME NEW N \in Nat, NEW A, NEW a \in A, NEW G \in [1 .. N -> [A -> A]]
  PROVE  Solvable(N, A, a, G)
<1> DEFINE Solves(k, g) == g[0] = a /\ \A n \in 1 .. k : g[n] = G[n][g[n - 1]]
           S == {k \in Nat : k <= N => \E g \in [0 .. k -> A] : Solves(k, g)}
<1>1. 0 \in S
  <2>1. [n \in 0 .. 0 |-> a] \in [0 .. 0 -> A] /\ Solves(0, [n \in 0 .. 0 |-> a]) OBVIOUS
  <2> QED BY <2>1
<1>2. ASSUME NEW k \in Nat, k \in S PROVE k + 1 \in S
  <2> SUFFICES ASSUME k + 1 <= N PROVE \E g \in [0 .. k + 1 -> A] : Solves(k + 1, g)
    OBVIOUS
  <2>1. PICK g \in [0 .. k -> A] : Solves(k, g) BY <1>2
  <2> DEFINE h == [n \in 0 .. k + 1 |-> IF n = k + 1 THEN G[k + 1][g[k]] ELSE g[n]]
  <2>2. G[k + 1][g[k]] \in A
    <3>1. k + 1 \in 1 .. N /\ k \in 0 .. k OBVIOUS
    <3>2. G[k + 1] \in [A -> A] /\ g[k] \in A BY <3>1
    <3> QED BY <3>2
  <2>3. h \in [0 .. k + 1 -> A]
    <3>1. ASSUME NEW n \in 0 .. k + 1 PROVE h[n] \in A
      <4>1. n = k + 1 \/ n \in 0 .. k OBVIOUS
      <4> QED BY <2>2, <4>1
    <3> QED BY <3>1
  <2>4. h[0] = a BY <2>1
  <2>5. ASSUME NEW n \in 1 .. k + 1 PROVE h[n] = G[n][h[n - 1]]
    <3>1. CASE n = k + 1
      <4>1. n - 1 = k /\ h[n] = G[n][g[k]] /\ h[k] = g[k] BY <3>1
      <4> QED BY <4>1
    <3>2. CASE n \in 1 .. k
      <4>1. h[n] = g[n] /\ h[n - 1] = g[n - 1] BY <3>2
      <4> QED BY <4>1, <3>2, <2>1
    <3> QED BY <3>1, <3>2
  <2> HIDE DEF h
  <2> QED BY <2>3, <2>4, <2>5
<1> HIDE DEF S
<1>3. N \in S BY <1>1, <1>2, SetInduction
<1> QED BY <1>3 DEF S, Solvable

-----------------------------------------------------------------------------
\* The processes.

\* PIDs are known of every process that was ever started, parents are older,
\* the running ones have PIDs of their own, and events are about known ones.
Kernel ==
  /\ ProcessesTypeOK
  /\ \A s \in 1 .. born : pid_of[s] \in Pids /\ parent_of[s] < s
  /\ \A s, x \in running : pid_of[s] = pid_of[x] => s = x
  /\ rundown \subseteq running
  /\ \A e \in ToSet(etw) : e.kind # "LOST" => e.psn \in 1 .. born

\* An entry of a tree: its PID leads to it; positions and PIDs are one to one.
Shape(t) ==
  /\ t \in TreeSet
  /\ \A s \in alive(t) : s \in 1 .. born /\ t.side_map[pid_of[s]] = s
  /\ \A p \in Pids : t.side_map[p] # NONE =>
       t.side_map[p] \in alive(t) /\ pid_of[t.side_map[p]] = p
  /\ \A i, k \in DOMAIN t.entries : t.entries[i] # NONE /\ t.entries[i] = t.entries[k] => i = k
  /\ \A s \in PSN \ alive(t) : t.parent[s] = NONE /\ t.mark[s] = Unmarked

\* What is alive is at a position.
LEMMA AliveAt ==
  ASSUME NEW t \in TreeSet
  PROVE  /\ alive(t) \subseteq PSN
         /\ Len(t.entries) \in Nat /\ DOMAIN t.entries = 1 .. Len(t.entries)
         /\ \A k \in 1 .. Len(t.entries) : t.entries[k] \in 0 .. MaxPsn
         /\ \A s : s \in alive(t) <=> s # NONE /\ \E k \in 1 .. Len(t.entries) : t.entries[k] = s
<1>1. t.entries \in Seq(0 .. MaxPsn) BY DEF TreeSet
<1>2. DOMAIN t.entries = 1 .. Len(t.entries) /\ Len(t.entries) \in Nat BY <1>1
<1>3. \A k \in 1 .. Len(t.entries) : t.entries[k] \in 0 .. MaxPsn
  BY <1>1, ElementOfSeq
<1>4. \A s : s \in alive(t) <=> s # NONE /\ \E k \in 1 .. Len(t.entries) : t.entries[k] = s
  BY <1>2 DEF alive
<1>5. alive(t) \subseteq PSN BY <1>3, <1>4, ProcessAssumption DEF PSN, NONE
<1> QED BY <1>2, <1>3, <1>4, <1>5

\* A process has a PID or none.
LEMMA PidOfType ==
  ASSUME ProcessesTypeOK, NEW s \in 0 .. MaxPsn PROVE pidOf(s) \in Pids \cup {NoPid}
BY DEF ProcessesTypeOK, pidOf, PSN, NONE

\* attach_child(): only the links of the children change.
LEMMA Attached ==
  ASSUME NEW t \in TreeSet, NEW p \in 0 .. MaxPsn, NEW C, NEW u, u = attach_child(t, p, C)
  PROVE  /\ u \in TreeSet
         /\ u.entries = t.entries /\ u.side_map = t.side_map /\ u.mark = t.mark
         /\ u.parent_pid = t.parent_pid /\ u.parent_psn = t.parent_psn
         /\ \A c \in PSN : u.parent[c] = IF c \in C THEN p ELSE t.parent[c]
         /\ alive(u) = alive(t)
<1> DEFINE X == [c \in PSN |-> IF c \in C THEN p ELSE t.parent[c]]
<1>1. u = [t EXCEPT !.parent = X] BY DEF attach_child
<1>2. X \in [PSN -> 0 .. MaxPsn] BY DEF TreeSet
<1>3. \A c \in PSN : X[c] = IF c \in C THEN p ELSE t.parent[c] OBVIOUS
<1> HIDE DEF X
<1>4. u \in TreeSet BY <1>1, <1>2 DEF TreeSet
<1>5. /\ u.entries = t.entries /\ u.side_map = t.side_map /\ u.mark = t.mark
      /\ u.parent_pid = t.parent_pid /\ u.parent_psn = t.parent_psn /\ u.parent = X
  BY <1>1 DEF TreeSet
<1>6. alive(u) = alive(t) BY <1>5 DEF alive
<1> QED BY <1>3, <1>4, <1>5, <1>6

\* tombstone_entry(): the entry goes, its children move up with their facts.
LEMMA Tombstoned ==
  ASSUME ProcessesTypeOK, NEW t \in TreeSet, NEW s \in PSN, NEW u, u = tombstone_entry(t, s)
  PROVE  /\ u \in TreeSet
         /\ Len(u.entries) = Len(t.entries)
         /\ \A k \in 1 .. Len(t.entries) :
              u.entries[k] = IF t.entries[k] = s THEN NONE ELSE t.entries[k]
         /\ \A p \in Pids : u.side_map[p] = IF t.side_map[p] = s THEN NONE ELSE t.side_map[p]
         /\ \A c \in PSN :
              /\ u.parent[c] = IF c = s THEN NONE
                               ELSE IF c \in children(t, s) THEN t.parent[s] ELSE t.parent[c]
              /\ u.parent_psn[c] = IF c = s THEN NONE
                                   ELSE IF c \in children(t, s) THEN t.parent[s]
                                   ELSE t.parent_psn[c]
              /\ u.parent_pid[c] = IF c = s THEN NoPid
                                   ELSE IF c \in children(t, s) THEN pidOf(t.parent[s])
                                   ELSE t.parent_pid[c]
              /\ u.mark[c] = IF c = s THEN Unmarked ELSE t.mark[c]
         /\ alive(u) = alive(t) \ {s}
<1> DEFINE K == children(t, s) \ {s}
           up == t.parent[s]
           E1 == [c \in PSN |-> IF c \in K THEN up ELSE t.parent[c]]
           E2 == [c \in PSN |-> IF c \in K THEN up ELSE t.parent_psn[c]]
           E3 == [c \in PSN |-> IF c \in K THEN pidOf(up) ELSE t.parent_pid[c]]
           r == reparent_children(t, s)
           N1 == [k \in DOMAIN t.entries |-> IF t.entries[k] = s THEN NONE ELSE t.entries[k]]
           N2 == [p \in Pids |-> IF t.side_map[p] = s THEN NONE ELSE t.side_map[p]]
<1>1. r = [t EXCEPT !.parent = E1, !.parent_psn = E2, !.parent_pid = E3]
  BY DEF reparent_children
<1>2. up \in 0 .. MaxPsn /\ pidOf(up) \in Pids \cup {NoPid} BY PidOfType DEF TreeSet
<1>3. E1 \in [PSN -> 0 .. MaxPsn] /\ E2 \in [PSN -> 0 .. MaxPsn]
  BY <1>2 DEF TreeSet
<1>4. E3 \in [PSN -> Pids \cup {NoPid}] BY <1>2 DEF TreeSet
<1>5. \A c \in PSN : /\ E1[c] = IF c \in K THEN up ELSE t.parent[c]
                     /\ E2[c] = IF c \in K THEN up ELSE t.parent_psn[c]
                     /\ E3[c] = IF c \in K THEN pidOf(up) ELSE t.parent_pid[c]
  OBVIOUS
<1>6. t.entries \in Seq(0 .. MaxPsn) /\ DOMAIN t.entries = 1 .. Len(t.entries)
  BY AliveAt DEF TreeSet
<1>7. N1 \in Seq(0 .. MaxPsn) /\ Len(N1) = Len(t.entries)
  <2>1. \A k \in 1 .. Len(t.entries) : N1[k] \in 0 .. MaxPsn
    BY <1>6, ProcessAssumption DEF NONE
  <2>2. N1 \in [1 .. Len(t.entries) -> 0 .. MaxPsn] BY <2>1, <1>6
  <2>3. Len(t.entries) \in Nat BY AliveAt
  <2> HIDE DEF N1
  <2>4. N1 \in Seq(0 .. MaxPsn) BY <2>2, <2>3, SeqDef
  <2> QED BY <2>2, <2>3, <2>4
<1>8. N2 \in [Pids -> 0 .. MaxPsn] BY ProcessAssumption DEF TreeSet, NONE
<1>9. \A k \in 1 .. Len(t.entries) : N1[k] = IF t.entries[k] = s THEN NONE ELSE t.entries[k]
  BY <1>6
<1>10. \A p \in Pids : N2[p] = IF t.side_map[p] = s THEN NONE ELSE t.side_map[p] OBVIOUS
<1>11. Unmarked \in MarkSet BY DEF Unmarked, MarkSet
<1>12. r \in TreeSet /\ r.entries = t.entries /\ r.side_map = t.side_map /\ r.mark = t.mark
       /\ r.parent = E1 /\ r.parent_psn = E2 /\ r.parent_pid = E3
  <2> HIDE DEF E1, E2, E3, r
  <2> QED BY <1>1, <1>3, <1>4 DEF TreeSet
<1>13. u = [r EXCEPT !.entries = N1, !.side_map = N2, !.parent[s] = NONE, !.parent_psn[s] = NONE,
                     !.parent_pid[s] = NoPid, !.mark[s] = Unmarked]
  <2>1. u = [r EXCEPT !.entries = [k \in DOMAIN r.entries |->
                                     IF r.entries[k] = s THEN NONE ELSE r.entries[k]],
                      !.side_map = [p \in Pids |->
                                      IF r.side_map[p] = s THEN NONE ELSE r.side_map[p]],
                      !.parent[s] = NONE, !.parent_psn[s] = NONE,
                      !.parent_pid[s] = NoPid, !.mark[s] = Unmarked]
    BY DEF tombstone_entry
  <2> HIDE DEF r
  <2> QED BY <2>1, <1>12
<1> HIDE DEF r, N1, N2, E1, E2, E3
<1>14. /\ u.entries = N1 /\ u.side_map = N2
       /\ u.parent = [r.parent EXCEPT ![s] = NONE]
       /\ u.parent_psn = [r.parent_psn EXCEPT ![s] = NONE]
       /\ u.parent_pid = [r.parent_pid EXCEPT ![s] = NoPid]
       /\ u.mark = [r.mark EXCEPT ![s] = Unmarked]
  BY <1>12, <1>13 DEF TreeSet
<1>15. u \in TreeSet
  <2>1. /\ [r.parent EXCEPT ![s] = NONE] \in [PSN -> 0 .. MaxPsn]
        /\ [r.parent_psn EXCEPT ![s] = NONE] \in [PSN -> 0 .. MaxPsn]
    BY <1>12, ProcessAssumption DEF TreeSet, NONE
  <2>2. [r.parent_pid EXCEPT ![s] = NoPid] \in [PSN -> Pids \cup {NoPid}] BY <1>12 DEF TreeSet
  <2>3. [r.mark EXCEPT ![s] = Unmarked] \in [PSN -> MarkSet] BY <1>11, <1>12 DEF TreeSet
  <2> QED BY <1>7, <1>8, <1>12, <1>13, <2>1, <2>2, <2>3 DEF TreeSet
<1>16. \A c \in PSN :
         /\ u.parent[c] = IF c = s THEN NONE ELSE E1[c]
         /\ u.parent_psn[c] = IF c = s THEN NONE ELSE E2[c]
         /\ u.parent_pid[c] = IF c = s THEN NoPid ELSE E3[c]
         /\ u.mark[c] = IF c = s THEN Unmarked ELSE t.mark[c]
  BY <1>12, <1>14 DEF TreeSet
<1>17. alive(u) = alive(t) \ {s}
  <2>1. \A x : x \in alive(u) <=> x # NONE /\ \E k \in 1 .. Len(t.entries) : N1[k] = x
    BY <1>7, <1>14, <1>15, AliveAt
  <2>2. \A x : x \in alive(t) <=> x # NONE /\ \E k \in 1 .. Len(t.entries) : t.entries[k] = x
    BY AliveAt
  <2>3. s # NONE BY DEF PSN, NONE
  <2> QED BY <2>1, <2>2, <2>3, <1>9
<1> QED BY <1>5, <1>7, <1>9, <1>10, <1>14, <1>15, <1>16, <1>17

-----------------------------------------------------------------------------
\* Rules.

\* The descendants of an entry are entries.
LEMMA DescendantsAlive ==
  ASSUME NEW t \in TreeSet, NEW s PROVE descendants(t, s) \subseteq alive(t)
<1> DEFINE Eq(w) == w = [n \in 0 .. MaxPsn |->
                          IF n = 0 THEN children(t, s)
                          ELSE LET nearer == w[n - 1]
                               IN nearer \cup UNION {children(t, c) : c \in nearer}]
           W == CHOOSE w : w = [n \in 0 .. MaxPsn |->
                                 IF n = 0 THEN children(t, s)
                                 ELSE LET nearer == w[n - 1]
                                      IN nearer \cup UNION {children(t, c) : c \in nearer}]
           A == SUBSET alive(t)
           next == [X \in A |-> X \cup UNION {children(t, c) : c \in X}]
           G == [n \in 1 .. MaxPsn |-> next]
<1>1. descendants(t, s) = W[MaxPsn] BY DEF descendants
<1>2. \A c : children(t, c) \in A BY DEF children
<1>3. next \in [A -> A]
  <2>1. ASSUME NEW X \in A PROVE next[X] \in A BY <1>2
  <2> QED BY <2>1
<1>4. MaxPsn \in Nat BY ProcessAssumption
<1>5. \E g \in [0 .. MaxPsn -> A] :
        g[0] = children(t, s) /\ \A n \in 1 .. MaxPsn : g[n] = G[n][g[n - 1]]
  <2>1. G \in [1 .. MaxPsn -> [A -> A]] BY <1>3
  <2>2. children(t, s) \in A BY <1>2
  <2> DEFINE a == children(t, s)
  <2>3. a \in A BY <2>2
  <2> HIDE DEF G, A, next, a
  <2>4. Solvable(MaxPsn, A, a, G) BY <1>4, <2>1, <2>3, Recursion
  <2> QED BY <2>4 DEF a, Solvable
<1>6. PICK g \in [0 .. MaxPsn -> A] :
        g[0] = children(t, s) /\ \A n \in 1 .. MaxPsn : g[n] = G[n][g[n - 1]]
  BY <1>5
<1>7. Eq(g)
  <2>1. ASSUME NEW n \in 0 .. MaxPsn
        PROVE g[n] = IF n = 0 THEN children(t, s)
                     ELSE g[n - 1] \cup UNION {children(t, c) : c \in g[n - 1]}
    <3>1. CASE n = 0 BY <3>1, <1>6
    <3>2. CASE n # 0
      <4>1. n \in 1 .. MaxPsn /\ n - 1 \in 0 .. MaxPsn BY <3>2, <1>4
      <4>2. g[n] = next[g[n - 1]] /\ g[n - 1] \in A BY <4>1, <1>6
      <4> QED BY <4>2, <3>2
    <3> QED BY <3>1, <3>2
  <2> QED BY <2>1
<1>8. W = [n \in 0 .. MaxPsn |->
             IF n = 0 THEN children(t, s) ELSE W[n - 1] \cup UNION {children(t, c) : c \in W[n - 1]}]
  BY <1>7
<1> HIDE DEF W
<1>9. W[0] \in A /\ \A n \in 1 .. MaxPsn : W[n - 1] \in A => W[n] \in A
  <2>1. W[0] = children(t, s) BY <1>8, <1>4
  <2>2. ASSUME NEW n \in 1 .. MaxPsn, W[n - 1] \in A PROVE W[n] \in A
    <3>1. n \in 0 .. MaxPsn /\ n # 0 BY <1>4
    <3>2. W[n] = W[n - 1] \cup UNION {children(t, c) : c \in W[n - 1]}
      <4>1. PICK w : w = W OBVIOUS
      <4>2. w = [k \in 0 .. MaxPsn |->
                  IF k = 0 THEN children(t, s) ELSE w[k - 1] \cup UNION {children(t, c) : c \in w[k - 1]}]
        BY <1>8, <4>1
      <4>3. w[n] = w[n - 1] \cup UNION {children(t, c) : c \in w[n - 1]} BY <3>1, <4>2
      <4> QED BY <4>1, <4>3
    <3> QED BY <3>2, <2>2, <1>2
  <2> QED BY <2>1, <2>2, <1>2
<1> DEFINE M == [n \in 0 .. MaxPsn |-> A]
<1>10. \A n \in 0 .. MaxPsn : W[n] \in M[n]
  <2>1. M[0] = A /\ \A n \in 1 .. MaxPsn : M[n - 1] = A /\ M[n] = A BY <1>4
  <2> HIDE DEF W, A, M
  <2> QED BY <1>4, <1>9, <2>1, StepsStay
<1>11. W[MaxPsn] \in A BY <1>10, <1>4
<1> QED BY <1>1, <1>11

\* A set of rules that is not empty has a first one.
LEMMA LeastRule ==
  ASSUME NEW S \in SUBSET Rules, S # {}
  PROVE  (CHOOSE x \in S : \A y \in S : x <= y) \in S
<1> DEFINE R == {ss \in Nat \X Nat : ss[1] < ss[2]}
<1>1. Rules \subseteq Nat
  <2>1. Cardinality(Rules) \in Nat BY RuleAssumption, FS_CardinalityType
  <2> QED BY <2>1, RuleAssumption
<1>2. IsWellFoundedOn(R, Nat) BY NatWF
<1>3. S \subseteq Nat BY <1>1
<1> HIDE DEF R
<1>4. PICK x \in S : \A y \in S : ~(<<y, x>> \in R) BY <1>2, <1>3, WFMin
<1>5. \A y \in S : x <= y
  <2>1. ASSUME NEW y \in S, ~(x <= y) PROVE FALSE
    <3>1. x \in Nat /\ y \in Nat /\ y < x BY <1>3, <2>1
    <3>2. <<y, x>> \in R BY <3>1 DEF R
    <3> QED BY <1>4, <3>2
  <2> QED BY <2>1
<1> QED BY <1>5

\* u differs from t in the marks alone.
SameLinks(t, u) ==
  /\ u.entries = t.entries /\ u.side_map = t.side_map /\ u.parent = t.parent
  /\ u.parent_pid = t.parent_pid /\ u.parent_psn = t.parent_psn
  /\ alive(u) = alive(t)

Marked(m, group, manual, auto) == m.group = group /\ m.manual = manual /\ m.auto = auto

\* mark_proxied()'s marks.
ProxiedMarks(t, u, C, r) ==
  \A c \in PSN : IF c \notin C \/ t.mark[c].manual THEN u.mark[c] = t.mark[c]
                 ELSE Marked(u.mark[c], RuleGroup[r], FALSE, TRUE)

\* Only marks change, and a manual one stays.
LEMMA Proxied ==
  ASSUME NEW t \in TreeSet, NEW C, NEW r \in Rules, NEW u, u = mark_proxied(t, C, r)
  PROVE  u \in TreeSet /\ SameLinks(t, u) /\ ProxiedMarks(t, u, C, r)
<1> DEFINE X == [c \in PSN |-> IF c \notin C \/ t.mark[c].manual THEN t.mark[c]
                               ELSE [t.mark[c] EXCEPT !.group = RuleGroup[r], !.auto = TRUE]]
<1>1. u = [t EXCEPT !.mark = X] BY DEF mark_proxied
<1>2. RuleGroup[r] \in Groups BY DEF Groups
<1>3. \A c \in PSN : t.mark[c] \in MarkSet BY DEF TreeSet
<1>4. ASSUME NEW k \in MarkSet, ~k.manual
      PROVE  /\ [k EXCEPT !.group = RuleGroup[r], !.auto = TRUE] \in MarkSet
             /\ Marked([k EXCEPT !.group = RuleGroup[r], !.auto = TRUE], RuleGroup[r], FALSE, TRUE)
  BY <1>2, <1>4 DEF MarkSet, Marked
<1>5. X \in [PSN -> MarkSet] BY <1>3, <1>4
<1>9. \A c \in PSN : IF c \notin C \/ t.mark[c].manual THEN X[c] = t.mark[c]
                     ELSE Marked(X[c], RuleGroup[r], FALSE, TRUE)
  BY <1>3, <1>4
<1> HIDE DEF X
<1>6. u \in TreeSet BY <1>1, <1>5 DEF TreeSet
<1>7. /\ u.entries = t.entries /\ u.side_map = t.side_map /\ u.parent = t.parent
      /\ u.parent_pid = t.parent_pid /\ u.parent_psn = t.parent_psn /\ u.mark = X
  BY <1>1 DEF TreeSet
<1>8. alive(u) = alive(t) BY <1>7 DEF alive
<1> QED BY <1>6, <1>7, <1>8, <1>9 DEF SameLinks, ProxiedMarks

\* What on_process_start() makes of a new entry s: it has it inherit its parent's
\* manual hijack or not, or takes it and some other entries for one rule.
Matching(t, rs, s, x) ==
  \/ /\ x.rules = rs
     /\ \A c \in PSN \ {s} : x.tree.mark[c] = t.mark[c]
     /\ \/ x.tree.mark[s] = t.mark[s]
        \/ \E q \in alive(t) : /\ t.mark[q].manual
                               /\ Marked(x.tree.mark[s], t.mark[q].group, TRUE, t.mark[s].auto)
  \/ \E r \in Rules, C \in SUBSET alive(t) :
       /\ s \in C /\ ProxiedMarks(t, x.tree, C, r)
       /\ x.rules = [rs EXCEPT ![r].matched = @ \cup pids(C)]

\* on_process_start() changes marks and what the rules matched: it takes s and some
\* other entries for one rule, or has s inherit its parent's manual hijack.
LEMMA OnStart ==
  ASSUME NEW t \in TreeSet, NEW rs \in RuleSet, NEW s \in alive(t),
         \A c \in alive(t) : pid_of[c] \in Pids,
         \A p \in Pids : t.side_map[p] # NONE => t.side_map[p] \in alive(t),
         NEW x, x = on_process_start(t, rs, s)
  PROVE  /\ x.tree \in TreeSet /\ x.rules \in RuleSet /\ SameLinks(t, x.tree)
         /\ Matching(t, rs, s, x)
<1> DEFINE hits == {r \in Rules : name_match(rs, r, s) \/ tree_match(t, rs, r, s)}
           r == CHOOSE y \in hits : \A z \in hits : y <= z
           C == {s} \cup IF name_match(rs, r, s) THEN expansion(t, rs, r, s) ELSE {}
<1>1. x = IF hits = {} THEN [tree |-> inherit_manual(t, s), rules |-> rs]
          ELSE [tree  |-> mark_proxied(t, C, r),
                rules |-> [rs EXCEPT ![r].matched = @ \cup pids(C)]]
  BY DEF on_process_start
<1>2. hits # {} => r \in Rules
  <2>1. hits \in SUBSET Rules OBVIOUS
  <2> HIDE DEF hits
  <2> QED BY <2>1, LeastRule
<1>3. C \in SUBSET alive(t) /\ s \in C BY DescendantsAlive DEF expansion
<1>4. s \in PSN BY AliveAt
<1> HIDE DEF hits, r, C
<1>5. CASE hits = {}
  <2> DEFINE q == find_by_pid(t, t.parent_pid[s])
  <2>1. x.tree = inherit_manual(t, s) /\ x.rules = rs BY <1>1, <1>5
  <2>2. CASE ~(q # NONE /\ t.mark[q].manual)
    <3>1. x.tree = t BY <2>1, <2>2 DEF inherit_manual
    <3> QED BY <2>1, <3>1 DEF SameLinks, Matching
  <2>3. CASE q # NONE /\ t.mark[q].manual
    <3>1. x.tree = [t EXCEPT !.mark[s].group = t.mark[q].group, !.mark[s].manual = TRUE]
      BY <2>1, <2>3 DEF inherit_manual
    <3>2. t.parent_pid[s] \in Pids \cup {NoPid} BY <1>4 DEF TreeSet
    <3>3. q \in alive(t) /\ q \in PSN BY <2>3, <3>2, AliveAt DEF find_by_pid
    <3> HIDE DEF q
    <3>4. t.mark[q] \in MarkSet /\ t.mark[s] \in MarkSet BY <1>4, <3>3 DEF TreeSet
    <3> DEFINE X == [t.mark EXCEPT ![s] = [@ EXCEPT !.group = t.mark[q].group, !.manual = TRUE]]
    <3>5. x.tree = [t EXCEPT !.mark = X] BY <3>1, <1>4 DEF TreeSet, MarkSet
    <3>6. X \in [PSN -> MarkSet] /\ \A c \in PSN \ {s} : X[c] = t.mark[c]
      BY <3>4, <1>4 DEF TreeSet, MarkSet
    <3>7. Marked(X[s], t.mark[q].group, TRUE, t.mark[s].auto)
      BY <3>4, <1>4 DEF TreeSet, MarkSet, Marked
    <3> HIDE DEF X
    <3>8. x.tree \in TreeSet BY <3>5, <3>6 DEF TreeSet
    <3>9. /\ x.tree.entries = t.entries /\ x.tree.side_map = t.side_map
          /\ x.tree.parent = t.parent /\ x.tree.parent_pid = t.parent_pid
          /\ x.tree.parent_psn = t.parent_psn /\ x.tree.mark = X
      BY <3>5 DEF TreeSet
    <3>11. SameLinks(t, x.tree) BY <3>9 DEF SameLinks, alive
    <3> QED BY <2>1, <2>3, <3>3, <3>6, <3>7, <3>8, <3>9, <3>11 DEF q, Matching
  <2> QED BY <2>2, <2>3
<1>6. CASE hits # {}
  <2>1. r \in Rules BY <1>2, <1>6
  <2>2. x.tree = mark_proxied(t, C, r) /\ x.rules = [rs EXCEPT ![r].matched = @ \cup pids(C)]
    BY <1>1, <1>6
  <2>3. x.tree \in TreeSet /\ SameLinks(t, x.tree) /\ ProxiedMarks(t, x.tree, C, r)
    BY <2>1, <2>2, Proxied
  <2>4. pids(C) \subseteq Pids BY <1>3 DEF pids
  <2>5. x.rules \in RuleSet BY <2>1, <2>2, <2>4 DEF RuleSet
  <2> QED BY <1>3, <2>1, <2>2, <2>3, <2>5 DEF Matching
<1> QED BY <1>5, <1>6

-----------------------------------------------------------------------------
\* Inserting a process.

\* The entry s takes the PID from, and the entries that move up when it goes.
Displaced(t, s) == find_by_pid(t, pid_of[s])
Heirs(t, d) == IF d = NONE THEN {} ELSE children(t, d)

\* add_entry() as a relation between the trees before and after.
Added(t, s, ppid, ppsn, u) ==
  LET d == Displaced(t, s) n == Len(t.entries)
  IN /\ Len(u.entries) = n + 1 /\ u.entries[n + 1] = s
     /\ \A k \in 1 .. n : u.entries[k] = IF t.entries[k] = d THEN NONE ELSE t.entries[k]
     /\ \A p \in Pids : u.side_map[p] = IF p = pid_of[s] THEN s ELSE t.side_map[p]
     /\ alive(u) = (alive(t) \ {d}) \cup {s}
     /\ \A c \in PSN :
          /\ u.parent_psn[c] = IF c = s THEN ppsn ELSE IF c = d THEN NONE
                               ELSE IF c \in Heirs(t, d) THEN t.parent[d] ELSE t.parent_psn[c]
          /\ u.parent_pid[c] = IF c = s THEN ppid ELSE IF c = d THEN NoPid
                               ELSE IF c \in Heirs(t, d) THEN pidOf(t.parent[d])
                               ELSE t.parent_pid[c]

\* The links add_entry() leaves.
BaseLink(t, s, c) ==
  LET d == Displaced(t, s)
  IN IF c = d THEN NONE ELSE IF c \in Heirs(t, d) THEN t.parent[d] ELSE t.parent[c]
BaseMarks(t, s, u) ==
  \A c \in PSN : u.mark[c] = IF c = Displaced(t, s) THEN Unmarked ELSE t.mark[c]

\* Who holds the PID of s is an entry of it.
LEMMA DisplacedAlive ==
  ASSUME Kernel, NEW t, Shape(t), NEW s \in 1 .. born
  PROVE  /\ s \in PSN /\ pid_of[s] \in Pids /\ Displaced(t, s) = t.side_map[pid_of[s]]
         /\ Displaced(t, s) # NONE =>
              /\ Displaced(t, s) \in alive(t) /\ Displaced(t, s) \in PSN
              /\ pid_of[Displaced(t, s)] = pid_of[s]
<1>1. s \in PSN /\ pid_of[s] \in Pids
  BY ProcessAssumption DEF Kernel, ProcessesTypeOK, PSN
<1>2. pid_of[s] # NoPid BY <1>1, ProcessAssumption
<1>3. Displaced(t, s) = t.side_map[pid_of[s]] BY <1>2 DEF Displaced, find_by_pid
<1>4. t \in TreeSet BY DEF Shape
<1>5. alive(t) \subseteq PSN BY <1>4, AliveAt
<1> QED BY <1>1, <1>3, <1>5 DEF Shape

\* add_entry() does what Added, BaseLink and BaseMarks say.
LEMMA AddedEntry ==
  ASSUME Kernel, NEW t, Shape(t), NEW s \in 1 .. born, s \notin alive(t),
         NEW ppid \in Pids \cup {NoPid}, NEW ppsn \in 0 .. MaxPsn,
         NEW u, u = add_entry(t, s, ppid, ppsn)
  PROVE  /\ u \in TreeSet /\ Added(t, s, ppid, ppsn, u) /\ BaseMarks(t, s, u)
         /\ \A c \in PSN : u.parent[c] = BaseLink(t, s, c)
<1> DEFINE d == Displaced(t, s)
           p == pid_of[s]
           v == IF d = NONE THEN t ELSE tombstone_entry(t, d)
<1>1. /\ s \in PSN /\ p \in Pids /\ d = t.side_map[p]
      /\ d # NONE => d \in alive(t) /\ d \in PSN /\ pid_of[d] = p
  BY DisplacedAlive
<1>2. t \in TreeSet BY DEF Shape
<1>3. u = [v EXCEPT !.entries = Append(v.entries, s), !.side_map[p] = s,
                    !.parent_pid[s] = ppid, !.parent_psn[s] = ppsn]
  BY DEF add_entry, Displaced
<1>4. d # s BY <1>1 DEF PSN, NONE
<1> HIDE DEF d
<1>5. /\ v \in TreeSet
      /\ Len(v.entries) = Len(t.entries)
      /\ \A k \in 1 .. Len(t.entries) :
           v.entries[k] = IF t.entries[k] = d THEN NONE ELSE t.entries[k]
      /\ \A q \in Pids : q # p => v.side_map[q] = t.side_map[q]
      /\ \A c \in PSN :
           /\ v.parent[c] = IF c = d THEN NONE
                            ELSE IF c \in Heirs(t, d) THEN t.parent[d] ELSE t.parent[c]
           /\ v.parent_psn[c] = IF c = d THEN NONE
                                ELSE IF c \in Heirs(t, d) THEN t.parent[d]
                                ELSE t.parent_psn[c]
           /\ v.parent_pid[c] = IF c = d THEN NoPid
                                ELSE IF c \in Heirs(t, d) THEN pidOf(t.parent[d])
                                ELSE t.parent_pid[c]
           /\ v.mark[c] = IF c = d THEN Unmarked ELSE t.mark[c]
      /\ alive(v) = alive(t) \ {d}
  <2>1. CASE d = NONE
    <3>1. v = t BY <2>1
    <3>2. \A c \in PSN : c # d BY <2>1 DEF PSN, NONE
    <3>3. alive(t) \ {d} = alive(t) BY <2>1 DEF alive
    <3> QED BY <1>2, <3>1, <3>2, <3>3, <2>1 DEF Heirs
  <2>2. CASE d # NONE
    <3>1. v = tombstone_entry(t, d) BY <2>2
    <3>2. d \in PSN /\ ProcessesTypeOK BY <1>1, <2>2 DEF Kernel
    <3>3. Heirs(t, d) = children(t, d) BY <2>2 DEF Heirs
    <3>4. \A q \in Pids : q # p => t.side_map[q] # d
      <4>1. \A q \in Pids : t.side_map[q] # NONE => pid_of[t.side_map[q]] = q BY DEF Shape
      <4> QED BY <4>1, <1>1, <2>2
    <3> HIDE DEF v
    <3>5. /\ v \in TreeSet
          /\ Len(v.entries) = Len(t.entries)
          /\ \A k \in 1 .. Len(t.entries) :
               v.entries[k] = IF t.entries[k] = d THEN NONE ELSE t.entries[k]
          /\ \A q \in Pids : v.side_map[q] = IF t.side_map[q] = d THEN NONE ELSE t.side_map[q]
          /\ \A c \in PSN :
               /\ v.parent[c] = IF c = d THEN NONE
                                ELSE IF c \in children(t, d) THEN t.parent[d] ELSE t.parent[c]
               /\ v.parent_psn[c] = IF c = d THEN NONE
                                    ELSE IF c \in children(t, d) THEN t.parent[d]
                                    ELSE t.parent_psn[c]
               /\ v.parent_pid[c] = IF c = d THEN NoPid
                                    ELSE IF c \in children(t, d) THEN pidOf(t.parent[d])
                                    ELSE t.parent_pid[c]
               /\ v.mark[c] = IF c = d THEN Unmarked ELSE t.mark[c]
          /\ alive(v) = alive(t) \ {d}
      BY <1>2, <3>1, <3>2, Tombstoned
    <3> QED BY <3>3, <3>4, <3>5
  <2> QED BY <2>1, <2>2
<1> HIDE DEF v
<1>6. /\ u.entries = Append(v.entries, s) /\ u.side_map = [v.side_map EXCEPT ![p] = s]
      /\ u.parent_pid = [v.parent_pid EXCEPT ![s] = ppid]
      /\ u.parent_psn = [v.parent_psn EXCEPT ![s] = ppsn]
      /\ u.parent = v.parent /\ u.mark = v.mark
  BY <1>3, <1>5 DEF TreeSet
<1>7. v.entries \in Seq(0 .. MaxPsn) /\ s \in 0 .. MaxPsn
  BY <1>1, <1>5, ProcessAssumption DEF TreeSet, PSN
<1>8. /\ Append(v.entries, s) \in Seq(0 .. MaxPsn)
      /\ Len(u.entries) = Len(t.entries) + 1 /\ u.entries[Len(t.entries) + 1] = s
      /\ \A k \in 1 .. Len(t.entries) : u.entries[k] = v.entries[k]
  BY <1>5, <1>6, <1>7, AppendProperties
<1>9. u \in TreeSet
  <2>1. [v.side_map EXCEPT ![p] = s] \in [Pids -> 0 .. MaxPsn] BY <1>1, <1>5, <1>7 DEF TreeSet
  <2>2. [v.parent_pid EXCEPT ![s] = ppid] \in [PSN -> Pids \cup {NoPid}] BY <1>5 DEF TreeSet
  <2>3. [v.parent_psn EXCEPT ![s] = ppsn] \in [PSN -> 0 .. MaxPsn] BY <1>5 DEF TreeSet
  <2> QED BY <1>3, <1>5, <1>6, <1>8, <2>1, <2>2, <2>3 DEF TreeSet
<1>10. \A q \in Pids : u.side_map[q] = IF q = p THEN s ELSE t.side_map[q]
  BY <1>1, <1>5, <1>6 DEF TreeSet
<1>11. alive(u) = (alive(t) \ {d}) \cup {s}
  <2>1. \A x : x \in alive(u) <=> x # NONE /\ \E k \in 1 .. Len(t.entries) + 1 : u.entries[k] = x
    <3>1. \A x : x \in alive(u) <=> x # NONE /\ \E k \in 1 .. Len(u.entries) : u.entries[k] = x
      BY <1>9, AliveAt
    <3>2. Len(u.entries) = Len(t.entries) + 1 BY <1>8
    <3> QED BY <3>1, <3>2
  <2>2. \A x : x \in alive(v) <=> x # NONE /\ \E k \in 1 .. Len(t.entries) : v.entries[k] = x
    <3>1. \A x : x \in alive(v) <=> x # NONE /\ \E k \in 1 .. Len(v.entries) : v.entries[k] = x
      BY <1>5, AliveAt
    <3>2. Len(v.entries) = Len(t.entries) BY <1>5
    <3> QED BY <3>1, <3>2
  <2>3. s # NONE /\ Len(t.entries) \in Nat BY <1>1, <1>2, AliveAt DEF PSN, NONE
  <2>4. \A k : k \in 1 .. Len(t.entries) + 1 <=> k \in 1 .. Len(t.entries) \/ k = Len(t.entries) + 1
    BY <2>3
  <2>5. \A x : x \in alive(u) <=>
               x # NONE /\ ((\E k \in 1 .. Len(t.entries) : v.entries[k] = x) \/ s = x)
    <3>1. ASSUME NEW x, x # NONE
          PROVE  (\E k \in 1 .. Len(t.entries) + 1 : u.entries[k] = x)
                   <=> (\E k \in 1 .. Len(t.entries) : v.entries[k] = x) \/ s = x
      <4>1. ASSUME NEW k \in 1 .. Len(t.entries) + 1, u.entries[k] = x
            PROVE  (\E l \in 1 .. Len(t.entries) : v.entries[l] = x) \/ s = x
        BY <2>4, <1>8, <4>1
      <4>2. ASSUME NEW k \in 1 .. Len(t.entries), v.entries[k] = x
            PROVE  \E l \in 1 .. Len(t.entries) + 1 : u.entries[l] = x
        BY <2>4, <1>8, <4>2
      <4>3. Len(t.entries) + 1 \in 1 .. Len(t.entries) + 1 BY <2>3
      <4> QED BY <4>1, <4>2, <4>3, <1>8
    <3> QED BY <2>1, <3>1
  <2>6. \A x : x \in alive(u) <=> x \in alive(v) \/ x = s BY <2>2, <2>3, <2>5
  <2>7. alive(u) = alive(v) \cup {s} BY <2>6
  <2> QED BY <2>7, <1>5
<1>12. \A c \in PSN :
         /\ u.parent_psn[c] = IF c = s THEN ppsn ELSE v.parent_psn[c]
         /\ u.parent_pid[c] = IF c = s THEN ppid ELSE v.parent_pid[c]
  BY <1>1, <1>5, <1>6 DEF TreeSet
<1>13. Added(t, s, ppid, ppsn, u)
  BY <1>5, <1>8, <1>10, <1>11, <1>12 DEF Added, d
<1>14. BaseMarks(t, s, u) BY <1>5, <1>6 DEF BaseMarks, d
<1>15. \A c \in PSN : u.parent[c] = BaseLink(t, s, c) BY <1>5, <1>6 DEF BaseLink, d
<1> QED BY <1>9, <1>13, <1>14, <1>15

\* Whether the parent is there once s is.
Linkable(t, s, ppid, ppsn) ==
  /\ ppsn # NONE /\ ppid \in Pids
  /\ ppsn = IF ppid = pid_of[s] THEN s ELSE t.side_map[ppid]

\* The orphans once s is one of them or not, and the entries that wait for s.
WithOrphan(m, s, ppid, ppsn) ==
  m.orphans \cup IF ppsn = NONE \/ Linkable(m.tree, s, ppid, ppsn) THEN {}
                 ELSE {<<ppsn, Len(m.tree.entries) + 1>>}
Adopted(u, os, s) ==
  {u.entries[o[2]] : o \in {y \in os : y[1] = s /\ y[2] \in DOMAIN u.entries}} \ {NONE}

\* The links handle_start() leaves.
NewLink(m, s, ppid, ppsn, u, c) ==
  IF c \in Adopted(u, WithOrphan(m, s, ppid, ppsn), s) THEN s
  ELSE IF c = s THEN (IF Linkable(m.tree, s, ppid, ppsn) THEN ppsn ELSE NONE)
  ELSE BaseLink(m.tree, s, c)

\* handle_start() of a process the tree does not hold.
Insertion(m, s, ppid, ppsn, x) ==
  /\ Added(m.tree, s, ppid, ppsn, x.tree)
  /\ \A c \in PSN : x.tree.parent[c] = NewLink(m, s, ppid, ppsn, x.tree, c)
  /\ x.orphans = {o \in WithOrphan(m, s, ppid, ppsn) : o[1] # s}
  /\ \E k \in TreeSet : /\ SameLinks(k, x.tree) /\ BaseMarks(m.tree, s, k)
                        /\ Matching(k, forget_owner(m, pid_of[s]), s, x)

\* Added says nothing of links and marks.
LEMMA AddedSame ==
  ASSUME NEW t, NEW s, NEW ppid, NEW ppsn, NEW u, NEW v,
         v.entries = u.entries, v.side_map = u.side_map, v.parent_pid = u.parent_pid,
         v.parent_psn = u.parent_psn, Added(t, s, ppid, ppsn, u)
  PROVE  Added(t, s, ppid, ppsn, v)
<1>1. alive(v) = alive(u) BY DEF alive
<1> QED BY <1>1 DEF Added

\* on_process_exit() leaves rules.
LEMMA ForgottenType ==
  ASSUME NEW rs \in RuleSet, NEW p PROVE on_process_exit(rs, p) \in RuleSet
<1> DEFINE f == [r \in Rules |-> [rs[r] EXCEPT !.matched = @ \ {p}, !.excluded = @ \ {p}]]
<1>1. ASSUME NEW r \in Rules
      PROVE  f[r] \in [enabled : BOOLEAN, excluded : SUBSET Pids, matched : SUBSET Pids]
  BY DEF RuleSet
<1> QED BY <1>1 DEF RuleSet, on_process_exit

\* Matching is about a tree and rules alone.
LEMMA MatchingSame ==
  ASSUME NEW k, NEW rs, NEW s, NEW x, NEW y, x.tree = y.tree, x.rules = y.rules,
         Matching(k, rs, s, y)
  PROVE  Matching(k, rs, s, x)
<1>1. \A C, r : ProxiedMarks(k, y.tree, C, r) => ProxiedMarks(k, x.tree, C, r) BY DEF ProxiedMarks
<1> QED BY <1>1 DEF Matching

\* handle_start() of a process the tree lacks is an Insertion.
LEMMA InsertionOf ==
  ASSUME Kernel, NEW m \in Managed, Shape(m.tree), NEW s \in 1 .. born, s \notin alive(m.tree),
         NEW ppid \in Pids \cup {NoPid}, NEW ppsn \in 0 .. MaxPsn,
         NEW x, x = handle_start(m, s, ppid, ppsn)
  PROVE  x \in Managed /\ Insertion(m, s, ppid, ppsn, x)
<1> DEFINE t == m.tree
           p == pid_of[s]
           a == [m EXCEPT !.rules = forget_owner(m, p), !.tree = add_entry(m.tree, s, ppid, ppsn)]
           l == link_or_orphan(a, s, ppid, ppsn)
           g == drain_orphans_for(l, s)
           y == on_process_start(g.tree, g.rules, s)
           u == a.tree
           W == WithOrphan(m, s, ppid, ppsn)
<1>1. /\ s \in PSN /\ p \in Pids /\ Displaced(t, s) = t.side_map[p]
      /\ Displaced(t, s) # NONE =>
           /\ Displaced(t, s) \in alive(t) /\ Displaced(t, s) \in PSN
           /\ pid_of[Displaced(t, s)] = p
  BY DisplacedAlive
<1>2. t \in TreeSet /\ m.rules \in RuleSet /\ m.orphans \in OrphanSet BY DEF Managed
<1>3. x = [tree |-> y.tree, rules |-> y.rules, orphans |-> g.orphans]
  <2>1. p # NoPid BY <1>1, ProcessAssumption
  <2>2. ~find_by_pid_psn(t, p, s)
    <3>1. SUFFICES ASSUME t.side_map[p] = s PROVE FALSE
      BY <2>1 DEF find_by_pid_psn, find_by_pid
    <3>2. s # NONE BY <1>1 DEF PSN, NONE
    <3> QED BY <1>1, <3>1, <3>2
  <2> QED BY <2>2 DEF handle_start
<1>4. forget_owner(m, p) \in RuleSet BY <1>2, ForgottenType DEF forget_owner
<1>5. /\ u \in TreeSet /\ Added(t, s, ppid, ppsn, u) /\ BaseMarks(t, s, u)
      /\ \A c \in PSN : u.parent[c] = BaseLink(t, s, c)
      /\ a.rules = forget_owner(m, p) /\ a.orphans = m.orphans /\ a \in Managed
  <2> DEFINE v == add_entry(m.tree, s, ppid, ppsn)
  <2>1. /\ v \in TreeSet /\ Added(t, s, ppid, ppsn, v) /\ BaseMarks(t, s, v)
        /\ \A c \in PSN : v.parent[c] = BaseLink(t, s, c)
    BY AddedEntry
  <2>3. a = [m EXCEPT !.rules = forget_owner(m, p), !.tree = v] OBVIOUS
  <2> HIDE DEF v, a
  <2>2. a.tree = v /\ a.rules = forget_owner(m, p) /\ a.orphans = m.orphans /\ a \in Managed
    BY <2>1, <2>3, <1>2, <1>4 DEF Managed
  <2> QED BY <2>1, <2>2
<1> HIDE DEF a
<1>6. BaseLink(t, s, s) = NONE
  <2>1. t.parent[s] = NONE BY <1>1 DEF Shape
  <2>2. s \notin Heirs(t, Displaced(t, s)) BY DEF Heirs, children
  <2> QED BY <2>1, <2>2 DEF BaseLink
<1>7. find_by_pid_psn(u, ppid, ppsn) <=> Linkable(t, s, ppid, ppsn)
  <2>1. \A q \in Pids : u.side_map[q] = IF q = p THEN s ELSE t.side_map[q] BY <1>5 DEF Added
  <2> QED BY <2>1, ProcessAssumption DEF find_by_pid_psn, find_by_pid, Linkable, NONE
<1>8. /\ l.tree \in TreeSet /\ l.rules = forget_owner(m, p) /\ l.orphans = W
      /\ l.orphans \in OrphanSet /\ l \in Managed
      /\ l.tree.entries = u.entries /\ l.tree.side_map = u.side_map /\ l.tree.mark = u.mark
      /\ l.tree.parent_pid = u.parent_pid /\ l.tree.parent_psn = u.parent_psn
      /\ \A c \in PSN : l.tree.parent[c] =
           IF c = s THEN (IF Linkable(t, s, ppid, ppsn) THEN ppsn ELSE NONE)
           ELSE BaseLink(t, s, c)
  <2>1. CASE ppsn = NONE
    <3> DEFINE v == mark_root(u, {s})
    <3>1. v = attach_child(u, NONE, {s}) /\ NONE \in 0 .. MaxPsn
      BY ProcessAssumption DEF mark_root, NONE
    <3> HIDE DEF v
    <3>2. /\ v \in TreeSet
          /\ v.entries = u.entries /\ v.side_map = u.side_map /\ v.mark = u.mark
          /\ v.parent_pid = u.parent_pid /\ v.parent_psn = u.parent_psn
          /\ \A c \in PSN : v.parent[c] = IF c \in {s} THEN NONE ELSE u.parent[c]
      BY <3>1, <1>5, Attached
    <3>3. l = [a EXCEPT !.tree = v] BY <2>1 DEF link_or_orphan, v
    <3> HIDE DEF l
    <3>4. l.tree = v /\ l.rules = a.rules /\ l.orphans = a.orphans /\ l \in Managed
      BY <3>2, <3>3, <1>5 DEF Managed
    <3>5. ~Linkable(t, s, ppid, ppsn) /\ W = m.orphans BY <2>1 DEF Linkable, WithOrphan
    <3> QED BY <3>2, <3>4, <3>5, <1>5, <1>2
  <2>2. CASE ppsn # NONE /\ Linkable(t, s, ppid, ppsn)
    <3> DEFINE v == attach_child(u, ppsn, {s})
    <3>2. /\ v \in TreeSet
          /\ v.entries = u.entries /\ v.side_map = u.side_map /\ v.mark = u.mark
          /\ v.parent_pid = u.parent_pid /\ v.parent_psn = u.parent_psn
          /\ \A c \in PSN : v.parent[c] = IF c \in {s} THEN ppsn ELSE u.parent[c]
      BY <1>5, Attached
    <3>3. l = [a EXCEPT !.tree = v] BY <2>2, <1>7 DEF link_or_orphan
    <3> HIDE DEF v, l
    <3>4. l.tree = v /\ l.rules = a.rules /\ l.orphans = a.orphans /\ l \in Managed
      BY <3>2, <3>3, <1>5 DEF Managed
    <3>5. W = m.orphans BY <2>2 DEF WithOrphan
    <3> QED BY <3>2, <3>4, <3>5, <1>5, <1>2, <2>2
  <2>3. CASE ppsn # NONE /\ ~Linkable(t, s, ppid, ppsn)
    <3>1. Len(u.entries) = Len(t.entries) + 1 /\ Len(t.entries) \in Nat
      BY <1>2, <1>5, AliveAt DEF Added
    <3>2. ppsn \in PSN BY <2>3, ProcessAssumption DEF PSN, NONE
    <3>3. W = m.orphans \cup {<<ppsn, Len(u.entries)>>} BY <2>3, <3>1 DEF WithOrphan
    <3>4. W \in OrphanSet BY <1>2, <3>1, <3>2, <3>3 DEF OrphanSet
    <3>5. l = [a EXCEPT !.orphans = a.orphans \cup {<<ppsn, Len(u.entries)>>}]
      BY <2>3, <1>7 DEF link_or_orphan
    <3>6. l = [a EXCEPT !.orphans = W] BY <1>5, <3>3, <3>5
    <3> HIDE DEF l, W
    <3>7. l.tree = u /\ l.rules = a.rules /\ l.orphans = W /\ l \in Managed
      BY <3>4, <3>6, <1>5 DEF Managed
    <3> QED BY <3>4, <3>7, <1>5, <1>6, <2>3
  <2> QED BY <2>1, <2>2, <2>3
<1> HIDE DEF l
<1>9. /\ g.tree \in TreeSet /\ g.rules = l.rules /\ g \in Managed
      /\ g.orphans = {o \in W : o[1] # s}
      /\ g.tree.entries = u.entries /\ g.tree.side_map = u.side_map /\ g.tree.mark = u.mark
      /\ g.tree.parent_pid = u.parent_pid /\ g.tree.parent_psn = u.parent_psn
      /\ \A c \in PSN : g.tree.parent[c] =
           IF c \in Adopted(u, W, s) THEN s ELSE l.tree.parent[c]
  <2> DEFINE mine == {o \in l.orphans : o[1] = s}
             v == attach_child(l.tree, s, waiting(l, mine))
             rest == l.orphans \ mine
  <2>1. g = [l EXCEPT !.tree = v, !.orphans = rest] BY DEF drain_orphans_for
  <2>2. s \in 0 .. MaxPsn BY <1>1, ProcessAssumption DEF PSN
  <2>3. /\ v \in TreeSet
        /\ v.entries = l.tree.entries /\ v.side_map = l.tree.side_map /\ v.mark = l.tree.mark
        /\ v.parent_pid = l.tree.parent_pid /\ v.parent_psn = l.tree.parent_psn
        /\ \A c \in PSN : v.parent[c] = IF c \in waiting(l, mine) THEN s ELSE l.tree.parent[c]
    BY <1>8, <2>2, Attached
  <2>4. waiting(l, mine) = Adopted(u, W, s) BY <1>8 DEF waiting, Adopted
  <2>5. rest = {o \in W : o[1] # s} /\ rest \in OrphanSet BY <1>8 DEF OrphanSet
  <2> HIDE DEF v, rest, mine, g, W
  <2>6. g.tree = v /\ g.rules = l.rules /\ g.orphans = rest /\ g \in Managed
    BY <2>1, <2>3, <2>5, <1>8 DEF Managed
  <2> QED BY <2>3, <2>4, <2>5, <2>6, <1>8
<1> HIDE DEF g
<1>10. Added(t, s, ppid, ppsn, g.tree) BY <1>5, <1>9, AddedSame
<1>11. /\ s \in alive(g.tree) /\ \A c \in alive(g.tree) : pid_of[c] \in Pids
       /\ \A q \in Pids : g.tree.side_map[q] # NONE => g.tree.side_map[q] \in alive(g.tree)
  <2>1. alive(g.tree) = (alive(t) \ {Displaced(t, s)}) \cup {s} BY <1>10 DEF Added
  <2>2. \A c \in alive(t) : c \in 1 .. born BY DEF Shape
  <2>3. \A c \in alive(g.tree) : pid_of[c] \in Pids BY <2>1, <2>2 DEF Kernel
  <2>4. ASSUME NEW q \in Pids, g.tree.side_map[q] # NONE PROVE g.tree.side_map[q] \in alive(g.tree)
    <3>1. g.tree.side_map[q] = IF q = p THEN s ELSE t.side_map[q] BY <1>10 DEF Added
    <3>2. CASE q = p BY <3>1, <3>2, <2>1
    <3>3. CASE q # p
      <4>1. t.side_map[q] \in alive(t) /\ pid_of[t.side_map[q]] = q
        BY <2>4, <3>1, <3>3 DEF Shape
      <4>2. t.side_map[q] # Displaced(t, s)
        <5>1. Displaced(t, s) # NONE => pid_of[Displaced(t, s)] = p BY <1>1
        <5>2. t.side_map[q] # NONE BY <4>1 DEF alive
        <5> QED BY <5>1, <5>2, <4>1, <3>3
      <4> QED BY <4>1, <4>2, <2>1, <3>1, <3>3
    <3> QED BY <3>2, <3>3
  <2> QED BY <2>1, <2>3, <2>4
<1>12. y.tree \in TreeSet /\ y.rules \in RuleSet /\ SameLinks(g.tree, y.tree)
       /\ Matching(g.tree, forget_owner(m, p), s, y)
  <2>1. g.rules = forget_owner(m, p) BY <1>8, <1>9
  <2>2. PICK k, rs : k = g.tree /\ rs = forget_owner(m, p) OBVIOUS
  <2>3. y = on_process_start(k, rs, s) BY <2>1, <2>2
  <2>4. k \in TreeSet /\ rs \in RuleSet BY <1>4, <1>9, <2>2
  <2> HIDE DEF y
  <2>5. y.tree \in TreeSet /\ y.rules \in RuleSet /\ SameLinks(k, y.tree) /\ Matching(k, rs, s, y)
    BY <2>2, <2>3, <2>4, <1>11, OnStart
  <2> QED BY <2>2, <2>5
<1> HIDE DEF y
<1>13. x.tree = y.tree /\ x.rules = y.rules /\ x.orphans = g.orphans /\ x \in Managed
  <2>1. g.orphans \in OrphanSet BY <1>9 DEF Managed
  <2> QED BY <1>3, <1>12, <2>1 DEF Managed
<1>14. Added(t, s, ppid, ppsn, x.tree)
  <2>1. /\ y.tree.entries = g.tree.entries /\ y.tree.side_map = g.tree.side_map
        /\ y.tree.parent_pid = g.tree.parent_pid /\ y.tree.parent_psn = g.tree.parent_psn
    BY <1>12 DEF SameLinks
  <2>2. PICK v : v = y.tree OBVIOUS
  <2>3. PICK k : k = g.tree OBVIOUS
  <2>4. Added(t, s, ppid, ppsn, v) BY <2>1, <2>2, <2>3, <1>10, AddedSame
  <2> QED BY <2>2, <2>4, <1>13
<1>15. \A c \in PSN : x.tree.parent[c] = NewLink(m, s, ppid, ppsn, x.tree, c)
  <2>1. x.tree.parent = g.tree.parent /\ x.tree.entries = u.entries
    BY <1>9, <1>12, <1>13 DEF SameLinks
  <2>2. Adopted(x.tree, W, s) = Adopted(u, W, s) BY <2>1 DEF Adopted
  <2> QED BY <2>1, <2>2, <1>8, <1>9 DEF NewLink
<1>16. BaseMarks(t, s, g.tree) BY <1>5, <1>9 DEF BaseMarks
<1>17. SameLinks(g.tree, x.tree) BY <1>12, <1>13
<1>18. Matching(g.tree, forget_owner(m, p), s, x)
  <2>1. PICK z, k, rs : z = y /\ k = g.tree /\ rs = forget_owner(m, p) OBVIOUS
  <2>2. x.tree = z.tree /\ x.rules = z.rules /\ Matching(k, rs, s, z) BY <2>1, <1>12, <1>13
  <2>3. Matching(k, rs, s, x) BY <2>2, MatchingSame
  <2> QED BY <2>1, <2>3
<1> QED BY <1>9, <1>13, <1>14, <1>15, <1>16, <1>17, <1>18 DEF Insertion

\* An insertion keeps the tree in shape.
LEMMA ShapeInserted ==
  ASSUME Kernel, NEW m \in Managed, Shape(m.tree), NEW s \in 1 .. born, s \notin alive(m.tree),
         NEW ppid, NEW ppsn, NEW x \in Managed, Insertion(m, s, ppid, ppsn, x)
  PROVE  Shape(x.tree)
<1> DEFINE t == m.tree
           u == x.tree
           p == pid_of[s]
           d == Displaced(t, s)
           n == Len(t.entries)
<1>1. /\ s \in PSN /\ p \in Pids /\ d = t.side_map[p]
      /\ d # NONE => d \in alive(t) /\ d \in PSN /\ pid_of[d] = p
  BY DisplacedAlive
<1>2. t \in TreeSet /\ u \in TreeSet BY DEF Managed
<1>3. Added(t, s, ppid, ppsn, u) BY DEF Insertion
<1>4. alive(u) = (alive(t) \ {d}) \cup {s} BY <1>3 DEF Added
<1>5. \A q \in Pids : u.side_map[q] = IF q = p THEN s ELSE t.side_map[q] BY <1>3 DEF Added
<1>6. \A c \in alive(t) : c \in 1 .. born /\ pid_of[c] \in Pids /\ t.side_map[pid_of[c]] = c
  BY DEF Shape, Kernel
<1>7. /\ n \in Nat /\ Len(u.entries) = n + 1 /\ u.entries[n + 1] = s
      /\ \A k \in 1 .. n : u.entries[k] = IF t.entries[k] = d THEN NONE ELSE t.entries[k]
  BY <1>2, <1>3, AliveAt DEF Added
<1> HIDE DEF d, n
<1>8. \A c \in alive(u) : c \in 1 .. born /\ u.side_map[pid_of[c]] = c
  <2>1. ASSUME NEW c \in alive(t), c # d PROVE u.side_map[pid_of[c]] = c
    BY <1>1, <1>5, <1>6, <2>1
  <2> QED BY <1>1, <1>4, <1>5, <1>6, <2>1
<1>9. \A q \in Pids : u.side_map[q] # NONE =>
        u.side_map[q] \in alive(u) /\ pid_of[u.side_map[q]] = q
  <2> TAKE q \in Pids
  <2> HAVE u.side_map[q] # NONE
  <2>1. CASE q = p BY <2>1, <1>4, <1>5
  <2>2. CASE q # p
    <3>1. t.side_map[q] \in alive(t) /\ pid_of[t.side_map[q]] = q BY <2>2, <1>5 DEF Shape
    <3>2. t.side_map[q] # NONE BY <3>1 DEF alive
    <3> QED BY <3>1, <3>2, <2>2, <1>1, <1>4, <1>5
  <2> QED BY <2>1, <2>2
<1>10. \A i, k \in DOMAIN u.entries : u.entries[i] # NONE /\ u.entries[i] = u.entries[k] => i = k
  <2>1. DOMAIN u.entries = 1 .. n + 1 /\ DOMAIN t.entries = 1 .. n
    BY <1>2, <1>7, AliveAt DEF n
  <2>2. \A k \in 1 .. n : u.entries[k] # s
    <3> TAKE k \in 1 .. n
    <3>1. t.entries[k] # s
      <4>1. s # NONE BY <1>1 DEF PSN, NONE
      <4> QED BY <4>1, <2>1, <1>2, AliveAt
    <3>2. s # NONE BY <1>1 DEF PSN, NONE
    <3> QED BY <3>1, <3>2, <1>7
  <2>3. \A i, k \in 1 .. n : t.entries[i] # NONE /\ t.entries[i] = t.entries[k] => i = k
    BY <2>1 DEF Shape
  <2>4. \A k \in 1 .. n + 1 : k \in 1 .. n \/ k = n + 1 BY <1>7
  <2>5. ASSUME NEW i \in 1 .. n, NEW k \in 1 .. n, u.entries[i] # NONE, u.entries[i] = u.entries[k]
        PROVE i = k
    BY <1>7, <2>3, <2>5
  <2> QED BY <1>7, <2>1, <2>2, <2>4, <2>5
<1>11. ASSUME NEW c \in PSN \ alive(u) PROVE u.parent[c] = NONE /\ u.mark[c] = Unmarked
  <2>1. c # s /\ (c = d \/ c \notin alive(t)) BY <1>4
  <2>2. c \notin Adopted(u, WithOrphan(m, s, ppid, ppsn), s)
    BY DEF Adopted, alive
  <2>3. BaseLink(t, s, c) = NONE
    <3>1. CASE c = d BY <3>1 DEF BaseLink, d
    <3>2. CASE c # d
      <4>1. c \notin Heirs(t, Displaced(t, s)) BY <3>2, <2>1 DEF Heirs, children
      <4>2. t.parent[c] = NONE BY <3>2, <2>1 DEF Shape
      <4> QED BY <4>1, <4>2 DEF BaseLink
    <3> QED BY <3>1, <3>2
  <2>4. u.parent[c] = NONE
    <3>1. u.parent[c] = NewLink(m, s, ppid, ppsn, u, c) BY DEF Insertion
    <3> QED BY <3>1, <2>1, <2>2, <2>3 DEF NewLink
  <2>5. PICK k \in TreeSet : /\ SameLinks(k, u) /\ BaseMarks(t, s, k)
                             /\ Matching(k, forget_owner(m, p), s, x)
    BY DEF Insertion
  <2>6. k.mark[c] = Unmarked
    <3>1. c = d => k.mark[c] = Unmarked BY <2>5 DEF BaseMarks, d
    <3>2. c # d => k.mark[c] = t.mark[c] BY <2>5 DEF BaseMarks, d
    <3>3. c # d => t.mark[c] = Unmarked BY <2>1 DEF Shape
    <3> QED BY <3>1, <3>2, <3>3
  <2>7. u.mark[c] = k.mark[c]
    <3>1. alive(k) = alive(u) BY <2>5 DEF SameLinks
    <3> QED BY <2>1, <2>5, <3>1 DEF Matching, ProxiedMarks
  <2> QED BY <2>4, <2>6, <2>7
<1> QED BY <1>2, <1>8, <1>9, <1>10, <1>11 DEF Shape

-----------------------------------------------------------------------------
\* Compaction.

\* q has the live entries of e, each once.
MovedUp(e, q) ==
  /\ q \in Seq(0 .. MaxPsn)
  /\ \A k \in DOMAIN q : q[k] # NONE
  /\ \A s : s # NONE => ((\E k \in DOMAIN q : q[k] = s) <=> (\E i \in DOMAIN e : e[i] = s))
  /\ \A i, k \in DOMAIN q : q[i] = q[k] => i = k

\* What moved_up() leaves of a sequence with no live entry twice.
LEMMA MovedUpEntries ==
  ASSUME NEW e \in Seq(0 .. MaxPsn),
         \A i, k \in DOMAIN e : e[i] # NONE /\ e[i] = e[k] => i = k,
         NEW q, q = moved_up(e)[Len(e)]
  PROVE  MovedUp(e, q)
<1> DEFINE N == Len(e)
           A == Seq(0 .. MaxPsn)
           G == [n \in 1 .. N |-> [x \in A |-> IF e[n] = NONE THEN x ELSE Append(x, e[n])]]
           Eq(w) == w = [n \in 0 .. N |-> IF n = 0 THEN <<>>
                                          ELSE IF e[n] = NONE THEN w[n - 1]
                                          ELSE Append(w[n - 1], e[n])]
           W == CHOOSE w : Eq(w)
<1>1. N \in Nat /\ DOMAIN e = 1 .. N /\ \A n \in 1 .. N : e[n] \in 0 .. MaxPsn
  <2>1. N \in Nat /\ DOMAIN e = 1 .. N OBVIOUS
  <2>2. \A n \in 1 .. Len(e) : e[n] \in 0 .. MaxPsn BY ElementOfSeq
  <2> QED BY <2>1, <2>2
<1>2. Solvable(N, A, <<>>, G)
  <2>1. ASSUME NEW n \in 1 .. N, NEW x \in A
        PROVE  (IF e[n] = NONE THEN x ELSE Append(x, e[n])) \in A
    BY <1>1, AppendProperties
  <2>2. G \in [1 .. N -> [A -> A]] BY <2>1
  <2>3. <<>> \in A BY EmptySeq
  <2> HIDE DEF G, A, N
  <2> QED BY <1>1, <2>2, <2>3, Recursion
<1>3. PICK g \in [0 .. N -> A] : g[0] = <<>> /\ \A n \in 1 .. N : g[n] = G[n][g[n - 1]]
  BY <1>2 DEF Solvable
<1>4. ASSUME NEW n \in 0 .. N
      PROVE  g[n] = IF n = 0 THEN <<>> ELSE IF e[n] = NONE THEN g[n - 1] ELSE Append(g[n - 1], e[n])
  <2>1. CASE n = 0 BY <2>1, <1>3
  <2>2. CASE n # 0
    <3>1. n \in 1 .. N /\ n - 1 \in 0 .. N BY <2>2, <1>1
    <3>2. g[n - 1] \in A /\ g[n] = G[n][g[n - 1]] BY <3>1, <1>3
    <3> HIDE DEF A
    <3> QED BY <3>1, <3>2, <2>2
  <2> QED BY <2>1, <2>2
<1>5. Eq(g) BY <1>4
<1>6. q = W[N] BY DEF moved_up
<1>7. Eq(W)
  <2> HIDE DEF Eq
  <2> QED BY <1>5
<1> HIDE DEF W
<1>8. /\ W[0] = <<>>
      /\ \A n \in 1 .. N : W[n] = IF e[n] = NONE THEN W[n - 1] ELSE Append(W[n - 1], e[n])
  <2> HIDE DEF G
  <2>1. PICK w : w = W OBVIOUS
  <2>2. w = [n \in 0 .. N |-> IF n = 0 THEN <<>>
                              ELSE IF e[n] = NONE THEN w[n - 1] ELSE Append(w[n - 1], e[n])]
    BY <1>7, <2>1
  <2>3. 0 \in 0 .. N /\ \A n \in 1 .. N : n \in 0 .. N /\ n # 0 BY <1>1
  <2>4. w[0] = <<>> BY <2>2, <2>3
  <2>5. ASSUME NEW n \in 1 .. N
        PROVE  w[n] = IF e[n] = NONE THEN w[n - 1] ELSE Append(w[n - 1], e[n])
    BY <2>2, <2>3
  <2> QED BY <2>1, <2>4, <2>5
<1> DEFINE Live(n, r) == /\ r \in A
                         /\ \A k \in DOMAIN r : r[k] # NONE /\ \E i \in 1 .. n : e[i] = r[k]
                         /\ \A i \in 1 .. n : e[i] # NONE => \E k \in DOMAIN r : r[k] = e[i]
                         /\ \A i, k \in DOMAIN r : r[i] = r[k] => i = k
           M == [n \in 0 .. N |-> {r \in A : Live(n, r)}]
<1>9. Live(0, W[0]) BY <1>8, EmptySeq
<1>10. ASSUME NEW n \in 1 .. N, Live(n - 1, W[n - 1]) PROVE Live(n, W[n])
  <2>1. n - 1 \in Nat /\ \A i \in 1 .. n : i \in 1 .. n - 1 \/ i = n BY <1>1
  <2>2. CASE e[n] = NONE
    <3>1. W[n] = W[n - 1] BY <1>8, <2>2
    <3>2. \A i \in 1 .. n - 1 : i \in 1 .. n BY <2>1
    <3> HIDE DEF A
    <3> QED BY <1>10, <2>1, <2>2, <3>1, <3>2
  <2>3. CASE e[n] # NONE
    <3>1. PICK r : r = W[n - 1] OBVIOUS
    <3>2. r \in Seq(0 .. MaxPsn) /\ Len(r) \in Nat /\ DOMAIN r = 1 .. Len(r) BY <1>10, <3>1
    <3>3. PICK z : z = Append(r, e[n]) OBVIOUS
    <3>4. W[n] = z BY <1>8, <2>3, <3>1, <3>3
    <3>5. /\ z \in Seq(0 .. MaxPsn) /\ DOMAIN z = 1 .. Len(r) + 1 /\ z[Len(r) + 1] = e[n]
          /\ \A k \in 1 .. Len(r) : z[k] = r[k]
      BY <1>1, <3>2, <3>3, AppendProperties
    <3>6. \A k \in 1 .. Len(r) + 1 : k \in 1 .. Len(r) \/ k = Len(r) + 1 BY <3>2
    <3>7. \A k \in 1 .. Len(r) : k \in 1 .. Len(r) + 1 BY <3>2
    <3>8. Len(r) + 1 \in 1 .. Len(r) + 1 BY <3>2
    <3>9. Live(n - 1, r) BY <1>10, <3>1
    <3>10. \A k \in 1 .. Len(r) : r[k] # e[n]
      <4> SUFFICES ASSUME NEW k \in 1 .. Len(r), r[k] = e[n] PROVE FALSE OBVIOUS
      <4>1. PICK i \in 1 .. n - 1 : e[i] = r[k] BY <3>2, <3>9
      <4>2. i \in DOMAIN e /\ n \in DOMAIN e /\ i # n BY <1>1, <4>1
      <4> QED BY <4>1, <4>2, <2>3
    <3>11. \A k \in DOMAIN z : z[k] # NONE /\ \E i \in 1 .. n : e[i] = z[k]
      <4> TAKE k \in DOMAIN z
      <4>1. CASE k = Len(r) + 1
        <5>1. n \in 1 .. n BY <1>1
        <5> QED BY <4>1, <5>1, <3>5, <2>3
      <4>2. CASE k \in 1 .. Len(r)
        <5>1. PICK i \in 1 .. n - 1 : e[i] = r[k] BY <3>2, <3>9, <4>2
        <5>2. i \in 1 .. n BY <1>1, <5>1
        <5> QED BY <3>2, <3>5, <3>9, <4>2, <5>1, <5>2
      <4> QED BY <4>1, <4>2, <3>5, <3>6
    <3>12. \A i \in 1 .. n : e[i] # NONE => \E k \in DOMAIN z : z[k] = e[i]
      <4> TAKE i \in 1 .. n
      <4>1. CASE i = n BY <4>1, <3>5, <3>8
      <4>2. CASE i \in 1 .. n - 1
        <5> HAVE e[i] # NONE
        <5>1. PICK k \in 1 .. Len(r) : r[k] = e[i] BY <4>2, <3>2, <3>9
        <5> QED BY <5>1, <3>5, <3>7
      <4> QED BY <4>1, <4>2, <2>1
    <3>13. \A i, k \in DOMAIN z : z[i] = z[k] => i = k
      <4>1. \A i, k \in 1 .. Len(r) : r[i] = r[k] => i = k BY <3>2, <3>9
      <4> QED BY <4>1, <3>5, <3>6, <3>10
    <3> QED BY <3>4, <3>5, <3>11, <3>12, <3>13
  <2> QED BY <2>2, <2>3
<1>11. \A n \in 0 .. N : W[n] \in M[n]
  <2>1. W[0] \in M[0] BY <1>1, <1>9
  <2>2. ASSUME NEW n \in 1 .. N, W[n - 1] \in M[n - 1] PROVE W[n] \in M[n]
    <3>1. n - 1 \in 0 .. N /\ n \in 0 .. N BY <1>1
    <3>2. M[n - 1] = {r \in A : Live(n - 1, r)} /\ M[n] = {r \in A : Live(n, r)} BY <3>1
    <3> HIDE DEF M
    <3>3. Live(n - 1, W[n - 1]) BY <2>2, <3>2
    <3>4. Live(n, W[n]) BY <3>3, <1>10
    <3> QED BY <3>2, <3>4
  <2> HIDE DEF M, A, N
  <2> QED BY <1>1, <2>1, <2>2, StepsStay
<1>12. Live(N, q)
  <2>1. N \in 0 .. N BY <1>1
  <2>2. M[N] = {r \in A : Live(N, r)} BY <2>1
  <2> HIDE DEF M, Live
  <2>3. W[N] \in M[N] BY <1>11, <2>1
  <2> QED BY <1>6, <2>2, <2>3
<1>13. /\ q \in Seq(0 .. MaxPsn)
       /\ \A k \in DOMAIN q : q[k] # NONE /\ \E i \in DOMAIN e : e[i] = q[k]
       /\ \A i \in DOMAIN e : e[i] # NONE => \E k \in DOMAIN q : q[k] = e[i]
       /\ \A i, k \in DOMAIN q : q[i] = q[k] => i = k
  BY <1>1, <1>12
<1> HIDE DEF A, G, M, Eq, Live, N
<1> QED BY <1>13 DEF MovedUp

\* compact(): entries and side map stay what they are, the links are rebuilt.
LEMMA Compacted ==
  ASSUME Kernel, NEW t, Shape(t), NEW u, u = compact(t)
  PROVE  /\ Shape(u) /\ alive(u) = alive(t)
         /\ u.parent_pid = t.parent_pid /\ u.parent_psn = t.parent_psn /\ u.mark = t.mark
         /\ \A p \in Pids : u.side_map[p] = t.side_map[p]
         /\ \A c \in PSN : u.parent[c] = fact_parent(t, c)
<1> DEFINE q == moved_up(t.entries)[Len(t.entries)]
           X == [p \in Pids |-> IF \E s \in alive(t) : pid_of[s] = p
                                THEN CHOOSE s \in alive(t) : pid_of[s] = p ELSE NONE]
           F == [s \in PSN |-> fact_parent(t, s)]
<1>1. t \in TreeSet /\ t.entries \in Seq(0 .. MaxPsn) BY DEF Shape, TreeSet
<1>2. u = [t EXCEPT !.entries = q, !.side_map = X, !.parent = F] BY DEF compact
<1>3. alive(t) \subseteq PSN /\ DOMAIN t.entries = 1 .. Len(t.entries) BY <1>1, AliveAt
<1>4. /\ q \in Seq(0 .. MaxPsn)
      /\ \A k \in DOMAIN q : q[k] # NONE
      /\ \A s : s # NONE => ((\E k \in DOMAIN q : q[k] = s) <=> (\E i \in DOMAIN t.entries : t.entries[i] = s))
      /\ \A i, k \in DOMAIN q : q[i] = q[k] => i = k
  <2>1. PICK e : e = t.entries OBVIOUS
  <2>2. e \in Seq(0 .. MaxPsn) BY <1>1, <2>1
  <2>3. \A i, k \in DOMAIN e : e[i] # NONE /\ e[i] = e[k] => i = k BY <2>1 DEF Shape
  <2>4. q = moved_up(e)[Len(e)] BY <2>1
  <2> HIDE DEF q
  <2>5. MovedUp(e, q) BY <2>2, <2>3, <2>4, MovedUpEntries
  <2> QED BY <2>1, <2>5 DEF MovedUp
<1>5. ASSUME NEW p \in Pids PROVE X[p] = t.side_map[p]
  <2>1. \A s \in alive(t) : pid_of[s] = p => s = t.side_map[p] BY DEF Shape
  <2>2. CASE \E s \in alive(t) : pid_of[s] = p
    <3>1. PICK s \in alive(t) : pid_of[s] = p BY <2>2
    <3>2. X[p] = CHOOSE y \in alive(t) : pid_of[y] = p BY <2>2
    <3>3. X[p] \in alive(t) /\ pid_of[X[p]] = p BY <3>1, <3>2
    <3> HIDE DEF X
    <3> QED BY <2>1, <3>3
  <2>3. CASE ~\E s \in alive(t) : pid_of[s] = p
    <3>1. X[p] = NONE BY <2>3
    <3>2. t.side_map[p] = NONE BY <2>3 DEF Shape
    <3> QED BY <3>1, <3>2
  <2> QED BY <2>2, <2>3
<1>6. X \in [Pids -> 0 .. MaxPsn]
  <2>1. X = [p \in Pids |-> t.side_map[p]]
    <3>1. DOMAIN X = Pids OBVIOUS
    <3>2. X = [p \in Pids |-> X[p]] OBVIOUS
    <3> HIDE DEF X
    <3> QED BY <1>5, <3>2
  <2> HIDE DEF X
  <2> QED BY <2>1, <1>1 DEF TreeSet
<1>7. F \in [PSN -> 0 .. MaxPsn]
  <2>1. ASSUME NEW s \in PSN PROVE fact_parent(t, s) \in 0 .. MaxPsn
    BY <1>1, ProcessAssumption DEF fact_parent, TreeSet, NONE
  <2> QED BY <2>1
<1>8. \A c \in PSN : F[c] = fact_parent(t, c) OBVIOUS
<1> HIDE DEF q, X, F
<1>9. /\ u.entries = q /\ u.side_map = X /\ u.parent = F
      /\ u.parent_pid = t.parent_pid /\ u.parent_psn = t.parent_psn /\ u.mark = t.mark
  BY <1>1, <1>2 DEF TreeSet
<1>10. u \in TreeSet BY <1>1, <1>2, <1>4, <1>6, <1>7 DEF TreeSet
<1>11. alive(u) = alive(t)
  <2>1. \A s : s # NONE => (s \in alive(u) <=> s \in alive(t)) BY <1>4, <1>9 DEF alive
  <2>2. NONE \notin alive(u) /\ NONE \notin alive(t) BY DEF alive
  <2> QED BY <2>1, <2>2
<1>12. \A p \in Pids : u.side_map[p] = t.side_map[p] BY <1>5, <1>9
<1>13. \A s \in alive(t) : s \in 1 .. born /\ pid_of[s] \in Pids /\ t.side_map[pid_of[s]] = s
  BY DEF Shape, Kernel
<1>14. \A s \in PSN \ alive(t) : fact_parent(t, s) = NONE BY DEF fact_parent
<1>15. Shape(u)
  <2>1. \A s \in alive(u) : s \in 1 .. born /\ u.side_map[pid_of[s]] = s
    BY <1>11, <1>12, <1>13
  <2>2. \A p \in Pids : u.side_map[p] # NONE =>
          u.side_map[p] \in alive(u) /\ pid_of[u.side_map[p]] = p
    BY <1>11, <1>12 DEF Shape
  <2>3. \A i, k \in DOMAIN u.entries : u.entries[i] # NONE /\ u.entries[i] = u.entries[k] => i = k
    BY <1>4, <1>9
  <2>4. \A s \in PSN \ alive(u) : u.parent[s] = NONE /\ u.mark[s] = Unmarked
    BY <1>8, <1>9, <1>11, <1>14 DEF Shape
  <2> QED BY <1>10, <2>1, <2>2, <2>3, <2>4 DEF Shape
<1> QED BY <1>8, <1>9, <1>11, <1>12, <1>15

\* tombstone_entry() keeps the tree in shape.
LEMMA ShapeTombstoned ==
  ASSUME Kernel, NEW t, Shape(t), NEW s \in alive(t), NEW u, u = tombstone_entry(t, s)
  PROVE  Shape(u)
<1>1. t \in TreeSet /\ s \in PSN BY AliveAt DEF Shape
<1>2. /\ u \in TreeSet
      /\ Len(u.entries) = Len(t.entries)
      /\ \A k \in 1 .. Len(t.entries) :
           u.entries[k] = IF t.entries[k] = s THEN NONE ELSE t.entries[k]
      /\ \A p \in Pids : u.side_map[p] = IF t.side_map[p] = s THEN NONE ELSE t.side_map[p]
      /\ \A c \in PSN :
           /\ u.parent[c] = IF c = s THEN NONE
                            ELSE IF c \in children(t, s) THEN t.parent[s] ELSE t.parent[c]
           /\ u.mark[c] = IF c = s THEN Unmarked ELSE t.mark[c]
      /\ alive(u) = alive(t) \ {s}
  BY <1>1, Tombstoned DEF Kernel
<1>3. DOMAIN u.entries = 1 .. Len(t.entries) /\ DOMAIN t.entries = 1 .. Len(t.entries)
  BY <1>1, <1>2, AliveAt
<1>4. \A c \in alive(t) : c \in 1 .. born /\ pid_of[c] \in Pids /\ t.side_map[pid_of[c]] = c
  BY DEF Shape, Kernel
<1>5. \A c \in alive(u) : c \in 1 .. born /\ u.side_map[pid_of[c]] = c BY <1>2, <1>4
<1>6. \A p \in Pids : u.side_map[p] # NONE =>
        u.side_map[p] \in alive(u) /\ pid_of[u.side_map[p]] = p
  BY <1>2 DEF Shape
<1>7. \A i, k \in DOMAIN u.entries : u.entries[i] # NONE /\ u.entries[i] = u.entries[k] => i = k
  <2>1. \A i, k \in 1 .. Len(t.entries) : t.entries[i] # NONE /\ t.entries[i] = t.entries[k] => i = k
    BY <1>3 DEF Shape
  <2> QED BY <1>2, <1>3, <2>1
<1>8. \A c \in PSN \ alive(u) : u.parent[c] = NONE /\ u.mark[c] = Unmarked
  <2> TAKE c \in PSN \ alive(u)
  <2>1. CASE c = s BY <2>1, <1>2
  <2>2. CASE c # s
    <3>1. c \notin alive(t) /\ c \notin children(t, s) BY <2>2, <1>2 DEF children
    <3> QED BY <2>2, <3>1, <1>2 DEF Shape
  <2> QED BY <2>1, <2>2
<1> QED BY <1>2, <1>5, <1>6, <1>7, <1>8 DEF Shape

\* tombstone(): the entry goes, its children move up, and perhaps every link is
\* rebuilt from the facts.
Removed(t, s, u) ==
  /\ alive(u) = alive(t) \ {s}
  /\ \A p \in Pids : u.side_map[p] = IF t.side_map[p] = s THEN NONE ELSE t.side_map[p]
  /\ \A c \in PSN :
       /\ u.parent_psn[c] = IF c = s THEN NONE
                            ELSE IF c \in children(t, s) THEN t.parent[s] ELSE t.parent_psn[c]
       /\ u.parent_pid[c] = IF c = s THEN NoPid
                            ELSE IF c \in children(t, s) THEN pidOf(t.parent[s])
                            ELSE t.parent_pid[c]
       /\ u.mark[c] = IF c = s THEN Unmarked ELSE t.mark[c]
  /\ \/ \A c \in PSN : u.parent[c] = IF c = s THEN NONE
                                     ELSE IF c \in children(t, s) THEN t.parent[s] ELSE t.parent[c]
     \/ \A c \in PSN : u.parent[c] = fact_parent(u, c)

\* tombstone() does what Removed says, and keeps the tree in shape.
LEMMA RemovedEntry ==
  ASSUME Kernel, NEW t, Shape(t), NEW s \in alive(t), NEW u, u = tombstone(t, s)
  PROVE  Shape(u) /\ Removed(t, s, u)
<1>1. t \in TreeSet /\ s \in PSN BY AliveAt DEF Shape
<1>2. PICK v : v = tombstone_entry(t, s) OBVIOUS
<1>3. Shape(v) BY <1>2, ShapeTombstoned
<1>4. /\ \A p \in Pids : v.side_map[p] = IF t.side_map[p] = s THEN NONE ELSE t.side_map[p]
      /\ \A c \in PSN :
           /\ v.parent[c] = IF c = s THEN NONE
                            ELSE IF c \in children(t, s) THEN t.parent[s] ELSE t.parent[c]
           /\ v.parent_psn[c] = IF c = s THEN NONE
                                ELSE IF c \in children(t, s) THEN t.parent[s]
                                ELSE t.parent_psn[c]
           /\ v.parent_pid[c] = IF c = s THEN NoPid
                                ELSE IF c \in children(t, s) THEN pidOf(t.parent[s])
                                ELSE t.parent_pid[c]
           /\ v.mark[c] = IF c = s THEN Unmarked ELSE t.mark[c]
      /\ alive(v) = alive(t) \ {s}
  BY <1>1, <1>2, Tombstoned DEF Kernel
<1>5. u = v \/ u = compact(v) BY <1>2 DEF tombstone
<1>6. CASE u = v BY <1>3, <1>4, <1>6 DEF Removed
<1>7. CASE u = compact(v)
  <2>1. /\ Shape(u) /\ alive(u) = alive(v)
        /\ u.parent_pid = v.parent_pid /\ u.parent_psn = v.parent_psn /\ u.mark = v.mark
        /\ \A p \in Pids : u.side_map[p] = v.side_map[p]
        /\ \A c \in PSN : u.parent[c] = fact_parent(v, c)
    BY <1>3, <1>7, Compacted
  <2>2. \A c \in PSN : fact_parent(v, c) = fact_parent(u, c)
    <3> TAKE c \in PSN
    <3>1. v.parent_pid[c] \in Pids \cup {NoPid} BY <1>3 DEF Shape, TreeSet
    <3>2. find_by_pid(v, v.parent_pid[c]) = find_by_pid(u, u.parent_pid[c])
      BY <2>1, <3>1 DEF find_by_pid
    <3> QED BY <2>1, <3>2 DEF fact_parent, find_by_pid_psn
  <2> QED BY <1>4, <2>1, <2>2 DEF Removed
<1> QED BY <1>5, <1>6, <1>7

-----------------------------------------------------------------------------
\* Commands and timers.

\* A tree that differs in the marks alone keeps its shape.
LEMMA ShapeMarked ==
  ASSUME NEW t, Shape(t), NEW u \in TreeSet, SameLinks(t, u),
         \A c \in PSN \ alive(t) : u.mark[c] = t.mark[c]
  PROVE  Shape(u)
BY DEF Shape, SameLinks

\* Whoever waits, and is no root yet, becomes one.
LEMMA ShapeRooted ==
  ASSUME NEW t, Shape(t), NEW C, NEW u, u = mark_root(t, C)
  PROVE  /\ Shape(u) /\ alive(u) = alive(t)
         /\ u.entries = t.entries /\ u.side_map = t.side_map /\ u.mark = t.mark
         /\ u.parent_pid = t.parent_pid /\ u.parent_psn = t.parent_psn
         /\ \A c \in PSN : u.parent[c] = IF c \in C THEN NONE ELSE t.parent[c]
<1>1. u = attach_child(t, NONE, C) /\ NONE \in 0 .. MaxPsn
  BY ProcessAssumption DEF mark_root, NONE
<1>2. t \in TreeSet BY DEF Shape
<1>3. /\ u \in TreeSet
      /\ u.entries = t.entries /\ u.side_map = t.side_map /\ u.mark = t.mark
      /\ u.parent_pid = t.parent_pid /\ u.parent_psn = t.parent_psn
      /\ \A c \in PSN : u.parent[c] = IF c \in C THEN NONE ELSE t.parent[c]
      /\ alive(u) = alive(t)
  BY <1>1, <1>2, Attached
<1>4. Shape(u) BY <1>3 DEF Shape
<1> QED BY <1>3, <1>4

\* manual_hijack()'s marks.
HijackMarks(t, u, C, g) ==
  \A c \in PSN : IF c \in C THEN Marked(u.mark[c], g, TRUE, t.mark[c].auto)
                 ELSE u.mark[c] = t.mark[c]

\* A command is about entries of the tree.
LEMMA ScopeAlive ==
  ASSUME NEW t \in TreeSet, NEW s \in alive(t), NEW mode
  PROVE  s \in command_scope(t, s, mode) /\ command_scope(t, s, mode) \subseteq alive(t)
BY DescendantsAlive DEF command_scope

\* A tree with other marks.
LEMMA Remarked ==
  ASSUME NEW t \in TreeSet, NEW X \in [PSN -> MarkSet], NEW u, u = [t EXCEPT !.mark = X]
  PROVE  u \in TreeSet /\ SameLinks(t, u) /\ u.mark = X
<1>1. u \in TreeSet BY DEF TreeSet
<1>2. /\ u.entries = t.entries /\ u.side_map = t.side_map /\ u.parent = t.parent
      /\ u.parent_pid = t.parent_pid /\ u.parent_psn = t.parent_psn /\ u.mark = X
  BY DEF TreeSet
<1>3. alive(u) = alive(t) BY <1>2 DEF alive
<1> QED BY <1>1, <1>2, <1>3 DEF SameLinks

\* manual_hijack() changes marks alone, as HijackMarks says.
LEMMA Hijacked ==
  ASSUME NEW t, Shape(t), NEW s \in alive(t), NEW mode, NEW g \in ManualGroups,
         NEW u, u = manual_hijack(t, s, mode, g)
  PROVE  /\ Shape(u) /\ SameLinks(t, u)
         /\ HijackMarks(t, u, command_scope(t, s, mode), g)
<1> DEFINE C == command_scope(t, s, mode)
           X == [c \in PSN |-> IF c \in C THEN [t.mark[c] EXCEPT !.group = g, !.manual = TRUE]
                               ELSE t.mark[c]]
<1>1. u = [t EXCEPT !.mark = X] BY DEF manual_hijack
<1>2. t \in TreeSet BY DEF Shape
<1>3. C \subseteq alive(t) BY <1>2, ScopeAlive
<1> HIDE DEF C
<1>4. g \in Groups BY DEF Groups
<1>5. \A c \in PSN : t.mark[c] \in MarkSet BY <1>2 DEF TreeSet
<1>6. ASSUME NEW k \in MarkSet
      PROVE  /\ [k EXCEPT !.group = g, !.manual = TRUE] \in MarkSet
             /\ Marked([k EXCEPT !.group = g, !.manual = TRUE], g, TRUE, k.auto)
  BY <1>4 DEF MarkSet, Marked
<1>7. X \in [PSN -> MarkSet] BY <1>5, <1>6
<1>8. \A c \in PSN : IF c \in C THEN Marked(X[c], g, TRUE, t.mark[c].auto)
                     ELSE X[c] = t.mark[c]
  BY <1>5, <1>6
<1> HIDE DEF X
<1>9. u \in TreeSet /\ SameLinks(t, u) /\ u.mark = X BY <1>1, <1>2, <1>7, Remarked
<1>10. HijackMarks(t, u, C, g) BY <1>8, <1>9 DEF HijackMarks
<1>11. \A c \in PSN \ alive(t) : u.mark[c] = t.mark[c] BY <1>3, <1>8, <1>9
<1>12. Shape(u) BY <1>9, <1>11, ShapeMarked
<1> QED BY <1>9, <1>10, <1>12 DEF C

\* manual_unhijack()'s marks.
UnhijackMarks(t, u, C) ==
  \A c \in PSN : IF c \notin C THEN u.mark[c] = t.mark[c]
                 ELSE IF t.mark[c].auto THEN Marked(u.mark[c], t.mark[c].group, FALSE, TRUE)
                 ELSE u.mark[c] = Unmarked

\* manual_unhijack() changes marks alone, as UnhijackMarks says.
LEMMA Unhijacked ==
  ASSUME NEW t, Shape(t), NEW s \in alive(t), NEW mode,
         NEW u, u = manual_unhijack(t, s, mode)
  PROVE  /\ Shape(u) /\ SameLinks(t, u)
         /\ \E C \in SUBSET command_scope(t, s, mode) : UnhijackMarks(t, u, C)
<1> DEFINE C == {c \in command_scope(t, s, mode) : c = s \/ t.mark[c].manual}
           X == [c \in PSN |-> IF c \notin C THEN t.mark[c]
                               ELSE IF t.mark[c].auto THEN [t.mark[c] EXCEPT !.manual = FALSE]
                               ELSE Unmarked]
<1>1. u = [t EXCEPT !.mark = X] BY DEF manual_unhijack
<1>2. t \in TreeSet BY DEF Shape
<1>3. C \subseteq alive(t) /\ C \in SUBSET command_scope(t, s, mode) BY <1>2, ScopeAlive
<1> HIDE DEF C
<1>5. \A c \in PSN : t.mark[c] \in MarkSet BY <1>2 DEF TreeSet
<1>6. ASSUME NEW k \in MarkSet, k.auto
      PROVE  /\ [k EXCEPT !.manual = FALSE] \in MarkSet
             /\ Marked([k EXCEPT !.manual = FALSE], k.group, FALSE, TRUE)
  BY <1>6 DEF MarkSet, Marked
<1>4. Unmarked \in MarkSet BY DEF Unmarked, MarkSet
<1>7. X \in [PSN -> MarkSet] BY <1>4, <1>5, <1>6
<1>8. \A c \in PSN : IF c \notin C THEN X[c] = t.mark[c]
                     ELSE IF t.mark[c].auto THEN Marked(X[c], t.mark[c].group, FALSE, TRUE)
                     ELSE X[c] = Unmarked
  BY <1>5, <1>6
<1> HIDE DEF X
<1>9. u \in TreeSet /\ SameLinks(t, u) /\ u.mark = X BY <1>1, <1>2, <1>7, Remarked
<1>10. UnhijackMarks(t, u, C) BY <1>8, <1>9 DEF UnhijackMarks
<1>11. \A c \in PSN \ alive(t) : u.mark[c] = t.mark[c] BY <1>3, <1>8, <1>9
<1>12. Shape(u) BY <1>9, <1>11, ShapeMarked
<1> QED BY <1>3, <1>9, <1>10, <1>12

\* What apply_auto_rules() leaves: each rule has the processes it hits, and a
\* process the user did not hijack has the group of a rule that hits it, if any.
AppliedMark(t, u, hits, n, c) ==
  IF t.mark[c].manual THEN Marked(u.mark[c], t.mark[c].group, TRUE, FALSE)
  ELSE \/ \E r \in 1 .. n : c \in hits[r] /\ Marked(u.mark[c], RuleGroup[r], FALSE, TRUE)
       \/ /\ \A r \in 1 .. n : c \notin hits[r]
          /\ u.mark[c] = IF t.mark[c].auto THEN Unmarked ELSE t.mark[c]
Applied(t, config_, x) ==
  \E hits \in [Rules -> SUBSET alive(t)] :
    /\ \A r \in Rules : /\ x.rules[r].enabled = config_[r].enabled
                        /\ x.rules[r].matched = pids(hits[r])
    /\ \A c \in PSN : AppliedMark(t, x.tree, hits, Cardinality(Rules), c)

\* drop_auto()
LEMMA Dropped ==
  ASSUME NEW t \in TreeSet, NEW u, u = drop_auto(t)
  PROVE  /\ u \in TreeSet /\ SameLinks(t, u)
         /\ \A hits : \A c \in PSN : AppliedMark(t, u, hits, 0, c)
<1> DEFINE left(m) == IF ~m.auto THEN m ELSE IF m.manual THEN [m EXCEPT !.auto = FALSE] ELSE Unmarked
           X == [c \in PSN |-> left(t.mark[c])]
<1>1. u = [t EXCEPT !.mark = X] BY DEF drop_auto
<1>2. \A c \in PSN : t.mark[c] \in MarkSet BY DEF TreeSet
<1>3. Unmarked \in MarkSet BY DEF Unmarked, MarkSet
<1>4. ASSUME NEW k \in MarkSet
      PROVE  /\ left(k) \in MarkSet
             /\ k.manual => Marked(left(k), k.group, TRUE, FALSE)
             /\ ~k.manual => left(k) = IF k.auto THEN Unmarked ELSE k
  BY <1>3 DEF MarkSet, Marked
<1>5. X \in [PSN -> MarkSet] BY <1>2, <1>4
<1>6. \A c \in PSN : /\ t.mark[c].manual => Marked(X[c], t.mark[c].group, TRUE, FALSE)
                     /\ ~t.mark[c].manual => X[c] = IF t.mark[c].auto THEN Unmarked ELSE t.mark[c]
  <2> TAKE c \in PSN
  <2>1. X[c] = left(t.mark[c]) /\ t.mark[c] \in MarkSet BY <1>2
  <2> HIDE DEF X, left
  <2> QED BY <2>1, <1>4
<1> HIDE DEF X
<1>7. u \in TreeSet /\ SameLinks(t, u) /\ u.mark = X BY <1>1, <1>5, Remarked
<1>8. 1 .. 0 = {} OBVIOUS
<1>9. ASSUME NEW hits, NEW c \in PSN PROVE AppliedMark(t, u, hits, 0, c)
  BY <1>6, <1>7, <1>8 DEF AppliedMark
<1> QED BY <1>7, <1>9

\* One rule more is applied.
LEMMA AppliedOnce ==
  ASSUME NEW t \in TreeSet, NEW x \in TreeSet, NEW hits, NEW k \in Nat, k + 1 \in Rules,
         NEW y, y = mark_proxied(x, hits[k + 1], k + 1),
         SameLinks(t, x), \A c \in PSN : AppliedMark(t, x, hits, k, c)
  PROVE  /\ y \in TreeSet /\ SameLinks(t, y)
         /\ \A c \in PSN : AppliedMark(t, y, hits, k + 1, c)
<1>1. y \in TreeSet /\ SameLinks(x, y) /\ ProxiedMarks(x, y, hits[k + 1], k + 1)
  BY Proxied
<1>2. SameLinks(t, y) BY <1>1 DEF SameLinks
<1>3. \A r : r \in 1 .. k + 1 <=> r \in 1 .. k \/ r = k + 1 OBVIOUS
<1>4. ASSUME NEW c \in PSN PROVE AppliedMark(t, y, hits, k + 1, c)
  <2>1. AppliedMark(t, x, hits, k, c) OBVIOUS
  <2>2. IF c \notin hits[k + 1] \/ x.mark[c].manual THEN y.mark[c] = x.mark[c]
        ELSE Marked(y.mark[c], RuleGroup[k + 1], FALSE, TRUE)
    BY <1>1 DEF ProxiedMarks
  <2>3. CASE t.mark[c].manual
    <3>1. Marked(x.mark[c], t.mark[c].group, TRUE, FALSE) BY <2>1, <2>3 DEF AppliedMark
    <3>2. y.mark[c] = x.mark[c] BY <2>2, <3>1 DEF Marked
    <3> QED BY <2>3, <3>1, <3>2 DEF AppliedMark
  <2>4. CASE ~t.mark[c].manual
    <3>1. ~x.mark[c].manual BY <2>1, <2>4 DEF AppliedMark, Marked, Unmarked
    <3>2. CASE c \in hits[k + 1]
      <4>1. Marked(y.mark[c], RuleGroup[k + 1], FALSE, TRUE) BY <2>2, <3>1, <3>2
      <4> QED BY <1>3, <2>4, <3>2, <4>1 DEF AppliedMark
    <3>3. CASE c \notin hits[k + 1]
      <4>1. y.mark[c] = x.mark[c] BY <2>2, <3>3
      <4> QED BY <1>3, <2>1, <2>4, <3>3, <4>1 DEF AppliedMark
    <3> QED BY <3>2, <3>3
  <2> QED BY <2>3, <2>4
<1> QED BY <1>1, <1>2, <1>4

\* A rule matches entries of the tree.
LEMMA FullMatchAlive ==
  ASSUME NEW t \in TreeSet, NEW rs, NEW r PROVE full_match(t, rs, r) \subseteq alive(t)
<1>1. \A s : expansion(t, rs, r, s) \subseteq alive(t) BY DescendantsAlive DEF expansion
<1> QED BY <1>1 DEF full_match

\* apply_auto_rules() does what Applied says.
LEMMA AppliedRules ==
  ASSUME Kernel, NEW t, Shape(t), NEW cfg \in RuleSet, NEW x, x = apply_auto_rules(t, cfg)
  PROVE  /\ x.rules \in RuleSet /\ Shape(x.tree) /\ SameLinks(t, x.tree)
         /\ Applied(t, cfg, x)
<1> DEFINE hits == [r \in Rules |-> IF cfg[r].enabled THEN full_match(t, cfg, r) ELSE {}]
           N == Cardinality(Rules)
           Eq(w) == w = [n \in 0 .. N |-> IF n = 0 THEN drop_auto(t)
                                          ELSE mark_proxied(w[n - 1], hits[n], n)]
           W == CHOOSE w : Eq(w)
           R == [r \in Rules |-> [cfg[r] EXCEPT !.matched = pids(hits[r])]]
<1>1. t \in TreeSet BY DEF Shape
<1>2. hits \in [Rules -> SUBSET alive(t)] BY <1>1, FullMatchAlive
<1>3. N \in Nat /\ Rules = 1 .. N BY RuleAssumption, FS_CardinalityType
<1>4. x = [tree |-> W[N], rules |-> R]
  <2>1. hits = CHOOSE h : h = [r \in Rules |-> IF cfg[r].enabled THEN full_match(t, cfg, r) ELSE {}]
    OBVIOUS
  <2> QED BY <2>1 DEF apply_auto_rules
<1>5. \A r \in Rules : /\ R[r].enabled = cfg[r].enabled /\ R[r].matched = pids(hits[r])
                       /\ R[r] \in [enabled : BOOLEAN, excluded : SUBSET Pids, matched : SUBSET Pids]
  <2> TAKE r \in Rules
  <2>1. R[r] = [cfg[r] EXCEPT !.matched = pids(hits[r])] OBVIOUS
  <2>2. pids(hits[r]) \subseteq Pids
    <3>1. hits[r] \subseteq alive(t) BY <1>2
    <3>2. \A s \in alive(t) : pid_of[s] \in Pids BY DEF Shape, Kernel
    <3> HIDE DEF hits
    <3> QED BY <3>1, <3>2 DEF pids
  <2> HIDE DEF hits, R
  <2> QED BY <2>1, <2>2 DEF RuleSet
<1>6. R \in RuleSet
  <2>1. R = [r \in Rules |-> R[r]] OBVIOUS
  <2> HIDE DEF R
  <2> QED BY <1>5, <2>1 DEF RuleSet
<1> HIDE DEF R, hits
<1> DEFINE A == TreeSet
           a == drop_auto(t)
           G == [n \in 1 .. N |-> [z \in A |-> mark_proxied(z, hits[n], n)]]
<1>7. a \in A /\ SameLinks(t, a) /\ \A c \in PSN : AppliedMark(t, a, hits, 0, c)
  BY <1>1, Dropped
<1>8. G \in [1 .. N -> [A -> A]]
  <2>1. ASSUME NEW n \in 1 .. N, NEW z \in A PROVE mark_proxied(z, hits[n], n) \in A
    BY <1>3, Proxied
  <2> HIDE DEF N, A
  <2> QED BY <2>1
<1>9. Solvable(N, A, a, G)
  <2> HIDE DEF N, A, a, G
  <2> QED BY <1>3, <1>7, <1>8, Recursion
<1>10. PICK g \in [0 .. N -> A] : g[0] = a /\ \A n \in 1 .. N : g[n] = G[n][g[n - 1]]
  <2> HIDE DEF N, A, a, G
  <2> QED BY <1>9 DEF Solvable
<1> HIDE DEF N
<1>11. Eq(g)
  <2>1. ASSUME NEW n \in 0 .. N
        PROVE  g[n] = IF n = 0 THEN drop_auto(t) ELSE mark_proxied(g[n - 1], hits[n], n)
    <3>1. CASE n = 0 BY <3>1, <1>10
    <3>2. CASE n # 0
      <4>1. n \in 1 .. N /\ n - 1 \in 0 .. N BY <3>2, <1>3
      <4>2. g[n] = G[n][g[n - 1]] /\ g[n - 1] \in A BY <4>1, <1>10
      <4>3. G[n][g[n - 1]] = mark_proxied(g[n - 1], hits[n], n)
        <5> HIDE DEF A
        <5> QED BY <4>1, <4>2
      <4> QED BY <3>2, <4>2, <4>3
    <3> QED BY <3>1, <3>2
  <2> HIDE DEF A, a, G
  <2> QED BY <2>1, <1>10
<1>12. Eq(W)
  <2> HIDE DEF Eq
  <2> QED BY <1>11
<1> HIDE DEF W
<1>13. W[0] = a /\ \A n \in 1 .. N : W[n] = mark_proxied(W[n - 1], hits[n], n)
  <2> HIDE DEF G
  <2>1. PICK w : w = W OBVIOUS
  <2>2. w = [n \in 0 .. N |-> IF n = 0 THEN a ELSE mark_proxied(w[n - 1], hits[n], n)]
    BY <1>12, <2>1
  <2> HIDE DEF a
  <2>3. 0 \in 0 .. N /\ \A n \in 1 .. N : n \in 0 .. N /\ n # 0 BY <1>3
  <2>4. w[0] = a BY <2>2, <2>3
  <2>5. ASSUME NEW n \in 1 .. N PROVE w[n] = mark_proxied(w[n - 1], hits[n], n)
    BY <2>2, <2>3
  <2> QED BY <2>1, <2>4, <2>5
<1> HIDE DEF G, a, A, Eq
<1> DEFINE Good(n, z) == z \in TreeSet /\ SameLinks(t, z) /\ \A c \in PSN : AppliedMark(t, z, hits, n, c)
           M == [n \in 0 .. N |-> {z \in TreeSet : Good(n, z)}]
<1>14. \A n \in 0 .. N : M[n] = {z \in TreeSet : Good(n, z)} OBVIOUS
<1>15. W[0] \in M[0]
  <2>1. Good(0, W[0]) /\ 0 \in 0 .. N BY <1>3, <1>7, <1>13 DEF A
  <2> HIDE DEF M
  <2> QED BY <2>1, <1>14
<1>16. ASSUME NEW n \in 1 .. N, W[n - 1] \in M[n - 1] PROVE W[n] \in M[n]
  <2>1. n - 1 \in 0 .. N /\ n \in 0 .. N BY <1>3
  <2> HIDE DEF M
  <2>2. Good(n - 1, W[n - 1]) BY <1>14, <1>16, <2>1
  <2>3. PICK k, z, y : k = n - 1 /\ z = W[n - 1] /\ y = W[n] OBVIOUS
  <2>4. k \in Nat /\ n = k + 1 /\ k + 1 \in Rules BY <1>3, <2>3
  <2>5. y = mark_proxied(z, hits[k + 1], k + 1) BY <1>13, <2>3, <2>4
  <2>6. z \in TreeSet /\ SameLinks(t, z) /\ \A c \in PSN : AppliedMark(t, z, hits, k, c)
    BY <2>2, <2>3
  <2>7. y \in TreeSet /\ SameLinks(t, y) /\ \A c \in PSN : AppliedMark(t, y, hits, k + 1, c)
    BY <1>1, <2>4, <2>5, <2>6, AppliedOnce
  <2>8. Good(n, W[n]) BY <2>3, <2>4, <2>7
  <2> QED BY <1>14, <2>1, <2>8
<1>17. Good(N, W[N])
  <2> HIDE DEF M, Good
  <2>1. \A n \in 0 .. N : W[n] \in M[n] BY <1>3, <1>15, <1>16, StepsStay
  <2>2. N \in 0 .. N BY <1>3
  <2> QED BY <1>14, <2>1, <2>2
<1>18. x.tree = W[N] /\ x.rules = R BY <1>4
<1>19. x.tree \in TreeSet /\ SameLinks(t, x.tree)
       /\ \A c \in PSN : AppliedMark(t, x.tree, hits, N, c)
  BY <1>17, <1>18
<1>20. \A c \in PSN \ alive(t) : x.tree.mark[c] = t.mark[c]
  <2> TAKE c \in PSN \ alive(t)
  <2>1. t.mark[c] = Unmarked BY DEF Shape
  <2>2. \A r \in 1 .. N : c \notin hits[r] BY <1>2, <1>3
  <2>3. ~t.mark[c].manual /\ ~t.mark[c].auto BY <2>1 DEF Unmarked
  <2>4. AppliedMark(t, x.tree, hits, N, c) BY <1>19
  <2> QED BY <2>2, <2>3, <2>4 DEF AppliedMark
<1>21. Shape(x.tree)
  <2>1. PICK u : u = x.tree OBVIOUS
  <2> QED BY <1>19, <1>20, <2>1, ShapeMarked
<1>22. Applied(t, cfg, x) BY <1>2, <1>5, <1>18, <1>19 DEF Applied, N
<1> QED BY <1>6, <1>18, <1>19, <1>21, <1>22

-----------------------------------------------------------------------------
\* Resolving a PID.

\* Who is opened by a PID is running and has it.
LEMMA OwnerRuns ==
  ASSUME NEW p
  PROVE  /\ owner(p) # NONE => owner(p) \in running /\ pid_of[owner(p)] = p
         /\ opened(p) # NONE => opened(p) = owner(p) /\ opened(p) \notin Unopenable
         /\ (\E s \in running : pid_of[s] = p) => owner(p) \in running /\ pid_of[owner(p)] = p
BY DEF owner, opened

\* The next of a chain is running and the tree does not have it.
IsChain(t, c) ==
  /\ c \in Seq(running) /\ Len(c) \in Nat \ {0}
  /\ \A k \in 1 .. Len(c) - 1 :
       LET p == parent_pid_of(c[k])
       IN p # NoPid /\ find_by_pid(t, p) = NONE /\ opened(p) = c[k + 1] /\ c[k + 1] # NONE

\* The elements of a chain are running processes.
LEMMA ChainElement ==
  ASSUME Kernel, NEW t, NEW c, IsChain(t, c)
  PROVE  /\ Len(c) \in Nat \ {0} /\ DOMAIN c = 1 .. Len(c)
         /\ \A k \in 1 .. Len(c) : c[k] \in running /\ c[k] \in 1 .. born /\ c[k] \in PSN
<1>1. c \in Seq(running) BY DEF IsChain
<1>2. \A k \in 1 .. Len(c) : c[k] \in running BY <1>1, ElementOfSeq
<1>3. \A s \in running : s \in 1 .. born /\ s \in PSN
  BY ProcessAssumption DEF Kernel, ProcessesTypeOK, PSN
<1> QED BY <1>1, <1>2, <1>3 DEF IsChain

\* The step of the walk up.
Extended(t, c) ==
  LET p == parent_pid_of(Last(c))
  IN IF p = NoPid \/ find_by_pid(t, p) # NONE \/ opened(p) = NONE THEN c ELSE Append(c, opened(p))

\* One step up leaves a chain.
LEMMA ExtendedChain ==
  ASSUME Kernel, NEW t, NEW c, IsChain(t, c)
  PROVE  IsChain(t, Extended(t, c)) /\ Extended(t, c)[1] = c[1]
<1> DEFINE p == parent_pid_of(Last(c))
<1>1. CASE p = NoPid \/ find_by_pid(t, p) # NONE \/ opened(p) = NONE
  BY <1>1 DEF Extended
<1>2. CASE ~(p = NoPid \/ find_by_pid(t, p) # NONE \/ opened(p) = NONE)
  <2>1. PICK o, z : o = opened(p) /\ z = Append(c, o) OBVIOUS
  <2>2. Extended(t, c) = z BY <1>2, <2>1 DEF Extended
  <2>3. o \in running /\ o # NONE BY <1>2, <2>1, OwnerRuns
  <2>4. c \in Seq(running) /\ Len(c) \in Nat \ {0} BY DEF IsChain
  <2>5. /\ z \in Seq(running) /\ Len(z) = Len(c) + 1 /\ z[Len(c) + 1] = o
        /\ \A k \in 1 .. Len(c) : z[k] = c[k]
    BY <2>1, <2>3, <2>4, AppendProperties
  <2>6. Last(c) = c[Len(c)] BY DEF Last
  <2>7. ASSUME NEW k \in 1 .. Len(z) - 1
        PROVE  /\ parent_pid_of(z[k]) # NoPid /\ find_by_pid(t, parent_pid_of(z[k])) = NONE
               /\ opened(parent_pid_of(z[k])) = z[k + 1] /\ z[k + 1] # NONE
    <3>1. CASE k = Len(c)
      <4>1. z[k] = Last(c) /\ z[k + 1] = o BY <3>1, <2>4, <2>5, <2>6
      <4> QED BY <4>1, <1>2, <2>1, <2>3
    <3>2. CASE k # Len(c)
      <4>1. k \in 1 .. Len(c) - 1 /\ k \in 1 .. Len(c) /\ k + 1 \in 1 .. Len(c)
        BY <3>2, <2>4, <2>5
      <4>2. z[k] = c[k] /\ z[k + 1] = c[k + 1] BY <4>1, <2>5
      <4> QED BY <4>1, <4>2 DEF IsChain
    <3> QED BY <3>1, <3>2
  <2>8. Len(z) \in Nat \ {0} BY <2>4, <2>5
  <2>9. IsChain(t, z) BY <2>5, <2>7, <2>8 DEF IsChain
  <2>10. z[1] = c[1] BY <2>4, <2>5
  <2> QED BY <2>2, <2>9, <2>10
<1> QED BY <1>1, <1>2

\* chain_from() walks up a chain.
LEMMA ChainFrom ==
  ASSUME Kernel, NEW t, NEW first \in running
  PROVE  IsChain(t, chain_from(t, first)) /\ chain_from(t, first)[1] = first
<1> DEFINE K == kMaxChainDepth
           A == {c \in Seq(running) : IsChain(t, c) /\ c[1] = first}
           step(n, c) == IF Len(c) < n - 1 THEN c ELSE Extended(t, c)
           Eq(w) == w = [n \in 1 .. K |-> IF n = 1 THEN <<first>>
                                          ELSE IF Len(w[n - 1]) < n - 1 THEN w[n - 1]
                                          ELSE Extended(t, w[n - 1])]
           W == CHOOSE w : Eq(w)
           a == <<first>>
           G == [n \in 1 .. K - 1 |-> [c \in A |-> step(n + 1, c)]]
<1>1. K \in Nat \ {0} /\ K - 1 \in Nat BY ManagerAssumption
<1>2. chain_from(t, first) = W[K] BY DEF chain_from, Extended
<1>3. a \in A
  <2>1. a \in Seq(running) /\ Len(a) = 1 /\ a[1] = first OBVIOUS
  <2>2. 1 .. 0 = {} OBVIOUS
  <2> HIDE DEF a
  <2>3. IsChain(t, a) BY <2>1, <2>2 DEF IsChain
  <2> QED BY <2>1, <2>3
<1>4. \A n : \A c \in A : step(n, c) \in A
  <2> TAKE n
  <2> TAKE c \in A
  <2>1. IsChain(t, Extended(t, c)) /\ Extended(t, c)[1] = first BY ExtendedChain
  <2>2. Extended(t, c) \in Seq(running) BY <2>1 DEF IsChain
  <2> QED BY <2>1, <2>2
<1>5. G \in [1 .. K - 1 -> [A -> A]]
  <2>1. ASSUME NEW n \in 1 .. K - 1, NEW c \in A PROVE step(n + 1, c) \in A BY <1>4
  <2> HIDE DEF step, A, K
  <2> QED BY <2>1
<1> HIDE DEF step
<1>6. Solvable(K - 1, A, a, G)
  <2> HIDE DEF K, A, a, G
  <2>1. PICK N : N = K - 1 OBVIOUS
  <2> QED BY <1>1, <1>3, <1>5, <2>1, Recursion
<1>7. PICK g \in [0 .. K - 1 -> A] : g[0] = a /\ \A n \in 1 .. K - 1 : g[n] = G[n][g[n - 1]]
  <2> HIDE DEF K, A, a, G
  <2> QED BY <1>6 DEF Solvable
<1> DEFINE h == [n \in 1 .. K |-> g[n - 1]]
<1> HIDE DEF K
<1>8. Eq(h)
  <2>1. ASSUME NEW n \in 1 .. K
        PROVE  h[n] = IF n = 1 THEN <<first>>
                      ELSE IF Len(h[n - 1]) < n - 1 THEN h[n - 1] ELSE Extended(t, h[n - 1])
    <3>1. CASE n = 1 BY <3>1, <1>7, <1>1
    <3>2. CASE n # 1
      <4>1. n - 1 \in 1 .. K - 1 /\ n - 1 \in 1 .. K /\ n - 2 \in 0 .. K - 1 /\ (n - 1) - 1 = n - 2
            /\ (n - 1) + 1 = n
        BY <3>2, <1>1
      <4>2. h[n] = g[n - 1] /\ h[n - 1] = g[n - 2] BY <4>1
      <4>3. g[n - 1] = G[n - 1][g[n - 2]] /\ g[n - 2] \in A BY <4>1, <1>7
      <4>4. G[n - 1] = [c \in A |-> step(n, c)]
        <5> HIDE DEF A
        <5> QED BY <4>1
      <4>5. G[n - 1][g[n - 2]] = step(n, g[n - 2])
        <5> HIDE DEF A, G
        <5> QED BY <4>3, <4>4
      <4>6. h[n] = step(n, h[n - 1]) BY <4>2, <4>3, <4>5
      <4> HIDE DEF h, G, A
      <4> QED BY <3>2, <4>6 DEF step
    <3> QED BY <3>1, <3>2
  <2> HIDE DEF A, G, a
  <2> QED BY <2>1
<1>9. Eq(W)
  <2> HIDE DEF Eq, h
  <2> QED BY <1>8
<1> HIDE DEF W, h, G
<1>10. W[1] = a /\ \A n \in 2 .. K : W[n] = step(n, W[n - 1])
  <2>1. PICK w : w = W OBVIOUS
  <2>2. w = [n \in 1 .. K |-> IF n = 1 THEN a
                              ELSE IF Len(w[n - 1]) < n - 1 THEN w[n - 1] ELSE Extended(t, w[n - 1])]
    BY <1>9, <2>1
  <2> HIDE DEF a
  <2>3. 1 \in 1 .. K /\ \A n \in 2 .. K : n \in 1 .. K /\ n # 1 BY <1>1
  <2>4. w[1] = a BY <2>2, <2>3
  <2>5. ASSUME NEW n \in 2 .. K PROVE w[n] = step(n, w[n - 1])
    <3>1. w[n] = IF Len(w[n - 1]) < n - 1 THEN w[n - 1] ELSE Extended(t, w[n - 1])
      BY <2>2, <2>3
    <3> QED BY <3>1 DEF step
  <2> QED BY <2>1, <2>4, <2>5
<1> DEFINE f == [n \in 0 .. K - 1 |-> W[n + 1]]
           M == [n \in 0 .. K - 1 |-> A]
<1> HIDE DEF A, a, Eq
<1>11. f[0] = a /\ \A n \in 1 .. K - 1 : f[n] = step(n + 1, f[n - 1])
  <2>1. 0 \in 0 .. K - 1 /\ f[0] = W[1] BY <1>1
  <2>2. ASSUME NEW n \in 1 .. K - 1 PROVE f[n] = step(n + 1, f[n - 1])
    <3>1. n \in 0 .. K - 1 /\ n - 1 \in 0 .. K - 1 /\ n + 1 \in 2 .. K /\ (n - 1) + 1 = n
          /\ (n + 1) - 1 = n
      BY <1>1
    <3>2. f[n] = W[n + 1] /\ f[n - 1] = W[n] BY <3>1
    <3>3. W[n + 1] = step(n + 1, W[n]) BY <1>10, <3>1
    <3> QED BY <3>2, <3>3
  <2> QED BY <1>10, <2>1, <2>2
<1>12. \A n \in 0 .. K - 1 : f[n] \in A
  <2>1. \A n \in 0 .. K - 1 : M[n] = A OBVIOUS
  <2>2. f[0] \in M[0] BY <1>1, <1>3, <1>11, <2>1
  <2>3. ASSUME NEW n \in 1 .. K - 1, f[n - 1] \in M[n - 1] PROVE f[n] \in M[n]
    <3>1. n \in 0 .. K - 1 /\ n - 1 \in 0 .. K - 1 BY <1>1
    <3> HIDE DEF f, M
    <3> QED BY <3>1, <2>1, <2>3, <1>4, <1>11
  <2> HIDE DEF f, M
  <2>5. PICK N : N = K - 1 OBVIOUS
  <2>4. \A n \in 0 .. N : f[n] \in M[n] BY <1>1, <2>2, <2>3, <2>5, StepsStay
  <2> QED BY <2>1, <2>4, <2>5
<1>13. W[K] \in A
  <2>1. K - 1 \in 0 .. K - 1 /\ (K - 1) + 1 = K BY <1>1
  <2>2. f[K - 1] = W[K] BY <2>1
  <2> HIDE DEF f
  <2> QED BY <2>1, <2>2, <1>12
<1> QED BY <1>2, <1>13 DEF A

\* handle_start(), whether the tree has the process or not.
Handled(m, s, ppid, ppsn, x) ==
  \/ s \in alive(m.tree) /\ x = m
  \/ s \notin alive(m.tree) /\ Insertion(m, s, ppid, ppsn, x)

\* handle_start() does what Handled says, and keeps the tree in shape.
LEMMA HandledStart ==
  ASSUME Kernel, NEW m \in Managed, Shape(m.tree), NEW s \in 1 .. born,
         NEW ppid \in Pids \cup {NoPid}, NEW ppsn \in 0 .. MaxPsn,
         NEW x, x = handle_start(m, s, ppid, ppsn)
  PROVE  x \in Managed /\ Shape(x.tree) /\ Handled(m, s, ppid, ppsn, x)
<1>1. CASE s \in alive(m.tree)
  <2>1. pid_of[s] \in Pids /\ m.tree.side_map[pid_of[s]] = s BY <1>1 DEF Shape, Kernel
  <2>2. s # NONE BY <1>1 DEF alive
  <2>3. find_by_pid_psn(m.tree, pid_of[s], s)
    BY <2>1, <2>2, ProcessAssumption DEF find_by_pid_psn, find_by_pid
  <2>4. x = m BY <2>3 DEF handle_start
  <2> QED BY <1>1, <2>4 DEF Handled
<1>2. CASE s \notin alive(m.tree)
  <2>1. x \in Managed /\ Insertion(m, s, ppid, ppsn, x) BY <1>2, InsertionOf
  <2>2. Shape(x.tree) BY <1>2, <2>1, ShapeInserted
  <2> QED BY <1>2, <2>1, <2>2 DEF Handled
<1> QED BY <1>1, <1>2

\* What a process is told to have for parent.
LEMMA KnownType ==
  ASSUME Kernel, NEW s \in 1 .. born
  PROVE  /\ s \in PSN /\ parent_of[s] \in 0 .. MaxPsn
         /\ parent_pid_of(s) \in Pids \cup {NoPid}
<1>1. s \in PSN /\ parent_of[s] \in 0 .. MaxPsn
  BY ProcessAssumption DEF Kernel, ProcessesTypeOK, PSN
<1>2. pidOf(parent_of[s]) \in Pids \cup {NoPid} BY <1>1, PidOfType DEF Kernel
<1> QED BY <1>1, <1>2 DEF parent_pid_of

\* What a process of a chain is told to have for parent.
LEMMA ChainParentType ==
  ASSUME Kernel, NEW t, Shape(t), NEW c, IsChain(t, c), NEW k \in 1 .. Len(c)
  PROVE  chain_parent(t, c, k) \in 0 .. MaxPsn
<1>1. /\ Len(c) \in Nat \ {0}
      /\ \A i \in 1 .. Len(c) : c[i] \in running /\ c[i] \in 1 .. born /\ c[i] \in PSN
  BY ChainElement
<1>2. \A s \in PSN \cup {NONE} : s \in 0 .. MaxPsn BY ProcessAssumption DEF PSN, NONE
<1>3. CASE k < Len(c)
  <2>1. k + 1 \in 1 .. Len(c) BY <1>1, <1>3
  <2> QED BY <1>1, <1>2, <1>3, <2>1 DEF chain_parent
<1>4. CASE ~(k < Len(c))
  <2>1. Last(c) = c[Len(c)] /\ Len(c) \in 1 .. Len(c) BY <1>1 DEF Last
  <2>2. Last(c) \in 1 .. born BY <1>1, <2>1
  <2> DEFINE p == parent_pid_of(Last(c))
  <2>3. p \in Pids \cup {NoPid} BY <2>2, KnownType
  <2>4. opened(p) # NONE => opened(p) \in PSN
    <3>1. running \subseteq PSN BY ProcessAssumption DEF Kernel, ProcessesTypeOK, PSN
    <3>2. PICK o : o = p OBVIOUS
    <3>3. opened(o) # NONE => opened(o) \in running BY OwnerRuns
    <3> QED BY <3>1, <3>2, <3>3
  <2>5. find_by_pid(t, p) \in 0 .. MaxPsn
    BY <1>2, <2>3 DEF Shape, TreeSet, find_by_pid
  <2>6. chain_parent(t, c, k) = top_parent_psn(t, Last(c)) BY <1>4 DEF chain_parent
  <2> QED BY <1>2, <2>4, <2>5, <2>6 DEF top_parent_psn
<1> QED BY <1>3, <1>4

\* One insertion of a chain.
ChainStep(t, c, k, y, x) == Handled(y, c[k], parent_pid_of(c[k]), chain_parent(t, c, k), x)

\* A set of states the insertions of a chain do not leave has what resolving a PID
\* makes of its elements.
LEMMA ResolveStays ==
  ASSUME Kernel, NEW m \in Managed, Shape(m.tree), NEW first \in running,
         NEW S, m \in S, \A y \in S : y \in Managed /\ Shape(y.tree),
         \A c : IsChain(m.tree, c) /\ c = chain_from(m.tree, first) =>
           \A k \in 1 .. Len(c) : \A y \in S : \A x \in Managed :
             Shape(x.tree) /\ ChainStep(m.tree, c, k, y, x) => x \in S
  PROVE  resolve(m, first) \in S
<1> DEFINE c == chain_from(m.tree, first)
           t == m.tree
           N == Len(c)
           at(n) == N + 1 - n
           step(n, y) == handle_start(y, c[at(n)], parent_pid_of(c[at(n)]), chain_parent(t, c, at(n)))
           Eq(w) == w = [n \in 0 .. N |-> IF n = 0 THEN m ELSE step(n, w[n - 1])]
           W == CHOOSE w : Eq(w)
           G == [n \in 1 .. N |-> [y \in S |-> step(n, y)]]
<1>1. IsChain(t, c) BY ChainFrom
<1>2. resolve(m, first) = W[N] BY DEF resolve, inserted
<1> HIDE DEF c
<1>3. /\ N \in Nat \ {0}
      /\ \A k \in 1 .. N : c[k] \in running /\ c[k] \in 1 .. born /\ c[k] \in PSN
  BY <1>1, ChainElement
<1>4. ASSUME NEW n \in 1 .. N, NEW y \in S PROVE step(n, y) \in S
  <2>1. at(n) \in 1 .. N BY <1>3
  <2>2. PICK k, s, q, ppid, ppsn :
          /\ k = at(n) /\ s = c[k] /\ ppid = parent_pid_of(s) /\ ppsn = chain_parent(t, c, k)
          /\ q = step(n, y)
    OBVIOUS
  <2>3. k \in 1 .. Len(c) /\ s \in 1 .. born BY <1>3, <2>1, <2>2
  <2>4. ppsn \in 0 .. MaxPsn BY <1>1, <2>2, <2>3, ChainParentType
  <2>5. ppid \in Pids \cup {NoPid} BY <2>2, <2>3, KnownType
  <2>6. q = handle_start(y, s, ppid, ppsn) BY <2>2
  <2>7. y \in Managed /\ Shape(y.tree) OBVIOUS
  <2>8. q \in Managed /\ Shape(q.tree) /\ Handled(y, s, ppid, ppsn, q)
    BY <2>3, <2>4, <2>5, <2>6, <2>7, HandledStart
  <2>9. ChainStep(t, c, k, y, q) BY <2>2, <2>8 DEF ChainStep
  <2>10. q \in S BY <1>1, <2>3, <2>8, <2>9 DEF c
  <2> QED BY <2>2, <2>10
<1> HIDE DEF step
<1>5. G \in [1 .. N -> [S -> S]]
  <2> HIDE DEF N
  <2> QED BY <1>4
<1>6. Solvable(N, S, m, G)
  <2> HIDE DEF N, G
  <2>1. PICK i : i = N OBVIOUS
  <2> QED BY <1>3, <1>5, <2>1, Recursion
<1>7. PICK g \in [0 .. N -> S] : g[0] = m /\ \A n \in 1 .. N : g[n] = G[n][g[n - 1]]
  <2> HIDE DEF N, G
  <2> QED BY <1>6 DEF Solvable
<1> HIDE DEF N
<1>8. Eq(g)
  <2>1. ASSUME NEW n \in 0 .. N PROVE g[n] = IF n = 0 THEN m ELSE step(n, g[n - 1])
    <3>1. CASE n = 0 BY <3>1, <1>7
    <3>2. CASE n # 0
      <4>1. n \in 1 .. N /\ n - 1 \in 0 .. N BY <3>2, <1>3
      <4>2. g[n] = G[n][g[n - 1]] /\ g[n - 1] \in S BY <4>1, <1>7
      <4>3. G[n] = [y \in S |-> step(n, y)] BY <4>1
      <4> HIDE DEF G
      <4> QED BY <3>2, <4>2, <4>3
    <3> QED BY <3>1, <3>2
  <2> HIDE DEF G
  <2> QED BY <2>1
<1>9. Eq(W)
  <2> HIDE DEF Eq
  <2> QED BY <1>8
<1> HIDE DEF W, G
<1>10. W[0] = m /\ \A n \in 1 .. N : W[n] = step(n, W[n - 1])
  <2>1. PICK w : w = W OBVIOUS
  <2>2. w = [n \in 0 .. N |-> IF n = 0 THEN m ELSE step(n, w[n - 1])] BY <1>9, <2>1
  <2>3. 0 \in 0 .. N /\ \A n \in 1 .. N : n \in 0 .. N /\ n # 0 BY <1>3
  <2>4. w[0] = m BY <2>2, <2>3
  <2>5. ASSUME NEW n \in 1 .. N PROVE w[n] = step(n, w[n - 1]) BY <2>2, <2>3
  <2> QED BY <2>1, <2>4, <2>5
<1> DEFINE M == [n \in 0 .. N |-> S]
<1> HIDE DEF Eq
<1>11. \A n \in 0 .. N : W[n] \in S
  <2>1. \A n \in 0 .. N : M[n] = S OBVIOUS
  <2>2. W[0] \in M[0] BY <1>3, <1>10, <2>1
  <2>3. ASSUME NEW n \in 1 .. N, W[n - 1] \in M[n - 1] PROVE W[n] \in M[n]
    <3>1. n \in 0 .. N /\ n - 1 \in 0 .. N BY <1>3
    <3> HIDE DEF M
    <3> QED BY <3>1, <2>1, <2>3, <1>4, <1>10
  <2> HIDE DEF M
  <2>4. \A n \in 0 .. N : W[n] \in M[n] BY <1>3, <2>2, <2>3, StepsStay
  <2> QED BY <2>1, <2>4
<1>12. N \in 0 .. N BY <1>3
<1> QED BY <1>2, <1>11, <1>12

-----------------------------------------------------------------------------
\* The processes and their events.

\* The elements of a queue with one more, and with one less.
LEMMA Appended ==
  ASSUME NEW S, NEW q \in Seq(S), NEW e \in S
  PROVE  /\ Append(q, e) \in Seq(S) /\ Append(q, e) # <<>>
         /\ ToSet(Append(q, e)) = ToSet(q) \cup {e}
<1>1. /\ Append(q, e) \in Seq(S) /\ Len(Append(q, e)) = Len(q) + 1 /\ Append(q, e)[Len(q) + 1] = e
      /\ \A i \in 1 .. Len(q) : Append(q, e)[i] = q[i]
  BY AppendProperties
<1>2. PICK z : z = Append(q, e) OBVIOUS
<1>3. Len(q) \in Nat /\ DOMAIN q = 1 .. Len(q) /\ DOMAIN z = 1 .. Len(q) + 1 BY <1>1, <1>2
<1>4. \A i : i \in 1 .. Len(q) + 1 <=> i \in 1 .. Len(q) \/ i = Len(q) + 1 BY <1>3
<1>5. ASSUME NEW x PROVE x \in ToSet(z) <=> x \in ToSet(q) \/ x = e
  <2>1. x \in ToSet(z) <=> \E i \in 1 .. Len(q) + 1 : z[i] = x BY <1>3 DEF ToSet
  <2>2. x \in ToSet(q) <=> \E i \in 1 .. Len(q) : q[i] = x BY <1>3 DEF ToSet
  <2>3. z[Len(q) + 1] = e /\ \A i \in 1 .. Len(q) : z[i] = q[i] BY <1>1, <1>2
  <2>4. Len(q) + 1 \in 1 .. Len(q) + 1 BY <1>3
  <2>5. ASSUME NEW i \in 1 .. Len(q) + 1, z[i] = x PROVE x \in ToSet(q) \/ x = e
    BY <1>4, <2>2, <2>3, <2>5
  <2>6. ASSUME NEW i \in 1 .. Len(q), q[i] = x PROVE x \in ToSet(z)
    <3>1. i \in 1 .. Len(q) + 1 /\ z[i] = x BY <1>4, <2>3, <2>6
    <3> QED BY <2>1, <3>1
  <2>7. x = e => x \in ToSet(z) BY <2>1, <2>3, <2>4
  <2> QED BY <2>1, <2>2, <2>5, <2>6, <2>7
<1>6. z # <<>> BY <1>1, <1>2
<1>7. ToSet(z) = ToSet(q) \cup {e} BY <1>5
<1> QED BY <1>1, <1>2, <1>6, <1>7

\* The elements of a queue without the first.
LEMMA Fetched ==
  ASSUME NEW S, NEW q \in Seq(S), q # <<>>
  PROVE  /\ Tail(q) \in Seq(S) /\ Head(q) \in S
         /\ ToSet(q) = ToSet(Tail(q)) \cup {Head(q)}
<1>1. /\ Head(q) \in S /\ Tail(q) \in Seq(S) /\ Len(Tail(q)) = Len(q) - 1
      /\ \A i \in 1 .. Len(Tail(q)) : Tail(q)[i] = q[i + 1]
  BY HeadTailProperties
<1>2. PICK z, h : z = Tail(q) /\ h = Head(q) OBVIOUS
<1>3. Len(q) \in Nat \ {0} /\ DOMAIN q = 1 .. Len(q) /\ DOMAIN z = 1 .. Len(q) - 1 /\ q[1] = h
  BY <1>1, <1>2
<1>4. \A i : i \in 1 .. Len(q) <=> (i - 1 \in 1 .. Len(q) - 1 /\ i \in Int) \/ i = 1 BY <1>3
<1>5. ASSUME NEW x PROVE x \in ToSet(q) <=> x \in ToSet(z) \/ x = h
  <2>1. x \in ToSet(q) <=> \E i \in 1 .. Len(q) : q[i] = x BY <1>3 DEF ToSet
  <2>2. x \in ToSet(z) <=> \E i \in 1 .. Len(q) - 1 : z[i] = x BY <1>3 DEF ToSet
  <2>3. \A i \in 1 .. Len(q) - 1 : z[i] = q[i + 1] BY <1>1, <1>2, <1>3
  <2>4. ASSUME NEW i \in 1 .. Len(q), q[i] = x PROVE x \in ToSet(z) \/ x = h
    <3>1. CASE i = 1 BY <3>1, <2>4, <1>3
    <3>2. CASE i # 1
      <4>1. i - 1 \in 1 .. Len(q) - 1 /\ (i - 1) + 1 = i BY <3>2, <1>3
      <4>2. z[i - 1] = x BY <4>1, <2>3, <2>4
      <4> QED BY <4>1, <4>2, <2>2
    <3> QED BY <3>1, <3>2
  <2>5. ASSUME NEW i \in 1 .. Len(q) - 1, z[i] = x PROVE x \in ToSet(q)
    <3>1. i + 1 \in 1 .. Len(q) /\ q[i + 1] = x BY <2>3, <2>5, <1>3
    <3> QED BY <3>1, <2>1
  <2>6. x = h => x \in ToSet(q)
    <3>1. 1 \in 1 .. Len(q) BY <1>3
    <3> QED BY <3>1, <1>3, <2>1
  <2> QED BY <2>1, <2>2, <2>4, <2>5, <2>6
<1>6. ToSet(q) = ToSet(z) \cup {h} BY <1>5
<1> QED BY <1>1, <1>2, <1>6

\* An event the session records, or loses.
LEMMA Reported ==
  ASSUME Kernel, NEW kind \in {"START", "STOP", "RUNDOWN"}, NEW s \in PSN, Report(kind, s)
  PROVE  /\ etw' \in Seq(EtwEvent) /\ EventsLost' \in 0 .. MaxLosses /\ EventsLost <= EventsLost'
         /\ EventsLost \in Nat /\ EventsLost' \in Nat
         /\ \/ ToSet(etw') = ToSet(etw)
            \/ ToSet(etw') = ToSet(etw) \cup {[kind |-> kind, psn |-> s]}
<1>1. etw \in Seq(EtwEvent) /\ EventsLost \in 0 .. MaxLosses /\ MaxLosses \in Nat
  BY ProcessAssumption DEF Kernel, ProcessesTypeOK
<1>2. PICK e : e = [kind |-> kind, psn |-> s] OBVIOUS
<1>3. e \in EtwEvent BY <1>2 DEF EtwEvent
<1>4. CASE etw' = Append(etw, e) /\ EventsLost' = EventsLost BY <1>1, <1>2, <1>3, <1>4, Appended
<1>5. CASE etw' = etw /\ EventsLost' = EventsLost BY <1>1, <1>5
<1>6. CASE etw' = etw /\ EventsLost < MaxLosses /\ EventsLost' = EventsLost + 1 BY <1>1, <1>6
<1>7. \/ etw' = Append(etw, e) /\ EventsLost' = EventsLost
      \/ etw' = etw /\ EventsLost' = EventsLost
      \/ etw' = etw /\ EventsLost < MaxLosses /\ EventsLost' = EventsLost + 1
  BY <1>2 DEF Report
<1> QED BY <1>4, <1>5, <1>6, <1>7

\* A process starts.
LEMMA SpawnKernel ==
  ASSUME Kernel, ConsumerTypeOK, NEW s \in PSN, NEW p \in Pids, NEW parent \in 0 .. MaxPsn,
         Spawn(s, p, parent), UNCHANGED consumerVars
  PROVE  /\ Kernel' /\ ConsumerTypeOK'
         /\ s = born + 1 /\ born' = s /\ pid_of' = [pid_of EXCEPT ![s] = p]
         /\ \A x \in 1 .. born : pid_of'[x] = pid_of[x] /\ parent_of'[x] = parent_of[x]
<1>1. /\ s = born + 1 /\ born' = s /\ pid_of' = [pid_of EXCEPT ![s] = p]
      /\ parent_of' = [parent_of EXCEPT ![s] = parent] /\ running' = running \cup {s}
      /\ Report("START", s) /\ session' = session /\ rundown' = rundown
      /\ owner(p) = NONE /\ (parent = NONE \/ parent \in running)
  BY DEF Spawn
<1>2. ProcessesTypeOK /\ MaxPsn \in Nat BY ProcessAssumption DEF Kernel
<1>3. /\ etw' \in Seq(EtwEvent) /\ EventsLost' \in 0 .. MaxLosses /\ EventsLost <= EventsLost'
      /\ EventsLost \in Nat /\ EventsLost' \in Nat
      /\ \/ ToSet(etw') = ToSet(etw)
         \/ ToSet(etw') = ToSet(etw) \cup {[kind |-> "START", psn |-> s]}
  BY <1>1, Reported
<1>4. born \in Nat /\ running \subseteq 1 .. born /\ \A x \in 1 .. born : x \in PSN /\ x # s
  BY <1>1, <1>2 DEF ProcessesTypeOK, PSN
<1>5. \A x \in 1 .. born : pid_of'[x] = pid_of[x] /\ parent_of'[x] = parent_of[x]
  BY <1>1, <1>2, <1>4 DEF ProcessesTypeOK
<1>6. pid_of'[s] = p /\ parent_of'[s] = parent BY <1>1, <1>2 DEF ProcessesTypeOK
<1>7. \A x \in 1 .. born' : x \in 1 .. born \/ x = s BY <1>1, <1>4
<1>8. ProcessesTypeOK'
  <2>1. born' \in 0 .. MaxPsn BY <1>1, <1>2 DEF PSN
  <2>2. pid_of' \in [PSN -> Pids \cup {NoPid}] BY <1>1, <1>2 DEF ProcessesTypeOK
  <2>3. parent_of' \in [PSN -> 0 .. MaxPsn] BY <1>1, <1>2 DEF ProcessesTypeOK
  <2>4. running' \subseteq 1 .. born' BY <1>1, <1>4
  <2> QED BY <1>1, <1>2, <1>3, <2>1, <2>2, <2>3, <2>4 DEF ProcessesTypeOK, PSN, EtwEvent, NONE
<1>9. \A x \in 1 .. born' : pid_of'[x] \in Pids /\ parent_of'[x] < x
  <2>1. pid_of'[s] \in Pids /\ parent_of'[s] < s
    <3>1. parent < s BY <1>1, <1>2, <1>4 DEF NONE, PSN
    <3> QED BY <1>6, <3>1
  <2> QED BY <1>5, <1>7, <2>1 DEF Kernel
<1>10. \A x, y \in running' : pid_of'[x] = pid_of'[y] => x = y
  <2>1. \A x \in running : pid_of[x] # p
    <3>1. \A x \in running : x # NONE BY <1>4 DEF NONE
    <3> QED BY <1>1, <3>1, OwnerRuns
  <2>2. \A x \in running : pid_of'[x] = pid_of[x] BY <1>4, <1>5
  <2> QED BY <1>1, <1>6, <2>1, <2>2 DEF Kernel
<1>11. \A e \in ToSet(etw') : e.kind # "LOST" => e.psn \in 1 .. born'
  <2>1. \A x \in 1 .. born : x \in 1 .. born' BY <1>1, <1>4
  <2>2. s \in 1 .. born' BY <1>1, <1>4
  <2> QED BY <1>3, <2>1, <2>2 DEF Kernel
<1>12. Kernel'
  <2>1. (ToSet(etw))' = ToSet(etw') BY DEF ToSet
  <2>2. rundown' \subseteq running' BY <1>1 DEF Kernel
  <2> QED BY <1>8, <1>9, <1>10, <1>11, <2>1, <2>2 DEF Kernel
<1>13. ConsumerTypeOK' BY <1>3 DEF ConsumerTypeOK, consumerVars
<1> QED BY <1>1, <1>5, <1>12, <1>13

\* A process exits, or is enumerated.
LEMMA ExitKernel ==
  ASSUME Kernel, ConsumerTypeOK, NEW s \in PSN, Exit(s) \/ EnumerateNext(s), UNCHANGED consumerVars
  PROVE  Kernel' /\ ConsumerTypeOK' /\ UNCHANGED <<born, pid_of, parent_of>>
<1>1. /\ UNCHANGED <<born, pid_of, parent_of, session>>
      /\ running' \subseteq running /\ rundown' \subseteq rundown
      /\ \E kind \in {"START", "STOP", "RUNDOWN"} : Report(kind, s)
      /\ s \in running \/ s \in rundown
  BY DEF Exit, EnumerateNext, bornVars
<1>2. ProcessesTypeOK BY DEF Kernel
<1>3. PICK kind \in {"START", "STOP", "RUNDOWN"} : Report(kind, s) BY <1>1
<1>4. /\ etw' \in Seq(EtwEvent) /\ EventsLost' \in 0 .. MaxLosses /\ EventsLost <= EventsLost'
      /\ EventsLost \in Nat /\ EventsLost' \in Nat
      /\ \/ ToSet(etw') = ToSet(etw)
         \/ ToSet(etw') = ToSet(etw) \cup {[kind |-> kind, psn |-> s]}
  BY <1>3, Reported
<1>5. ProcessesTypeOK' BY <1>1, <1>2, <1>4 DEF ProcessesTypeOK, PSN, EtwEvent, NONE
<1>6. \A x, y \in running' : pid_of'[x] = pid_of'[y] => x = y BY <1>1 DEF Kernel
<1>7. rundown' \subseteq running'
  BY <1>1 DEF Exit, EnumerateNext, bornVars, Kernel
<1>8. s \in 1 .. born BY <1>1 DEF Kernel, ProcessesTypeOK
<1>9. \A e \in ToSet(etw') : e.kind # "LOST" => e.psn \in 1 .. born'
  BY <1>1, <1>4, <1>8 DEF Kernel
<1>10. Kernel'
  <2>1. (ToSet(etw))' = ToSet(etw') BY DEF ToSet
  <2>2. \A x \in 1 .. born' : pid_of'[x] \in Pids /\ parent_of'[x] < x BY <1>1 DEF Kernel
  <2> QED BY <1>5, <1>6, <1>7, <1>9, <2>1, <2>2 DEF Kernel
<1>11. ConsumerTypeOK' BY <1>4 DEF ConsumerTypeOK, consumerVars
<1> QED BY <1>1, <1>10, <1>11

\* The consumer adds an event or takes one away.
LEMMA QueueKernel ==
  ASSUME Kernel, ConsumerTypeOK, UNCHANGED <<bornVars, EventsLost>>,
         session' \in {"none", "residual", "open"}, rundown' \subseteq running,
         etw' \in Seq(EtwEvent),
         \A e \in ToSet(etw') : e \in ToSet(etw) \/ e.kind = "LOST",
         running_' \in BOOLEAN, refused' \in BOOLEAN, last_events_lost_' \in 0 .. EventsLost
  PROVE  Kernel' /\ ConsumerTypeOK' /\ UNCHANGED <<born, pid_of, parent_of, running>>
<1>1. UNCHANGED <<born, pid_of, parent_of, running, EventsLost>> BY DEF bornVars
<1>2. rundown' \subseteq PSN BY ProcessAssumption DEF Kernel, ProcessesTypeOK, PSN
<1>3. ProcessesTypeOK' BY <1>1, <1>2 DEF Kernel, ProcessesTypeOK, PSN, EtwEvent, NONE
<1>4. \A e \in ToSet(etw') : e.kind # "LOST" => e.psn \in 1 .. born' BY <1>1 DEF Kernel
<1>5. \A s, x \in running' : pid_of'[s] = pid_of'[x] => s = x BY <1>1 DEF Kernel
<1>6. \A s \in 1 .. born' : pid_of'[s] \in Pids /\ parent_of'[s] < s BY <1>1 DEF Kernel
<1>7. Kernel'
  <2>1. (ToSet(etw))' = ToSet(etw') BY DEF ToSet
  <2> QED BY <1>1, <1>3, <1>4, <1>5, <1>6, <2>1 DEF Kernel
<1>8. ConsumerTypeOK' BY <1>1 DEF ConsumerTypeOK
<1> QED BY <1>1, <1>7, <1>8

\* The steps of the consumer are such.
LEMMA ConsumerKernel ==
  ASSUME Kernel, ConsumerTypeOK,
         buffer_callback \/ start \/ request_rundown
           \/ \E kinds : event_record_callback(kinds)
  PROVE  Kernel' /\ ConsumerTypeOK' /\ UNCHANGED <<born, pid_of, parent_of, running>>
<1>1. /\ etw \in Seq(EtwEvent) /\ rundown \subseteq running /\ EventsLost \in Nat
      /\ session \in {"none", "residual", "open"}
      /\ running_ \in BOOLEAN /\ refused \in BOOLEAN /\ last_events_lost_ \in 0 .. EventsLost
  BY ProcessAssumption DEF Kernel, ProcessesTypeOK, ConsumerTypeOK
<1>2. CASE buffer_callback
  <2>1. PICK e : e = [kind |-> "LOST", psn |-> NONE] OBVIOUS
  <2>2. e \in EtwEvent /\ e.kind = "LOST" BY <2>1 DEF EtwEvent
  <2>3. etw' = Append(etw, e) BY <1>2, <2>1 DEF buffer_callback
  <2>4. etw' \in Seq(EtwEvent) /\ ToSet(etw') = ToSet(etw) \cup {e} BY <1>1, <2>2, <2>3, Appended
  <2>5. /\ UNCHANGED <<bornVars, EventsLost, session, rundown, running_, refused>>
        /\ last_events_lost_' = EventsLost
    BY <1>2 DEF buffer_callback
  <2>6. last_events_lost_' \in 0 .. EventsLost BY <1>1, <2>5
  <2> QED BY <1>1, <2>2, <2>4, <2>5, <2>6, QueueKernel
<1>3. CASE start
  <2>1. /\ UNCHANGED <<bornVars, etw, rundown, EventsLost, last_events_lost_, refused>>
        /\ session' \in {"open", "none"} /\ running_' \in BOOLEAN
    BY <1>3 DEF start, stop_session
  <2> QED BY <1>1, <2>1, QueueKernel
<1>4. CASE request_rundown
  <2>1. /\ UNCHANGED <<bornVars, session, etw, EventsLost, running_, last_events_lost_>>
        /\ rundown' \in {running, rundown} /\ refused' \in BOOLEAN
    BY <1>4 DEF request_rundown
  <2> QED BY <1>1, <2>1, QueueKernel
<1>5. ASSUME NEW kinds, event_record_callback(kinds)
      PROVE  Kernel' /\ ConsumerTypeOK' /\ UNCHANGED <<born, pid_of, parent_of, running>>
  <2>1. /\ UNCHANGED <<bornVars, session, rundown, EventsLost, consumerVars>>
        /\ etw # <<>> /\ etw' = Tail(etw)
    BY <1>5 DEF event_record_callback
  <2>2. etw' \in Seq(EtwEvent) /\ ToSet(etw) = ToSet(etw') \cup {Head(etw)} BY <1>1, <2>1, Fetched
  <2> QED BY <1>1, <2>1, <2>2, QueueKernel DEF consumerVars
<1> QED BY <1>2, <1>3, <1>4, <1>5

\* What the consumer fetches.
LEMMA FetchedEvent ==
  ASSUME Kernel, NEW kinds, event_record_callback(kinds)
  PROVE  /\ Head(etw) \in ToSet(etw) /\ Head(etw).kind \in kinds
         /\ ToSet(etw) = ToSet(etw') \cup {Head(etw)} /\ etw' = Tail(etw) /\ etw # <<>>
         /\ Head(etw).kind # "LOST" => Head(etw).psn \in 1 .. born
         /\ UNCHANGED <<bornVars, session, rundown, EventsLost, consumerVars>>
<1>1. etw \in Seq(EtwEvent) BY DEF Kernel, ProcessesTypeOK
<1>2. /\ UNCHANGED <<bornVars, session, rundown, EventsLost, consumerVars>>
      /\ etw # <<>> /\ etw' = Tail(etw) /\ Head(etw).kind \in kinds
  BY DEF event_record_callback
<1>3. ToSet(etw) = ToSet(etw') \cup {Head(etw)} BY <1>1, <1>2, Fetched
<1> QED BY <1>2, <1>3 DEF Kernel

-----------------------------------------------------------------------------
\* What each handler makes of the manager's state.

FlagsOK ==
  /\ mgr \in {"off", "starting", "on", "blind"} /\ grace \in {"unset", "armed", "fired"}
  /\ lost_pending \in BOOLEAN /\ spared \subseteq PSN /\ commands \in 0 .. MaxCommands

\* The invariant the others rest on: types, and the shape of the tree.
Core ==
  /\ Kernel /\ ConsumerTypeOK /\ StoreTypeOK(ConfiguredRules) /\ FlagsOK
  /\ state \in Managed /\ Shape(tree)

\* A handler leaves x, a state in shape.
Moves(x) == x \in Managed /\ Shape(x.tree) /\ Becomes(x)

\* The parts of the manager's state.
LEMMA StateParts ==
  state.tree = tree /\ state.rules = rules /\ state.orphans = orphans
BY DEF state

\* HandleStart leaves what Handled says of its event.
LEMMA HandleStartMoves ==
  ASSUME Core, HandleStart
  PROVE  \E x : /\ Moves(x) /\ Head(etw).psn \in 1 .. born
                /\ Handled(state, Head(etw).psn, parent_pid_of(Head(etw).psn),
                           parent_of[Head(etw).psn], x)
<1>1. PICK s : s = Head(etw).psn OBVIOUS
<1>2. s \in 1 .. born
  <2>1. event_record_callback({"START", "RUNDOWN"}) BY DEF HandleStart
  <2>2. Head(etw).kind \in {"START", "RUNDOWN"}
        /\ (Head(etw).kind # "LOST" => Head(etw).psn \in 1 .. born)
    BY <2>1, FetchedEvent DEF Core
  <2> QED BY <1>1, <2>2
<1>3. PICK x : x = handle_start(state, s, parent_pid_of(s), parent_of[s]) OBVIOUS
<1>4. Becomes(x) BY <1>1, <1>3 DEF HandleStart
<1>5. PICK ppid, ppsn, m : ppid = parent_pid_of(s) /\ ppsn = parent_of[s] /\ m = state OBVIOUS
<1>6. ppid \in Pids \cup {NoPid} /\ ppsn \in 0 .. MaxPsn /\ Kernel
  BY <1>2, <1>5, KnownType DEF Core
<1>7. m \in Managed /\ Shape(m.tree) BY <1>5, StateParts DEF Core
<1>8. x = handle_start(m, s, ppid, ppsn) BY <1>3, <1>5
<1>9. x \in Managed /\ Shape(x.tree) /\ Handled(m, s, ppid, ppsn, x)
  BY <1>2, <1>6, <1>7, <1>8, HandledStart
<1> QED BY <1>1, <1>2, <1>4, <1>5, <1>9 DEF Moves

\* handle_stop() of s.
Stopped(s, x) ==
  \/ s \notin alive(tree) /\ x = state
  \/ /\ s \in alive(tree) /\ Removed(tree, s, x.tree)
     /\ x.rules = on_process_exit(rules, pid_of[s]) /\ x.orphans = orphans

\* HandleStop leaves what Stopped says of its event.
LEMMA HandleStopMoves ==
  ASSUME Core, HandleStop
  PROVE  \E x : Moves(x) /\ Head(etw).psn \in 1 .. born /\ Stopped(Head(etw).psn, x)
<1>1. PICK s : s = Head(etw).psn OBVIOUS
<1>2. s \in 1 .. born
  <2>1. event_record_callback({"STOP"}) BY DEF HandleStop
  <2>2. Head(etw).kind \in {"STOP"}
        /\ (Head(etw).kind # "LOST" => Head(etw).psn \in 1 .. born)
    BY <2>1, FetchedEvent DEF Core
  <2> QED BY <1>1, <2>2
<1>3. PICK x : x = handle_stop(state, s) OBVIOUS
<1>4. Becomes(x) BY <1>1, <1>3 DEF HandleStop
<1>5. Shape(tree) /\ state \in Managed /\ Kernel BY DEF Core
<1>6. s # NONE /\ pid_of[s] \in Pids /\ pid_of[s] # NoPid
  BY <1>2, <1>5, ProcessAssumption DEF Kernel, NONE
<1>7. find_by_pid_psn(tree, pid_of[s], s) <=> s \in alive(tree)
  BY <1>5, <1>6 DEF Shape, find_by_pid_psn, find_by_pid
<1>8. CASE s \notin alive(tree)
  <2>1. x = state BY <1>3, <1>7, <1>8, StateParts DEF handle_stop
  <2> QED BY <1>1, <1>2, <1>4, <1>5, <1>8, <2>1, StateParts DEF Moves, Stopped
<1>9. CASE s \in alive(tree)
  <2>1. PICK u, rs : u = tombstone(tree, s) /\ rs = on_process_exit(rules, pid_of[s]) OBVIOUS
  <2>2. x = [state EXCEPT !.tree = u, !.rules = rs]
    BY <1>3, <1>7, <1>9, <2>1, StateParts DEF handle_stop
  <2>3. Shape(u) /\ Removed(tree, s, u)
    <3>1. PICK t : t = tree OBVIOUS
    <3>2. Shape(t) /\ s \in alive(t) /\ u = tombstone(t, s) BY <1>5, <1>9, <2>1, <3>1
    <3>3. Shape(u) /\ Removed(t, s, u) BY <1>5, <3>2, RemovedEntry
    <3> QED BY <3>1, <3>3
  <2>4. rs \in RuleSet BY <1>5, <2>1, StateParts, ForgottenType DEF Managed
  <2>5. x.tree = u /\ x.rules = rs /\ x.orphans = orphans /\ x \in Managed
    BY <1>5, <2>2, <2>3, <2>4, StateParts DEF Managed, Shape
  <2> QED BY <1>1, <1>2, <1>4, <1>9, <2>1, <2>3, <2>5 DEF Moves, Stopped
<1> QED BY <1>8, <1>9

\* The grace timer.
Rooted(x) ==
  /\ alive(x.tree) = alive(tree)
  /\ x.tree.entries = tree.entries /\ x.tree.side_map = tree.side_map /\ x.tree.mark = tree.mark
  /\ x.tree.parent_pid = tree.parent_pid /\ x.tree.parent_psn = tree.parent_psn
  /\ \A c \in PSN : x.tree.parent[c] = IF c \in waiting(state, orphans) THEN NONE ELSE tree.parent[c]
  /\ x.rules = rules /\ x.orphans = {}

\* GraceTimer leaves what Rooted says.
LEMMA GraceTimerMoves == ASSUME Core, GraceTimer PROVE \E x : Moves(x) /\ Rooted(x)
<1>1. PICK t, C, u : t = tree /\ C = waiting(state, orphans) /\ u = mark_root(t, C) OBVIOUS
<1>2. PICK x : x = [state EXCEPT !.tree = u, !.orphans = {}] OBVIOUS
<1>3. Becomes(x) BY <1>1, <1>2, StateParts DEF GraceTimer
<1>4. Shape(t) BY <1>1 DEF Core
<1>5. /\ Shape(u) /\ alive(u) = alive(t)
      /\ u.entries = t.entries /\ u.side_map = t.side_map /\ u.mark = t.mark
      /\ u.parent_pid = t.parent_pid /\ u.parent_psn = t.parent_psn
      /\ \A c \in PSN : u.parent[c] = IF c \in C THEN NONE ELSE t.parent[c]
  BY <1>1, <1>4, ShapeRooted
<1>6. x.tree = u /\ x.rules = rules /\ x.orphans = {} /\ x \in Managed
  BY <1>2, <1>5, StateParts DEF Core, Managed, Shape, OrphanSet
<1> QED BY <1>1, <1>3, <1>5, <1>6 DEF Moves, Rooted

\* A set of states no insertion of a chain leaves holds what a CONNECT event leads to.
LEMMA ConnectMoves ==
  ASSUME Core, NEW p \in Pids, Connect(p), NEW S, state \in S,
         \A y \in S : y \in Managed /\ Shape(y.tree),
         \A c : IsChain(tree, c) /\ c = chain_from(tree, opened(p)) =>
           \A k \in 1 .. Len(c) : \A y \in S : \A x \in Managed :
             Shape(x.tree) /\ ChainStep(tree, c, k, y, x) => x \in S
  PROVE  \E x \in S : Moves(x)
<1>1. PICK m, f, t : m = state /\ f = opened(p) /\ t = tree OBVIOUS
<1>2. f \in running
  <2>1. opened(p) # NONE BY DEF Connect
  <2> QED BY <1>1, <2>1, OwnerRuns
<1>3. Kernel /\ m \in Managed /\ Shape(m.tree) /\ m \in S /\ m.tree = t
  BY <1>1, StateParts DEF Core
<1>4. \A c : IsChain(m.tree, c) /\ c = chain_from(m.tree, f) =>
        \A k \in 1 .. Len(c) : \A y \in S : \A x \in Managed :
          Shape(x.tree) /\ ChainStep(m.tree, c, k, y, x) => x \in S
  BY <1>1, <1>3
<1>5. PICK x : x = resolve(m, f) OBVIOUS
<1>6. x \in S BY <1>2, <1>3, <1>4, <1>5, ResolveStays
<1>7. Becomes(x) BY <1>1, <1>5 DEF Connect
<1> QED BY <1>6, <1>7 DEF Moves

\* The entry of a PID.
LEMMA EntryOfPid ==
  ASSUME Core, NEW p \in Pids, find_by_pid(tree, p) # NONE
  PROVE  find_by_pid(tree, p) \in alive(tree) /\ pid_of[find_by_pid(tree, p)] = p
<1>1. p # NoPid BY ProcessAssumption
<1> QED BY <1>1 DEF Core, Shape, find_by_pid

\* A command of the user.
Commanded(x) ==
  /\ SameLinks(tree, x.tree) /\ x.rules = rules /\ x.orphans = orphans
  /\ \E s \in alive(tree), mode \in BOOLEAN :
       LET C == command_scope(tree, s, mode)
       IN /\ C \subseteq alive(tree)
          /\ \/ spared' = spared /\ \E g \in ManualGroups : HijackMarks(tree, x.tree, C, g)
             \/ spared' = spared \cup C /\ \E D \in SUBSET C : UnhijackMarks(tree, x.tree, D)

\* The user's commands leave what Commanded says.
LEMMA UserCommandMoves == ASSUME Core, UserCommand PROVE \E x : Moves(x) /\ Commanded(x)
<1>1. ASSUME NEW p \in Pids, NEW mode \in BOOLEAN, NEW g \in ManualGroups, Hijack(p, mode, g)
      PROVE  \E x : Moves(x) /\ Commanded(x)
  <2>1. PICK s, t, u : s = find_by_pid(tree, p) /\ t = tree /\ u = manual_hijack(t, s, mode, g)
    OBVIOUS
  <2>2. s \in alive(t) BY <1>1, <2>1, EntryOfPid DEF Hijack
  <2>3. Shape(t) /\ t \in TreeSet BY <2>1 DEF Core, Shape
  <2>4. Shape(u) /\ SameLinks(t, u) /\ HijackMarks(t, u, command_scope(t, s, mode), g)
    BY <2>1, <2>2, <2>3, Hijacked
  <2>5. command_scope(t, s, mode) \subseteq alive(t) BY <2>2, <2>3, ScopeAlive
  <2>6. PICK x : x = [state EXCEPT !.tree = u] OBVIOUS
  <2>7. x.tree = u /\ x.rules = rules /\ x.orphans = orphans /\ x \in Managed
    BY <2>4, <2>6, StateParts DEF Core, Managed, Shape
  <2>8. Becomes(x) /\ spared' = spared BY <1>1, <2>1, <2>7 DEF Hijack, Becomes
  <2>9. Moves(x) BY <2>4, <2>7, <2>8 DEF Moves
  <2>10. Commanded(x) BY <2>1, <2>2, <2>4, <2>5, <2>7, <2>8 DEF Commanded
  <2> QED BY <2>9, <2>10
<1>2. ASSUME NEW p \in Pids, NEW mode \in BOOLEAN, Unhijack(p, mode)
      PROVE  \E x : Moves(x) /\ Commanded(x)
  <2>1. PICK s, t, u : s = find_by_pid(tree, p) /\ t = tree /\ u = manual_unhijack(t, s, mode)
    OBVIOUS
  <2>2. s \in alive(t) BY <1>2, <2>1, EntryOfPid DEF Unhijack
  <2>3. Shape(t) /\ t \in TreeSet BY <2>1 DEF Core, Shape
  <2>4. Shape(u) /\ SameLinks(t, u)
        /\ \E D \in SUBSET command_scope(t, s, mode) : UnhijackMarks(t, u, D)
    BY <2>1, <2>2, <2>3, Unhijacked
  <2>5. command_scope(t, s, mode) \subseteq alive(t) BY <2>2, <2>3, ScopeAlive
  <2>6. PICK x : x = [state EXCEPT !.tree = u] OBVIOUS
  <2>7. x.tree = u /\ x.rules = rules /\ x.orphans = orphans /\ x \in Managed
    BY <2>4, <2>6, StateParts DEF Core, Managed, Shape
  <2>8. Becomes(x) /\ spared' = spared \cup command_scope(t, s, mode)
    BY <1>2, <2>1, <2>7 DEF Unhijack, Becomes
  <2>9. Moves(x) BY <2>4, <2>7, <2>8 DEF Moves
  <2>10. Commanded(x) BY <2>1, <2>2, <2>4, <2>5, <2>7, <2>8 DEF Commanded
  <2> QED BY <2>9, <2>10
<1> QED BY <1>1, <1>2 DEF UserCommand

\* The rules of a configuration are rules.
LEMMA ConfigRules == ConfiguredRules \subseteq RuleSet
BY DEF ConfiguredRules, RuleSet

\* ApplyConfig leaves what Applied says of its snapshot.
LEMMA ApplyConfigMoves ==
  ASSUME Core, NEW n \in snapshots, ApplyConfig(n)
  PROVE  \E x : Moves(x) /\ SameLinks(tree, x.tree) /\ x.orphans = orphans
                /\ Applied(tree, n.after, x)
<1>1. PICK t, cfg, y : t = tree /\ cfg = n.after /\ y = apply_auto_rules(t, cfg) OBVIOUS
<1>2. cfg \in RuleSet BY <1>1, ConfigRules DEF Core, StoreTypeOK
<1>3. Kernel /\ Shape(t) BY <1>1 DEF Core
<1>4. y.rules \in RuleSet /\ Shape(y.tree) /\ SameLinks(t, y.tree) /\ Applied(t, cfg, y)
  BY <1>1, <1>2, <1>3, AppliedRules
<1>5. PICK x : x = [state EXCEPT !.tree = y.tree, !.rules = y.rules] OBVIOUS
<1>6. x.tree = y.tree /\ x.rules = y.rules /\ x.orphans = orphans /\ x \in Managed
  BY <1>4, <1>5, StateParts DEF Core, Managed, Shape
<1>7. Becomes(x) BY <1>1, <1>6 DEF ApplyConfig, Becomes
<1>8. Moves(x) BY <1>4, <1>6, <1>7 DEF Moves
<1>9. Applied(t, cfg, x) BY <1>4, <1>6 DEF Applied, AppliedMark
<1> QED BY <1>1, <1>4, <1>6, <1>8, <1>9

-----------------------------------------------------------------------------
\* Core is invariant.

\* The manager's part of Core after a handler.
LEMMA MovesNext ==
  ASSUME NEW x, Moves(x), UNCHANGED <<born, pid_of>>
  PROVE  (state \in Managed)' /\ Shape(tree)'
<1>1. tree' = x.tree /\ rules' = x.rules /\ orphans' = x.orphans /\ x \in Managed /\ Shape(x.tree)
  BY DEF Moves, Becomes
<1>2. state' \in Managed BY <1>1 DEF state, Managed
<1>3. PICK u : u = x.tree OBVIOUS
<1>4. Shape(u) /\ tree' = u BY <1>1, <1>3
<1>5. Shape(tree)' BY <1>4 DEF Shape, alive
<1> QED BY <1>2, <1>5

\* The manager's part of Core when only processes start.
LEMMA StaysNext ==
  ASSUME state \in Managed, Shape(tree), UNCHANGED <<tree, rules, orphans>>,
         born \in Nat, born' \in Nat, born <= born', \A s \in 1 .. born : pid_of'[s] = pid_of[s]
  PROVE  (state \in Managed)' /\ Shape(tree)'
<1>1. state' \in Managed BY DEF state
<1>2. \A s \in 1 .. born : s \in 1 .. born' OBVIOUS
<1>3. \A s \in alive(tree) : s \in 1 .. born' /\ tree.side_map[pid_of'[s]] = s
  BY <1>2 DEF Shape
<1>4. \A p \in Pids : tree.side_map[p] # NONE =>
        tree.side_map[p] \in alive(tree) /\ pid_of'[tree.side_map[p]] = p
  BY DEF Shape
<1>5. alive(tree)' = alive(tree) BY DEF alive
<1>6. Shape(tree)' BY <1>3, <1>4, <1>5 DEF Shape
<1> QED BY <1>1, <1>6

\* The configuration's part of Core.
LEMMA StoreNext ==
  ASSUME StoreTypeOK(ConfiguredRules), RuleCommand \/ UNCHANGED storeVars
  PROVE  StoreTypeOK(ConfiguredRules)'
<1>1. CASE UNCHANGED storeVars BY <1>1 DEF StoreTypeOK, storeVars
<1>2. ASSUME NEW n \in snapshots, ApplyConfig(n) PROVE StoreTypeOK(ConfiguredRules)'
  BY <1>2 DEF ApplyConfig, Notify, StoreTypeOK
<1>3. ASSUME NEW new \in ConfiguredRules, Mutate(new) PROVE StoreTypeOK(ConfiguredRules)'
  <2>1. mutations \in 0 .. MaxMutations /\ MaxMutations \in Nat
    BY StoreAssumption DEF StoreTypeOK
  <2>2. /\ mutations < MaxMutations /\ mutations' = mutations + 1 /\ config' = new
        /\ \/ saved' = new /\ snapshots' = snapshots \cup {[at |-> mutations', after |-> new]}
           \/ UNCHANGED <<saved, snapshots>>
    BY <1>3 DEF Mutate
  <2>3. mutations' \in 0 .. MaxMutations /\ mutations' \in 1 .. MaxMutations BY <2>1, <2>2
  <2>4. PICK k : k = [at |-> mutations', after |-> new] OBVIOUS
  <2>5. k.at \in 1 .. MaxMutations /\ k.after \in ConfiguredRules BY <2>3, <2>4
  <2>6. \A n \in snapshots' : n \in snapshots \/ n = k BY <2>2, <2>4
  <2> HIDE DEF ConfiguredRules
  <2> QED BY <1>3, <2>2, <2>3, <2>5, <2>6 DEF StoreTypeOK
<1>4. config \in ConfiguredRules BY DEF StoreTypeOK
<1>5. ASSUME NEW r \in Rules
      PROVE  [config EXCEPT ![r].enabled = ~@] \in ConfiguredRules
  BY <1>4 DEF ConfiguredRules
<1>6. ASSUME NEW r \in Rules, NEW p \in Pids
      PROVE  /\ [config EXCEPT ![r].excluded = @ \cup {p}] \in ConfiguredRules
             /\ [config EXCEPT ![r].excluded = @ \ {p}] \in ConfiguredRules
  BY <1>4 DEF ConfiguredRules
<1>7. CASE RuleCommand
  <2>1. ASSUME NEW r \in Rules, UpdateRule(r) PROVE StoreTypeOK(ConfiguredRules)'
    BY <2>1, <1>3, <1>5 DEF UpdateRule, MutateRules
  <2>2. ASSUME NEW r \in Rules, NEW p \in Pids, ExcludePid(r, p) \/ UnexcludePid(r, p)
        PROVE  StoreTypeOK(ConfiguredRules)'
    BY <2>2, <1>3, <1>6 DEF ExcludePid, UnexcludePid, MutateRules
  <2> QED BY <1>2, <1>7, <2>1, <2>2 DEF RuleCommand
<1> QED BY <1>1, <1>7

\* Steps with the kernel's variables and those of the consumer as they are.
LEMMA StillKernel ==
  ASSUME Kernel, ConsumerTypeOK, UNCHANGED <<processVars, consumerVars>>
  PROVE  Kernel' /\ ConsumerTypeOK' /\ UNCHANGED <<born, pid_of, parent_of, running>>
BY DEF Kernel, ConsumerTypeOK, ProcessesTypeOK, processVars, bornVars, consumerVars, ToSet

\* Core holds at first.
LEMMA InitCore == Init => Core
<1> SUFFICES ASSUME Init PROVE Core OBVIOUS
<1>1. MaxPsn \in Nat /\ MaxLosses \in Nat /\ MaxMutations \in Nat /\ MaxCommands \in Nat
  BY ProcessAssumption, StoreAssumption, ManagerAssumption
<1>2. Kernel
  <2>1. ProcessesTypeOK BY <1>1 DEF Init, ProcessesInit, ProcessesTypeOK, NONE
  <2>2. ToSet(etw) = {} BY DEF Init, ProcessesInit, ToSet
  <2>3. born = 0 /\ running = {} /\ rundown = {} BY DEF Init, ProcessesInit
  <2>4. 1 .. 0 = {} OBVIOUS
  <2> QED BY <2>1, <2>2, <2>3, <2>4 DEF Kernel
<1>3. ConsumerTypeOK
  <2>1. running_ = FALSE /\ refused = FALSE /\ last_events_lost_ = 0 /\ EventsLost = 0
    BY DEF Init, ProcessesInit, ConsumerInit
  <2>2. last_events_lost_ \in 0 .. EventsLost BY <2>1
  <2> QED BY <2>1, <2>2 DEF ConsumerTypeOK
<1>4. InitialRules \in ConfiguredRules BY DEF InitialRules, ConfiguredRules
<1>5. StoreTypeOK(ConfiguredRules)
  <2>1. config = InitialRules /\ saved = InitialRules /\ snapshots = {} /\ mutations = 0
    BY DEF Init, StoreInit
  <2>2. mutations \in 0 .. MaxMutations BY <1>1, <2>1
  <2>3. config \in ConfiguredRules /\ saved \in ConfiguredRules BY <1>4, <2>1
  <2>4. \A n \in snapshots : n.at \in 1 .. MaxMutations /\ n.after \in ConfiguredRules BY <2>1
  <2> QED BY <2>2, <2>3, <2>4 DEF StoreTypeOK
<1>6. FlagsOK
  <2>1. /\ mgr = "off" /\ grace = "unset" /\ lost_pending = FALSE
        /\ spared = {} /\ commands = 0
    BY DEF Init
  <2>2. commands \in 0 .. MaxCommands BY <1>1, <2>1
  <2> QED BY <2>1, <2>2 DEF FlagsOK
<1>7. PICK t : t = EmptyTree OBVIOUS
<1>8. /\ t.entries = <<>> /\ t.side_map = [p \in Pids |-> NONE]
      /\ t.parent = [s \in PSN |-> NONE] /\ t.mark = [s \in PSN |-> Unmarked]
  BY <1>7 DEF EmptyTree
<1>9. t \in TreeSet
  <2>1. Unmarked \in MarkSet BY DEF Unmarked, MarkSet
  <2>2. NONE \in 0 .. MaxPsn BY <1>1 DEF NONE
  <2> HIDE DEF NONE, Unmarked, MarkSet, PSN
  <2>3. EmptyTree \in TreeSet BY <2>1, <2>2 DEF EmptyTree, TreeSet
  <2> QED BY <1>7, <2>3
<1>10. alive(t) = {} BY <1>8 DEF alive
<1>11. Shape(t) BY <1>8, <1>9, <1>10 DEF Shape
<1>12. state \in Managed
  BY <1>4, <1>7, <1>9, ConfigRules DEF Init, state, Managed, OrphanSet
<1> QED BY <1>2, <1>3, <1>5, <1>6, <1>7, <1>11, <1>12 DEF Core, Init

\* What a step can be, seen from the tree.
LEMMA CoreNext == Core /\ [Next]_vars => Core'
<1> SUFFICES ASSUME Core, [Next]_vars PROVE Core' OBVIOUS
<1> USE DEF FlagsOK
<1>1. /\ Kernel /\ ConsumerTypeOK /\ StoreTypeOK(ConfiguredRules) /\ FlagsOK
      /\ state \in Managed /\ Shape(tree)
      /\ born \in Nat /\ MaxCommands \in Nat
  BY ManagerAssumption DEF Core, Kernel, ProcessesTypeOK
<1>2. ASSUME Kernel', ConsumerTypeOK', UNCHANGED <<born, pid_of>>, UNCHANGED <<tree, rules, orphans>>,
             StoreTypeOK(ConfiguredRules)', FlagsOK'
      PROVE  Core'
  <2>1. (state \in Managed)' /\ Shape(tree)' BY <1>1, <1>2, StaysNext
  <2> QED BY <1>2, <2>1 DEF Core
<1>3. ASSUME Kernel', ConsumerTypeOK', UNCHANGED <<born, pid_of>>,
             NEW x, Moves(x), StoreTypeOK(ConfiguredRules)', FlagsOK'
      PROVE  Core'
  <2>1. (state \in Managed)' /\ Shape(tree)' BY <1>3, MovesNext
  <2> QED BY <1>3, <2>1 DEF Core
<1>4. CASE UNCHANGED vars
  <2>1. UNCHANGED <<processVars, consumerVars, storeVars, managerVars>> BY <1>4 DEF vars
  <2>2. Kernel' /\ ConsumerTypeOK' /\ UNCHANGED <<born, pid_of>> BY <1>1, <2>1, StillKernel
  <2>3. StoreTypeOK(ConfiguredRules)' BY <1>1, <2>1, StoreNext
  <2> QED BY <1>1, <1>2, <2>1, <2>2, <2>3 DEF managerVars
<1>5. CASE KernelStep
  <2>1. UNCHANGED <<consumerVars, storeVars, managerVars>> BY <1>5 DEF KernelStep
  <2>2. StoreTypeOK(ConfiguredRules)' BY <1>1, <2>1, StoreNext
  <2>3. ASSUME NEW s \in PSN, NEW p \in Pids, NEW parent \in 0 .. MaxPsn, Spawn(s, p, parent)
        PROVE  Core'
    <3>1. /\ Kernel' /\ ConsumerTypeOK' /\ s = born + 1 /\ born' = s
          /\ \A x \in 1 .. born : pid_of'[x] = pid_of[x]
      BY <1>1, <2>1, <2>3, SpawnKernel
    <3>2. born' \in Nat /\ born <= born' BY <1>1, <3>1
    <3>3. (state \in Managed)' /\ Shape(tree)'
      BY <1>1, <2>1, <3>1, <3>2, StaysNext DEF managerVars
    <3> QED BY <1>1, <2>1, <2>2, <3>1, <3>3 DEF Core, managerVars
  <2>4. ASSUME NEW s \in PSN, Exit(s) \/ EnumerateNext(s) PROVE Core'
    <3>1. Kernel' /\ ConsumerTypeOK' /\ UNCHANGED <<born, pid_of>>
      BY <1>1, <2>1, <2>4, ExitKernel
    <3> QED BY <1>1, <1>2, <2>1, <2>2, <3>1 DEF managerVars
  <2> QED BY <1>5, <2>3, <2>4 DEF KernelStep
<1>6. CASE ConsumerStep \/ Start \/ RequestRundown \/ HandleLost \/ LostTimer
  <2>1. UNCHANGED <<storeVars, tree, rules, orphans, spared, commands>>
        /\ mgr' \in {"off", "starting", "on", "blind"} /\ grace' \in {"unset", "armed", "fired"}
        /\ lost_pending' \in BOOLEAN
    BY <1>1, <1>6
       DEF ConsumerStep, Start, RequestRundown, HandleLost, LostTimer, managerVars
  <2>2. buffer_callback \/ start \/ request_rundown \/ \E kinds : event_record_callback(kinds)
    BY <1>6 DEF ConsumerStep, Start, RequestRundown, HandleLost, LostTimer
  <2>3. Kernel' /\ ConsumerTypeOK' /\ UNCHANGED <<born, pid_of>>
    BY <1>1, <2>2, ConsumerKernel
  <2>4. StoreTypeOK(ConfiguredRules)' BY <1>1, <2>1, StoreNext
  <2> QED BY <1>1, <1>2, <2>1, <2>3, <2>4
<1>7. CASE HandleStart \/ HandleStop
  <2>1. UNCHANGED <<storeVars, mgr, grace, lost_pending, spared, commands>>
    BY <1>7 DEF HandleStart, HandleStop
  <2>2. \E kinds : event_record_callback(kinds) BY <1>7 DEF HandleStart, HandleStop
  <2>3. Kernel' /\ ConsumerTypeOK' /\ UNCHANGED <<born, pid_of>>
    BY <1>1, <2>2, ConsumerKernel
  <2>4. StoreTypeOK(ConfiguredRules)' BY <1>1, <2>1, StoreNext
  <2>5. \E x : Moves(x) BY <1>7, HandleStartMoves, HandleStopMoves
  <2> QED BY <1>1, <1>3, <2>1, <2>3, <2>4, <2>5
<1>8. CASE GraceTimer \/ \E p \in Pids : Connect(p)
  <2>1. UNCHANGED <<processVars, consumerVars, storeVars, mgr, lost_pending, spared, commands>>
        /\ grace' \in {"unset", "armed", "fired"}
    BY <1>1, <1>8 DEF GraceTimer, Connect
  <2>2. Kernel' /\ ConsumerTypeOK' /\ UNCHANGED <<born, pid_of>> BY <1>1, <2>1, StillKernel
  <2>3. StoreTypeOK(ConfiguredRules)' BY <1>1, <2>1, StoreNext
  <2>4. \E x : Moves(x)
    <3>1. ASSUME NEW p \in Pids, Connect(p) PROVE \E x : Moves(x)
      <4> DEFINE S == {y \in Managed : Shape(y.tree)}
      <4>1. state \in S BY <1>1, StateParts
      <4>2. \E x \in S : Moves(x) BY <3>1, <4>1, ConnectMoves
      <4> QED BY <4>2
    <3> QED BY <1>8, <3>1, GraceTimerMoves
  <2> QED BY <1>1, <1>3, <2>1, <2>2, <2>3, <2>4
<1>9. CASE UserCommand
  <2>1. UNCHANGED <<processVars, consumerVars, storeVars, mgr, grace, lost_pending>> /\ Command
    BY <1>9 DEF UserCommand, Hijack, Unhijack
  <2>2. Kernel' /\ ConsumerTypeOK' /\ UNCHANGED <<born, pid_of>> BY <1>1, <2>1, StillKernel
  <2>3. StoreTypeOK(ConfiguredRules)' BY <1>1, <2>1, StoreNext
  <2>4. PICK x : Moves(x) /\ Commanded(x) BY <1>9, UserCommandMoves
  <2>5. commands' \in 0 .. MaxCommands BY <1>1, <2>1 DEF Command
  <2>6. spared' \subseteq PSN
    <3>1. alive(tree) \subseteq PSN BY <1>1, AliveAt DEF Shape
    <3> QED BY <1>1, <2>4, <3>1 DEF Commanded
  <2> QED BY <1>1, <1>3, <2>1, <2>2, <2>3, <2>4, <2>5, <2>6
<1>10. CASE RuleCommand
  <2>1. UNCHANGED <<processVars, consumerVars, mgr, grace, lost_pending, spared, commands>>
    BY <1>10 DEF RuleCommand, UpdateRule, ExcludePid, UnexcludePid, MutateRules, ApplyConfig,
                 managerVars
  <2>2. Kernel' /\ ConsumerTypeOK' /\ UNCHANGED <<born, pid_of>> BY <1>1, <2>1, StillKernel
  <2>3. StoreTypeOK(ConfiguredRules)' BY <1>1, <1>10, StoreNext
  <2>4. (\E x : Moves(x)) \/ UNCHANGED <<tree, rules, orphans>>
    BY <1>10, ApplyConfigMoves
       DEF RuleCommand, UpdateRule, ExcludePid, UnexcludePid, MutateRules, managerVars
  <2> QED BY <1>1, <1>2, <1>3, <2>1, <2>2, <2>3, <2>4
<1> QED BY <1>4, <1>5, <1>6, <1>7, <1>8, <1>9, <1>10 DEF Next, HandleEvent, Timers

\* Core is invariant.
LEMMA CoreInvariant == Spec => []Core
BY InitCore, CoreNext, PTL DEF Spec

-----------------------------------------------------------------------------
\* Types and the side map.

\* Every variable has its type.
THEOREM TypeCorrect == Spec => []TypeOK
<1>1. Core => TypeOK
  <2> SUFFICES ASSUME Core PROVE TypeOK OBVIOUS
  <2>1. tree \in TreeSet /\ rules \in RuleSet /\ orphans \in OrphanSet
    BY StateParts DEF Core, Managed
  <2>2. TreeType(tree, Groups) BY <2>1 DEF TreeSet, TreeType, MarkSet
  <2>3. RulesType(rules) BY <2>1 DEF RuleSet, RulesType
  <2> QED BY <2>1, <2>2, <2>3 DEF Core, TypeOK, Kernel, FlagsOK, OrphanSet
<1> QED BY <1>1, CoreInvariant, PTL

\* The live entries are as many as their positions.
LEMMA LivePositions ==
  ASSUME NEW t, Shape(t)
  PROVE  Cardinality(alive(t)) + Cardinality(tombstones(t)) = Len(t.entries)
<1> DEFINE n == Len(t.entries)
           D == tombstones(t)
           L == (1 .. n) \ D
           f == [k \in L |-> t.entries[k]]
<1>1. n \in Nat /\ DOMAIN t.entries = 1 .. n BY AliveAt DEF Shape
<1>2. D \subseteq 1 .. n BY <1>1 DEF tombstones
<1>3. IsFiniteSet(1 .. n) /\ Cardinality(1 .. n) = n BY <1>1, FS_Interval
<1>4. IsFiniteSet(D) /\ Cardinality(D) \in Nat /\ (1 .. n) \cap D = D
  BY <1>2, <1>3, FS_Subset, FS_CardinalityType
<1>5. IsFiniteSet(L) /\ Cardinality(L) = n - Cardinality(D)
  <2>1. PICK S, T : S = 1 .. n /\ T = D OBVIOUS
  <2>2. IsFiniteSet(S) BY <1>3, <2>1
  <2>3. IsFiniteSet(S \ T) /\ Cardinality(S \ T) = Cardinality(S) - Cardinality(S \cap T)
    BY <2>2, FS_Difference
  <2>4. S \cap T = T /\ S \ T = L BY <1>4, <2>1
  <2> HIDE DEF D, n, L
  <2> QED BY <1>3, <2>1, <2>3, <2>4
<1>6. f \in Bijection(L, alive(t))
  <2>1. \A k \in L : t.entries[k] \in alive(t) BY <1>1 DEF alive, tombstones
  <2>2. \A s \in alive(t) : \E k \in L : t.entries[k] = s BY <1>1 DEF alive, tombstones
  <2>3. \A i, k \in L : t.entries[i] = t.entries[k] => i = k
    BY <1>1 DEF Shape, tombstones
  <2> HIDE DEF L
  <2>4. f \in [L -> alive(t)] BY <2>1
  <2>5. \A a, b \in L : f[a] = f[b] => a = b BY <2>3
  <2>6. \A s \in alive(t) : \E k \in L : f[k] = s BY <2>2
  <2> HIDE DEF f
  <2> QED BY <2>4, <2>5, <2>6 DEF Bijection, Injection, Surjection, IsInjective
<1>7. Cardinality(alive(t)) = Cardinality(L)
  <2>1. ExistsBijection(L, alive(t)) BY <1>6 DEF ExistsBijection
  <2> HIDE DEF L
  <2> QED BY <1>5, <2>1, FS_Bijection
<1> QED BY <1>1, <1>4, <1>5, <1>7

\* The hot path's lookup is exact: a PID leads to the one live entry of that PID
\* and every live entry is reached, through every overwritten PID, exit and
\* compaction and whatever happens while events are on their way.
THEOREM SideMapCorrect == Spec => []SideMapExact
<1>1. Core => SideMapExact
  <2> SUFFICES ASSUME Core PROVE SideMapExact OBVIOUS
  <2>1. Shape(tree) BY DEF Core
  <2>2. Cardinality(alive(tree)) + Cardinality(tombstones(tree)) = Len(tree.entries)
    BY <2>1, LivePositions
  <2> QED BY <2>1, <2>2 DEF Shape, SideMapExact
<1> QED BY <1>1, CoreInvariant, PTL

-----------------------------------------------------------------------------
\* The rules follow the configuration.

\* What every enabled rule says in a configuration or in the engine.
SameEnabled(a, b) == \A r \in Rules : a[r].enabled = b[r].enabled

\* One request at a time: its snapshot is what is saved, until the rules have it.
LastSnapshot ==
  \/ snapshots = {} /\ SameEnabled(rules, saved)
  \/ \E n : snapshots = {n} /\ n.after = saved

\* Matching and forgetting leave a rule enabled or not.
LEMMA EnabledKept ==
  ASSUME NEW m \in Managed, NEW s, NEW ppid, NEW ppsn, NEW x, Handled(m, s, ppid, ppsn, x)
  PROVE  SameEnabled(x.rules, m.rules)
<1>1. CASE x = m BY <1>1 DEF SameEnabled
<1>2. CASE Insertion(m, s, ppid, ppsn, x)
  <2>1. PICK rs, k : rs = forget_owner(m, pid_of[s]) /\ Matching(k, rs, s, x)
    BY <1>2 DEF Insertion
  <2>2. rs \in RuleSet /\ SameEnabled(rs, m.rules)
    <3>1. m.rules \in RuleSet BY DEF Managed
    <3>2. rs = m.rules \/ rs = on_process_exit(m.rules, pid_of[s]) BY <2>1 DEF forget_owner
    <3>3. SameEnabled(on_process_exit(m.rules, pid_of[s]), m.rules)
      BY <3>1 DEF on_process_exit, SameEnabled, RuleSet
    <3>4. on_process_exit(m.rules, pid_of[s]) \in RuleSet BY <3>1, ForgottenType
    <3> QED BY <3>1, <3>2, <3>3, <3>4 DEF SameEnabled
  <2>3. CASE x.rules = rs BY <2>2, <2>3
  <2>4. ASSUME NEW r \in Rules, NEW C, x.rules = [rs EXCEPT ![r].matched = @ \cup pids(C)]
        PROVE  SameEnabled(x.rules, m.rules)
    <3>1. ASSUME NEW q \in Rules PROVE x.rules[q].enabled = rs[q].enabled
      BY <2>2, <2>4 DEF RuleSet
    <3> QED BY <2>2, <3>1 DEF SameEnabled
  <2> QED BY <2>1, <2>3, <2>4 DEF Matching
<1> QED BY <1>1, <1>2 DEF Handled

\* Forgetting a PID enables no rule and disables none.
LEMMA EnabledForgotten ==
  ASSUME NEW rs \in RuleSet, NEW p PROVE SameEnabled(on_process_exit(rs, p), rs)
BY DEF on_process_exit, SameEnabled, RuleSet

\* Only the observers change which rules are enabled.
LEMMA EnabledNext ==
  ASSUME Core, [Next]_vars, ~\E n \in snapshots : ApplyConfig(n)
  PROVE  SameEnabled(rules', rules)
<1>1. CASE UNCHANGED rules BY <1>1 DEF SameEnabled
<1>2. state \in Managed /\ rules \in RuleSet BY StateParts DEF Core, Managed
<1>3. CASE HandleStart
  <2>1. PICK x : /\ Moves(x)
                 /\ Handled(state, Head(etw).psn, parent_pid_of(Head(etw).psn),
                            parent_of[Head(etw).psn], x)
    BY <1>3, HandleStartMoves
  <2>2. PICK m, s, a, b : /\ m = state /\ s = Head(etw).psn /\ a = parent_pid_of(Head(etw).psn)
                          /\ b = parent_of[Head(etw).psn]
    OBVIOUS
  <2>3. SameEnabled(x.rules, m.rules) BY <1>2, <2>1, <2>2, EnabledKept
  <2> QED BY <2>1, <2>2, <2>3, StateParts DEF Moves, Becomes
<1>4. CASE HandleStop
  <2>1. PICK x : Moves(x) /\ Stopped(Head(etw).psn, x) BY <1>4, HandleStopMoves
  <2>2. x.rules = rules \/ \E p : x.rules = on_process_exit(rules, p)
    BY <2>1, StateParts DEF Stopped
  <2>3. SameEnabled(x.rules, rules)
    <3>1. CASE x.rules = rules BY <3>1 DEF SameEnabled
    <3> QED BY <1>2, <2>2, <3>1, EnabledForgotten
  <2> QED BY <2>1, <2>3 DEF Moves, Becomes
<1>5. CASE GraceTimer
  <2>1. PICK x : Moves(x) /\ Rooted(x) BY <1>5, GraceTimerMoves
  <2> QED BY <1>1, <2>1 DEF Moves, Becomes, Rooted
<1>6. ASSUME NEW p \in Pids, Connect(p) PROVE SameEnabled(rules', rules)
  <2> DEFINE S == {y \in Managed : Shape(y.tree) /\ SameEnabled(y.rules, rules)}
  <2>1. state \in S BY StateParts DEF Core, SameEnabled
  <2>2. \A c : IsChain(tree, c) /\ c = chain_from(tree, opened(p)) =>
          \A k \in 1 .. Len(c) : \A y \in S : \A x \in Managed :
            Shape(x.tree) /\ ChainStep(tree, c, k, y, x) => x \in S
    <3>1. ASSUME NEW c, NEW k \in 1 .. Len(c), NEW y \in S, NEW x \in Managed,
                 Shape(x.tree), ChainStep(tree, c, k, y, x)
          PROVE  x \in S
      <4>1. SameEnabled(x.rules, y.rules) BY <3>1, EnabledKept DEF ChainStep
      <4>2. SameEnabled(x.rules, rules) BY <4>1 DEF SameEnabled
      <4> QED BY <3>1, <4>2
    <3> QED BY <3>1
  <2>3. \A y \in S : y \in Managed /\ Shape(y.tree) OBVIOUS
  <2> HIDE DEF S
  <2>4. PICK x \in S : Moves(x) BY <1>6, <2>1, <2>2, <2>3, ConnectMoves
  <2> QED BY <2>4 DEF S, Moves, Becomes
<1>7. CASE UserCommand
  <2>1. PICK x : Moves(x) /\ Commanded(x) BY <1>7, UserCommandMoves
  <2> QED BY <1>1, <2>1 DEF Moves, Becomes, Commanded
<1>8. CASE UNCHANGED vars \/ KernelStep \/ ConsumerStep \/ Start \/ RequestRundown \/ HandleLost \/ LostTimer
  BY <1>1, <1>8 DEF vars, managerVars, KernelStep, ConsumerStep, Start, RequestRundown, HandleLost,
                    LostTimer
<1>9. CASE RuleCommand
  BY <1>1, <1>9 DEF RuleCommand, UpdateRule, ExcludePid, UnexcludePid, MutateRules, managerVars
<1> QED BY <1>3, <1>4, <1>5, <1>6, <1>7, <1>8, <1>9 DEF Next, HandleEvent, Timers

\* With one HTTP thread the rules that are enabled are those of the configuration
\* last saved, once every request has called the observers: no event, timer or
\* command of the user enables or disables one.  (The copies of two threads may be
\* applied in the other order.)
THEOREM RulesFollowConfigCorrect ==
  ASSUME HttpThreads = 1 PROVE Spec => []RulesFollowConfig
<1> DEFINE I == Core /\ LastSnapshot
<1>1. Init => LastSnapshot BY DEF Init, StoreInit, LastSnapshot, SameEnabled
<1>2. Core /\ LastSnapshot /\ [Next]_vars => LastSnapshot'
  <2> SUFFICES ASSUME Core, LastSnapshot, [Next]_vars PROVE LastSnapshot' OBVIOUS
  <2>1. ASSUME NEW n \in snapshots, ApplyConfig(n) PROVE LastSnapshot'
    <3>1. PICK x : Moves(x) /\ Applied(tree, n.after, x) BY <2>1, ApplyConfigMoves
    <3>2. SameEnabled(rules', n.after) BY <3>1 DEF Applied, Moves, Becomes, SameEnabled
    <3>3. snapshots' = snapshots \ {n} /\ saved' = saved BY <2>1 DEF ApplyConfig, Notify
    <3>4. snapshots = {n} /\ n.after = saved BY <2>1 DEF LastSnapshot
    <3>5. snapshots' = {} BY <3>3, <3>4
    <3> QED BY <3>2, <3>3, <3>4, <3>5 DEF LastSnapshot, SameEnabled
  <2>2. CASE ~\E n \in snapshots : ApplyConfig(n)
    <3>1. SameEnabled(rules', rules) BY <2>2, EnabledNext
    <3>2. CASE UNCHANGED <<saved, snapshots>>
      BY <3>1, <3>2 DEF LastSnapshot, SameEnabled
    <3>3. ASSUME NEW new, Mutate(new) PROVE LastSnapshot'
      <4>1. Cardinality(snapshots) < 1 BY <3>3 DEF Mutate
      <4>2. snapshots = {}
        <5>1. ASSUME NEW n, snapshots = {n} PROVE FALSE
          <6>1. Cardinality({n}) = 1 BY FS_Singleton
          <6> QED BY <4>1, <5>1, <6>1
        <5> QED BY <5>1 DEF LastSnapshot
      <4>3. CASE UNCHANGED <<saved, snapshots>> BY <3>2, <4>3
      <4>4. CASE saved' = new /\ snapshots' = snapshots \cup {[at |-> mutations', after |-> new]}
        <5>1. PICK k : k = [at |-> mutations', after |-> new] OBVIOUS
        <5>2. snapshots' = {k} /\ k.after = saved' BY <4>2, <4>4, <5>1
        <5> QED BY <5>2 DEF LastSnapshot
      <4> QED BY <3>3, <4>3, <4>4 DEF Mutate
    <3>4. CASE UNCHANGED storeVars BY <3>2, <3>4 DEF storeVars
    <3>5. CASE RuleCommand
      BY <2>2, <3>3, <3>5 DEF RuleCommand, UpdateRule, ExcludePid, UnexcludePid, MutateRules
    <3>6. UNCHANGED storeVars \/ RuleCommand
      BY DEF vars, Next, KernelStep, ConsumerStep, Start, RequestRundown, HandleEvent, HandleStart,
             HandleStop, HandleLost, Timers, LostTimer, GraceTimer, Connect, UserCommand, Hijack,
             Unhijack
    <3> QED BY <3>4, <3>5, <3>6
  <2> QED BY <2>1, <2>2
<1>3. LastSnapshot => RulesFollowConfig
  <2>1. ASSUME NEW n, snapshots = {n} PROVE snapshots # {} BY <2>1
  <2> QED BY <2>1 DEF LastSnapshot, RulesFollowConfig, SameEnabled
<1> QED BY <1>1, <1>2, <1>3, CoreInvariant, PTL DEF Spec

-----------------------------------------------------------------------------
\* Marks and what the rules matched.

RulesThatMatched(rs, s) == {r \in Rules : pid_of[s] \in rs[r].matched}

\* A mark k of process s is one the rules rs or the user gave it.
MarkOK(k, rs, s, sp) ==
  /\ k.manual => k.group \in ManualGroups
  /\ RulesThatMatched(rs, s) = {} => ~k.auto
  /\ ~k.manual /\ ~k.auto => k = Unmarked
  /\ ~k.manual /\ RulesThatMatched(rs, s) # {} /\ s \notin sp =>
       k.auto /\ k.group \in {RuleGroup[r] : r \in RulesThatMatched(rs, s)}

\* The invariant: also a process no rule matched has no automatic mark, and the
\* mark of one that has neither kind is blank.
MarksOK(t, rs, sp) ==
  /\ \A r \in Rules : rs[r].matched \subseteq pids(alive(t))
  /\ \A s \in alive(t) : MarkOK(t.mark[s], rs, s, sp)

\* A PID has one live entry.
LEMMA OnePid ==
  ASSUME NEW t, Shape(t), NEW a \in alive(t), NEW b \in alive(t), pid_of[a] = pid_of[b]
  PROVE  a = b
BY DEF Shape

\* Rules that have forgotten p.
Forgot(rs, q, p) == \A r \in Rules : q[r].matched = rs[r].matched \ {p}

\* on_process_exit() forgets the PID.
LEMMA ForgotExit ==
  ASSUME NEW rs \in RuleSet, NEW p PROVE Forgot(rs, on_process_exit(rs, p), p)
BY DEF on_process_exit, Forgot, RuleSet

\* The marks of those who stay are right once a PID is forgotten with its owner.
LEMMA MarksForgotten ==
  ASSUME NEW t, Shape(t), NEW rs, NEW sp, MarksOK(t, rs, sp), NEW p, NEW q, Forgot(rs, q, p),
         NEW u, NEW N, N \subseteq alive(u),
         \A c \in alive(t) : pid_of[c] # p => c \in alive(u),
         \A c \in alive(u) \ N : c \in alive(t) /\ pid_of[c] # p /\ u.mark[c] = t.mark[c],
         \A c \in N : pid_of[c] = p /\ u.mark[c] = Unmarked
  PROVE  MarksOK(u, q, sp)
<1>1. \A r \in Rules : q[r].matched \subseteq pids(alive(u))
  <2> TAKE r \in Rules
  <2>1. q[r].matched = rs[r].matched \ {p} /\ rs[r].matched \subseteq pids(alive(t))
    BY DEF Forgot, MarksOK
  <2> QED BY <2>1 DEF pids
<1>2. ASSUME NEW c \in alive(u) \ N PROVE MarkOK(u.mark[c], q, c, sp)
  <2>1. RulesThatMatched(q, c) = RulesThatMatched(rs, c) BY DEF Forgot, RulesThatMatched
  <2>2. MarkOK(t.mark[c], rs, c, sp) /\ u.mark[c] = t.mark[c] BY DEF MarksOK
  <2> QED BY <2>1, <2>2 DEF MarkOK
<1>3. ASSUME NEW c \in N PROVE MarkOK(u.mark[c], q, c, sp)
  <2>1. RulesThatMatched(q, c) = {} BY DEF Forgot, RulesThatMatched
  <2>2. u.mark[c] = Unmarked OBVIOUS
  <2> QED BY <2>1, <2>2 DEF MarkOK, Unmarked
<1> QED BY <1>1, <1>2, <1>3 DEF MarksOK

\* on_process_start() gives the marks it has a reason for.
LEMMA MarksMatched ==
  ASSUME NEW k, NEW rs \in RuleSet, NEW sp, MarksOK(k, rs, sp), NEW s \in alive(k), NEW x,
         Shape(x.tree), alive(x.tree) = alive(k), alive(k) \subseteq PSN,
         k.mark[s] = Unmarked, Matching(k, rs, s, x)
  PROVE  MarksOK(x.tree, x.rules, sp)
<1>1. CASE /\ x.rules = rs /\ \A c \in PSN \ {s} : x.tree.mark[c] = k.mark[c]
           /\ \/ x.tree.mark[s] = k.mark[s]
              \/ \E q \in alive(k) : /\ k.mark[q].manual
                                     /\ Marked(x.tree.mark[s], k.mark[q].group, TRUE, k.mark[s].auto)
  <2>1. ASSUME NEW c \in alive(k) PROVE MarkOK(x.tree.mark[c], x.rules, c, sp)
    <3>1. CASE x.tree.mark[c] = k.mark[c] BY <1>1, <3>1 DEF MarksOK
    <3>2. CASE x.tree.mark[c] # k.mark[c]
      <4>1. PICK q \in alive(k) : /\ c = s /\ k.mark[q].manual
                                  /\ Marked(x.tree.mark[s], k.mark[q].group, TRUE, k.mark[s].auto)
        BY <1>1, <3>2
      <4>2. k.mark[q].group \in ManualGroups BY <4>1 DEF MarksOK, MarkOK
      <4> QED BY <4>1, <4>2 DEF MarkOK, Marked, Unmarked
    <3> QED BY <3>1, <3>2
  <2> QED BY <1>1, <2>1 DEF MarksOK
<1>2. ASSUME NEW r \in Rules, NEW C \in SUBSET alive(k), ProxiedMarks(k, x.tree, C, r),
             x.rules = [rs EXCEPT ![r].matched = @ \cup pids(C)]
      PROVE  MarksOK(x.tree, x.rules, sp)
  <2>1. \A q \in Rules : x.rules[q].matched = IF q = r THEN rs[q].matched \cup pids(C)
                                              ELSE rs[q].matched
    BY <1>2 DEF RuleSet
  <2>2. \A q \in Rules : x.rules[q].matched \subseteq pids(alive(x.tree))
    <3> TAKE q \in Rules
    <3>1. rs[q].matched \subseteq pids(alive(k)) BY DEF MarksOK
    <3>2. pids(C) \subseteq pids(alive(k)) BY DEF pids
    <3>3. x.rules[q].matched \subseteq pids(alive(k)) BY <2>1, <3>1, <3>2
    <3> QED BY <3>3
  <2>3. ASSUME NEW c \in alive(k) PROVE MarkOK(x.tree.mark[c], x.rules, c, sp)
    <3>1. MarkOK(k.mark[c], rs, c, sp) /\ c \in PSN BY DEF MarksOK
    <3>2. CASE c \in C
      <4>1. r \in RulesThatMatched(x.rules, c) BY <2>1, <3>2 DEF RulesThatMatched, pids
      <4>2. IF k.mark[c].manual THEN x.tree.mark[c] = k.mark[c]
            ELSE Marked(x.tree.mark[c], RuleGroup[r], FALSE, TRUE)
        BY <1>2, <3>1, <3>2 DEF ProxiedMarks
      <4> QED BY <3>1, <4>1, <4>2 DEF MarkOK, Marked
    <3>3. CASE c \notin C
      <4>1. x.tree.mark[c] = k.mark[c] BY <1>2, <3>1, <3>3 DEF ProxiedMarks
      <4>2. pid_of[c] \notin pids(C) BY <3>3, OnePid DEF pids
      <4>3. RulesThatMatched(x.rules, c) = RulesThatMatched(rs, c)
        BY <2>1, <4>2 DEF RulesThatMatched
      <4> QED BY <3>1, <4>1, <4>3 DEF MarkOK
    <3> QED BY <3>2, <3>3
  <2> QED BY <2>2, <2>3 DEF MarksOK
<1> QED BY <1>1, <1>2 DEF Matching

\* An insertion keeps the marks right.
LEMMA MarksHandled ==
  ASSUME Kernel, NEW m \in Managed, Shape(m.tree), NEW s \in 1 .. born, NEW ppid, NEW ppsn,
         NEW x \in Managed, Shape(x.tree), Handled(m, s, ppid, ppsn, x),
         NEW sp, MarksOK(m.tree, m.rules, sp)
  PROVE  MarksOK(x.tree, x.rules, sp)
<1>1. CASE x = m BY <1>1
<1>2. CASE s \notin alive(m.tree) /\ Insertion(m, s, ppid, ppsn, x)
  <2> DEFINE p == pid_of[s]
  <2>1. PICK t, d, rs : t = m.tree /\ d = Displaced(t, s) /\ rs = forget_owner(m, p) OBVIOUS
  <2>2. PICK k \in TreeSet : SameLinks(k, x.tree) /\ BaseMarks(t, s, k) /\ Matching(k, rs, s, x)
    BY <1>2, <2>1 DEF Insertion
  <2>3. /\ s \in PSN /\ p \in Pids /\ d = t.side_map[p]
        /\ d # NONE => d \in alive(t) /\ d \in PSN /\ pid_of[d] = p
    BY <2>1, DisplacedAlive
  <2>4. alive(x.tree) = (alive(t) \ {d}) \cup {s} /\ alive(k) = alive(x.tree)
    BY <1>2, <2>1, <2>2 DEF Insertion, Added, SameLinks
  <2>5. Shape(t) /\ m.rules \in RuleSet /\ t \in TreeSet BY <2>1 DEF Managed
  <2>6. \A c \in alive(t) : c # d <=> pid_of[c] # p
    <3> TAKE c \in alive(t)
    <3>1. t.side_map[pid_of[c]] = c /\ c # NONE BY <2>5 DEF Shape, alive
    <3> QED BY <2>3, <3>1
  <2>7. rs \in RuleSet /\ Forgot(m.rules, rs, p)
    <3>1. CASE d # NONE
      <4>1. rs = on_process_exit(m.rules, p) BY <2>1, <3>1 DEF forget_owner, Displaced
      <4> QED BY <2>5, <4>1, ForgottenType, ForgotExit
    <3>2. CASE d = NONE
      <4>1. rs = m.rules BY <2>1, <3>2 DEF forget_owner, Displaced
      <4>2. \A c \in alive(t) : pid_of[c] # p BY <2>6, <3>2 DEF alive
      <4>3. \A r \in Rules : m.rules[r].matched \subseteq pids(alive(t)) BY <2>1 DEF MarksOK
      <4>4. \A r \in Rules : p \notin m.rules[r].matched BY <4>2, <4>3 DEF pids
      <4>5. \A r \in Rules : m.rules[r].matched = m.rules[r].matched \ {p} BY <4>4
      <4> QED BY <2>5, <4>1, <4>5 DEF Forgot
    <3> QED BY <3>1, <3>2
  <2>8. k.mark[s] = Unmarked
    <3>1. t.mark[s] = Unmarked BY <1>2, <2>1, <2>3, <2>5 DEF Shape
    <3> QED BY <2>1, <2>2, <2>3, <3>1 DEF BaseMarks
  <2>9. alive(t) \subseteq PSN /\ alive(k) \subseteq PSN BY <2>2, <2>5, AliveAt
  <2>10. MarksOK(k, rs, sp)
    <3>1. PICK r0, N : r0 = m.rules /\ N = {s} OBVIOUS
    <3>2. MarksOK(t, r0, sp) /\ Forgot(r0, rs, p) BY <2>1, <2>7, <3>1
    <3>3. N \subseteq alive(k) BY <2>4, <3>1
    <3>4. \A c \in alive(t) : pid_of[c] # p => c \in alive(k) BY <2>4, <2>6
    <3>5. \A c \in alive(k) \ N : c \in alive(t) /\ pid_of[c] # p /\ k.mark[c] = t.mark[c]
      BY <2>1, <2>2, <2>4, <2>6, <2>9, <3>1 DEF BaseMarks
    <3>6. \A c \in N : pid_of[c] = p /\ k.mark[c] = Unmarked BY <2>8, <3>1
    <3> HIDE DEF p
    <3> QED BY <2>5, <3>2, <3>3, <3>4, <3>5, <3>6, MarksForgotten
  <2>11. s \in alive(k) BY <2>4
  <2> QED BY <2>2, <2>4, <2>7, <2>8, <2>9, <2>10, <2>11, MarksMatched
<1> QED BY <1>1, <1>2 DEF Handled

\* So does a STOP.
LEMMA MarksStopped ==
  ASSUME Core, MarksOK(tree, rules, spared), NEW s \in 1 .. born, NEW x, Stopped(s, x)
  PROVE  MarksOK(x.tree, x.rules, spared)
<1>1. CASE x = state BY <1>1, StateParts
<1>2. CASE /\ s \in alive(tree) /\ Removed(tree, s, x.tree)
           /\ x.rules = on_process_exit(rules, pid_of[s])
  <2>1. PICK t, rs, p, u, q, sp : /\ t = tree /\ rs = rules /\ p = pid_of[s] /\ u = x.tree
                                  /\ q = x.rules /\ sp = spared
    OBVIOUS
  <2>2. Shape(t) /\ MarksOK(t, rs, sp) /\ alive(t) \subseteq PSN
    BY <2>1, AliveAt DEF Core, Shape
  <2>3. Forgot(rs, q, p) BY <1>2, <2>1, StateParts, ForgotExit DEF Core, Managed
  <2>4. alive(u) = alive(t) \ {s} /\ \A c \in PSN : c # s => u.mark[c] = t.mark[c]
    BY <1>2, <2>1 DEF Removed
  <2>5. \A c \in alive(t) : c # s <=> pid_of[c] # p BY <1>2, <2>1, <2>2, OnePid
  <2>6. \A c \in alive(t) : pid_of[c] # p => c \in alive(u) BY <2>4, <2>5
  <2>7. \A c \in alive(u) \ {} : c \in alive(t) /\ pid_of[c] # p /\ u.mark[c] = t.mark[c]
    BY <2>2, <2>4, <2>5
  <2>8. PICK N : N = {} OBVIOUS
  <2>9. MarksOK(u, q, sp) BY <2>2, <2>3, <2>6, <2>7, <2>8, MarksForgotten
  <2> QED BY <2>1, <2>9
<1> QED BY <1>1, <1>2 DEF Stopped

\* So does a command of the user, which may spare processes.
LEMMA MarksCommanded ==
  ASSUME Core, MarksOK(tree, rules, spared), NEW x, Commanded(x)
  PROVE  MarksOK(x.tree, x.rules, spared')
<1>1. PICK C, sp : /\ C \subseteq alive(tree) /\ sp = spared'
                   /\ \/ sp = spared /\ \E g \in ManualGroups : HijackMarks(tree, x.tree, C, g)
                      \/ sp = spared \cup C /\ \E D \in SUBSET C : UnhijackMarks(tree, x.tree, D)
  BY DEF Commanded
<1>2. x.rules = rules /\ alive(x.tree) = alive(tree) /\ alive(tree) \subseteq PSN
  BY AliveAt DEF Commanded, SameLinks, Core, Shape
<1>3. ASSUME NEW s \in alive(tree) PROVE MarkOK(x.tree.mark[s], rules, s, sp)
  <2>1. MarkOK(tree.mark[s], rules, s, spared) /\ s \in PSN BY <1>2 DEF MarksOK
  <2>2. ASSUME NEW g \in ManualGroups, HijackMarks(tree, x.tree, C, g), sp = spared
        PROVE  MarkOK(x.tree.mark[s], rules, s, sp)
    <3>1. IF s \in C THEN Marked(x.tree.mark[s], g, TRUE, tree.mark[s].auto)
          ELSE x.tree.mark[s] = tree.mark[s]
      BY <2>1, <2>2 DEF HijackMarks
    <3> QED BY <2>1, <2>2, <3>1 DEF MarkOK, Marked
  <2>3. ASSUME NEW D \in SUBSET C, UnhijackMarks(tree, x.tree, D), sp = spared \cup C
        PROVE  MarkOK(x.tree.mark[s], rules, s, sp)
    <3>1. IF s \notin D THEN x.tree.mark[s] = tree.mark[s]
          ELSE IF tree.mark[s].auto THEN Marked(x.tree.mark[s], tree.mark[s].group, FALSE, TRUE)
          ELSE x.tree.mark[s] = Unmarked
      BY <2>1, <2>3 DEF UnhijackMarks
    <3>2. s \in D => s \in sp BY <2>3
    <3>3. s \notin sp => s \notin spared BY <2>3
    <3>4. CASE s \notin D BY <2>1, <3>1, <3>3, <3>4 DEF MarkOK
    <3>5. CASE s \in D /\ tree.mark[s].auto BY <2>1, <3>1, <3>2, <3>5 DEF MarkOK, Marked
    <3>6. CASE s \in D /\ ~tree.mark[s].auto BY <3>1, <3>2, <3>6 DEF MarkOK, Unmarked
    <3> QED BY <3>4, <3>5, <3>6
  <2> QED BY <1>1, <2>2, <2>3
<1> QED BY <1>1, <1>2, <1>3 DEF MarksOK

\* So does a new configuration.
LEMMA MarksApplied ==
  ASSUME Core, MarksOK(tree, rules, spared), NEW x, Shape(x.tree), SameLinks(tree, x.tree),
         NEW cfg, Applied(tree, cfg, x)
  PROVE  MarksOK(x.tree, x.rules, spared)
<1>1. PICK hits \in [Rules -> SUBSET alive(tree)] :
        /\ \A r \in Rules : x.rules[r].matched = pids(hits[r])
        /\ \A c \in PSN : AppliedMark(tree, x.tree, hits, Cardinality(Rules), c)
  BY DEF Applied
<1>2. alive(x.tree) = alive(tree) /\ alive(tree) \subseteq PSN
  BY AliveAt DEF SameLinks, Core, Shape
<1>3. \A r \in Rules : hits[r] \subseteq alive(tree) OBVIOUS
<1>4. 1 .. Cardinality(Rules) = Rules BY RuleAssumption
<1>5. ASSUME NEW s \in alive(tree) PROVE MarkOK(x.tree.mark[s], x.rules, s, spared)
  <2>1. MarkOK(tree.mark[s], rules, s, spared) /\ s \in PSN BY <1>2 DEF MarksOK
  <2>2. \A r \in Rules : r \in RulesThatMatched(x.rules, s) <=> s \in hits[r]
    <3> TAKE r \in Rules
    <3>1. pid_of[s] \in pids(hits[r]) <=> s \in hits[r]
      <4>1. ASSUME NEW c \in hits[r], pid_of[c] = pid_of[s] PROVE s \in hits[r]
        <5>1. PICK t : t = tree OBVIOUS
        <5>2. Shape(t) /\ c \in alive(t) /\ s \in alive(t) BY <1>3, <5>1 DEF Core
        <5> QED BY <4>1, <5>2, OnePid
      <4> QED BY <4>1 DEF pids
    <3> QED BY <1>1, <3>1 DEF RulesThatMatched
  <2>3. AppliedMark(tree, x.tree, hits, Cardinality(Rules), s) BY <1>1, <2>1
  <2>4. RulesThatMatched(x.rules, s) \subseteq Rules BY DEF RulesThatMatched
  <2>5. CASE tree.mark[s].manual
    <3>1. Marked(x.tree.mark[s], tree.mark[s].group, TRUE, FALSE) BY <2>3, <2>5 DEF AppliedMark
    <3> QED BY <2>1, <2>5, <3>1 DEF MarkOK, Marked
  <2>6. ASSUME NEW r \in Rules, s \in hits[r], Marked(x.tree.mark[s], RuleGroup[r], FALSE, TRUE)
        PROVE  MarkOK(x.tree.mark[s], x.rules, s, spared)
    <3>1. r \in RulesThatMatched(x.rules, s) BY <2>2, <2>6
    <3> QED BY <2>6, <3>1 DEF MarkOK, Marked
  <2>7. CASE /\ ~tree.mark[s].manual /\ \A r \in Rules : s \notin hits[r]
             /\ x.tree.mark[s] = IF tree.mark[s].auto THEN Unmarked ELSE tree.mark[s]
    <3>1. RulesThatMatched(x.rules, s) = {} BY <2>2, <2>4, <2>7
    <3>2. x.tree.mark[s] = Unmarked BY <2>1, <2>7 DEF MarkOK
    <3> QED BY <3>1, <3>2 DEF MarkOK, Unmarked
  <2> QED BY <1>4, <2>3, <2>5, <2>6, <2>7 DEF AppliedMark
<1>6. \A r \in Rules : x.rules[r].matched \subseteq pids(alive(tree)) BY <1>1, <1>3 DEF pids
<1> QED BY <1>2, <1>5, <1>6 DEF MarksOK

\* The marks of the next state are those a handler leaves.
LEMMA MarksMoved ==
  ASSUME NEW x, Moves(x), UNCHANGED pid_of, MarksOK(x.tree, x.rules, spared')
  PROVE  MarksOK(tree, rules, spared)'
<1>1. tree' = x.tree /\ rules' = x.rules BY DEF Moves, Becomes
<1>2. PICK u, rs, sp : u = x.tree /\ rs = x.rules /\ sp = spared' OBVIOUS
<1>3. tree' = u /\ rules' = rs /\ spared' = sp /\ MarksOK(u, rs, sp) BY <1>1, <1>2
<1> QED BY <1>3 DEF MarksOK, MarkOK, RulesThatMatched, pids, alive

\* Every step keeps the marks right.
LEMMA MarksNext ==
  ASSUME Core, MarksOK(tree, rules, spared), [Next]_vars
  PROVE  MarksOK(tree, rules, spared)'
<1>1. Kernel /\ ConsumerTypeOK /\ Shape(tree) /\ state \in Managed BY DEF Core
<1>2. CASE KernelStep
  <2>1. UNCHANGED <<consumerVars, tree, rules, spared>> BY <1>2 DEF KernelStep, managerVars
  <2>2. \A x \in 1 .. born : pid_of'[x] = pid_of[x]
    <3>1. ASSUME NEW s \in PSN, NEW p \in Pids, NEW parent \in 0 .. MaxPsn, Spawn(s, p, parent)
          PROVE  \A x \in 1 .. born : pid_of'[x] = pid_of[x]
      BY <1>1, <2>1, <3>1, SpawnKernel
    <3>2. ASSUME NEW s \in PSN, Exit(s) \/ EnumerateNext(s)
          PROVE  \A x \in 1 .. born : pid_of'[x] = pid_of[x]
      BY <1>1, <2>1, <3>2, ExitKernel
    <3> QED BY <1>2, <3>1, <3>2 DEF KernelStep
  <2>3. \A s \in alive(tree) : pid_of'[s] = pid_of[s] BY <1>1, <2>2 DEF Shape
  <2>4. alive(tree)' = alive(tree) BY <2>1 DEF alive
  <2>5. \A r \in Rules : rules'[r].matched \subseteq {pid_of'[s] : s \in alive(tree)}
    BY <2>1, <2>3 DEF MarksOK, pids
  <2>6. ASSUME NEW s \in alive(tree) PROVE MarkOK(tree.mark[s], rules, s, spared)'
    <3>1. MarkOK(tree.mark[s], rules, s, spared) BY DEF MarksOK
    <3>2. RulesThatMatched(rules, s)' = RulesThatMatched(rules, s)
      BY <2>1, <2>3 DEF RulesThatMatched
    <3> QED BY <2>1, <3>1, <3>2 DEF MarkOK
  <2> QED BY <2>4, <2>5, <2>6 DEF MarksOK, pids
<1>3. CASE UNCHANGED <<tree, rules, spared, pid_of>>
  BY <1>3 DEF MarksOK, MarkOK, RulesThatMatched, pids, alive
<1>4. CASE HandleStart
  <2>1. PICK x : /\ Moves(x) /\ Head(etw).psn \in 1 .. born
                 /\ Handled(state, Head(etw).psn, parent_pid_of(Head(etw).psn),
                            parent_of[Head(etw).psn], x)
    BY <1>4, HandleStartMoves
  <2>2. PICK m, s, a, b, sp : /\ m = state /\ s = Head(etw).psn /\ a = parent_pid_of(Head(etw).psn)
                              /\ b = parent_of[Head(etw).psn] /\ sp = spared
    OBVIOUS
  <2>3. spared' = spared /\ UNCHANGED pid_of
    BY <1>4 DEF HandleStart, event_record_callback, bornVars
  <2>4. MarksOK(m.tree, m.rules, sp) /\ m \in Managed /\ Shape(m.tree)
    BY <1>1, <2>2, StateParts
  <2>5. x \in Managed /\ Shape(x.tree) /\ s \in 1 .. born /\ Handled(m, s, a, b, x)
    BY <2>1, <2>2 DEF Moves
  <2>6. MarksOK(x.tree, x.rules, sp) BY <1>1, <2>4, <2>5, MarksHandled
  <2> QED BY <2>1, <2>2, <2>3, <2>6, MarksMoved
<1>5. CASE HandleStop
  <2>1. PICK x : Moves(x) /\ Head(etw).psn \in 1 .. born /\ Stopped(Head(etw).psn, x)
    BY <1>5, HandleStopMoves
  <2>2. MarksOK(x.tree, x.rules, spared) BY <2>1, MarksStopped
  <2>3. spared' = spared /\ UNCHANGED pid_of
    BY <1>5 DEF HandleStop, event_record_callback, bornVars
  <2> QED BY <2>1, <2>2, <2>3, MarksMoved
<1>6. CASE GraceTimer
  <2>1. PICK x : Moves(x) /\ Rooted(x) BY <1>6, GraceTimerMoves
  <2>2. spared' = spared /\ UNCHANGED pid_of
    BY <1>6 DEF GraceTimer, processVars, bornVars
  <2>3. MarksOK(x.tree, x.rules, spared) BY <2>1 DEF Rooted, MarksOK
  <2> QED BY <2>1, <2>2, <2>3, MarksMoved
<1>7. ASSUME NEW p \in Pids, Connect(p) PROVE MarksOK(tree, rules, spared)'
  <2> DEFINE S == {y \in Managed : Shape(y.tree) /\ MarksOK(y.tree, y.rules, spared)}
  <2>1. state \in S BY <1>1, StateParts
  <2>2. \A c : IsChain(tree, c) /\ c = chain_from(tree, opened(p)) =>
          \A k \in 1 .. Len(c) : \A y \in S : \A x \in Managed :
            Shape(x.tree) /\ ChainStep(tree, c, k, y, x) => x \in S
    <3>1. ASSUME NEW c, IsChain(tree, c), NEW k \in 1 .. Len(c), NEW y \in S, NEW x \in Managed,
                 Shape(x.tree), ChainStep(tree, c, k, y, x)
          PROVE  x \in S
      <4>1. c[k] \in 1 .. born BY <1>1, <3>1, ChainElement
      <4>2. PICK s, a, b, sp : /\ s = c[k] /\ a = parent_pid_of(c[k]) /\ b = chain_parent(tree, c, k)
                               /\ sp = spared
        OBVIOUS
      <4>3. Handled(y, s, a, b, x) BY <3>1, <4>2 DEF ChainStep
      <4>4. MarksOK(y.tree, y.rules, sp) /\ Shape(y.tree) /\ y \in Managed BY <4>2
      <4>5. MarksOK(x.tree, x.rules, sp) BY <1>1, <3>1, <4>1, <4>2, <4>3, <4>4, MarksHandled
      <4> QED BY <3>1, <4>2, <4>5
    <3> QED BY <3>1
  <2>3. \A y \in S : y \in Managed /\ Shape(y.tree) OBVIOUS
  <2>4. spared' = spared /\ UNCHANGED pid_of BY <1>7 DEF Connect, processVars, bornVars
  <2> HIDE DEF S
  <2>5. PICK x \in S : Moves(x) BY <1>7, <2>1, <2>2, <2>3, ConnectMoves
  <2>6. MarksOK(x.tree, x.rules, spared) BY <2>5 DEF S
  <2> QED BY <2>4, <2>5, <2>6, MarksMoved
<1>8. CASE UserCommand
  <2>1. PICK x : Moves(x) /\ Commanded(x) BY <1>8, UserCommandMoves
  <2>2. MarksOK(x.tree, x.rules, spared') BY <2>1, MarksCommanded
  <2>3. UNCHANGED pid_of BY <1>8 DEF UserCommand, Hijack, Unhijack, processVars, bornVars
  <2> QED BY <2>1, <2>2, <2>3, MarksMoved
<1>9. ASSUME NEW n \in snapshots, ApplyConfig(n) PROVE MarksOK(tree, rules, spared)'
  <2>1. PICK x : Moves(x) /\ SameLinks(tree, x.tree) /\ Applied(tree, n.after, x)
    BY <1>9, ApplyConfigMoves
  <2>2. MarksOK(x.tree, x.rules, spared) BY <2>1, MarksApplied DEF Moves
  <2>3. spared' = spared /\ UNCHANGED pid_of BY <1>9 DEF ApplyConfig, processVars, bornVars
  <2> QED BY <2>1, <2>2, <2>3, MarksMoved
<1>10. CASE \/ UNCHANGED vars \/ ConsumerStep \/ Start \/ RequestRundown \/ HandleLost \/ LostTimer
            \/ RuleCommand /\ ~\E n \in snapshots : ApplyConfig(n)
  BY <1>3, <1>10
     DEF vars, processVars, bornVars, managerVars, ConsumerStep, buffer_callback, Start, start,
         RequestRundown, request_rundown, HandleLost, event_record_callback, LostTimer,
         RuleCommand, UpdateRule, ExcludePid, UnexcludePid, MutateRules
<1> QED BY <1>2, <1>4, <1>5, <1>6, <1>7, <1>8, <1>9, <1>10 DEF Next, HandleEvent, Timers, RuleCommand

\* A process is marked by the user's hijack or else by a rule that says it matched
\* it, whichever of their PIDs have changed hands, and the rules remember only PIDs
\* the tree has: for any rules, any processes and any delay of their events.
THEOREM MarksCorrect == Spec => []MarkHasReason
<1>1. Init => MarksOK(tree, rules, spared)
  <2> SUFFICES ASSUME Init PROVE MarksOK(tree, rules, spared) OBVIOUS
  <2>1. tree.entries = <<>> /\ \A r \in Rules : rules[r].matched = {}
    BY DEF Init, EmptyTree, InitialRules
  <2>2. alive(tree) = {} BY <2>1 DEF alive
  <2> QED BY <2>1, <2>2 DEF MarksOK
<1>2. MarksOK(tree, rules, spared) => MarkHasReason
  <2>1. \A s : MatchedBy(s) = RulesThatMatched(rules, s) BY DEF MatchedBy, RulesThatMatched
  <2> QED BY <2>1 DEF MarksOK, MarkOK, MarkHasReason
<1> QED BY <1>1, <1>2, MarksNext, CoreInvariant, PTL DEF Spec

-----------------------------------------------------------------------------
\* Ancestors.

AncestorsEq(w, par) ==
  w = [s \in 0 .. MaxPsn |-> IF s = NONE \/ par[s] = NONE THEN {} ELSE {par[s]} \cup w[par[s]]]

\* The recursive definition of ancestors has a solution: the least sets closed under
\* going to the parent.
LEMMA AncestorsExist ==
  ASSUME NEW par \in [PSN -> 0 .. MaxPsn]
  PROVE  AncestorsEq(CHOOSE w : AncestorsEq(w, par), par)
<1> DEFINE Closed(s, T) == \A q \in T \cup {s} : q \in PSN => par[q] \in T \cup {NONE}
           f == [s \in 0 .. MaxPsn |-> {q \in PSN : \A T \in SUBSET PSN : Closed(s, T) => q \in T}]
<1>1. MaxPsn \in Nat /\ PSN = (0 .. MaxPsn) \ {NONE} BY ProcessAssumption DEF PSN, NONE
<1>2. ASSUME NEW s \in 0 .. MaxPsn, s = NONE \/ par[s] = NONE PROVE f[s] = {}
  <2>1. Closed(s, {}) BY <1>1, <1>2
  <2>2. f[s] = {q \in PSN : \A T \in SUBSET PSN : Closed(s, T) => q \in T} OBVIOUS
  <2>3. {} \in SUBSET PSN OBVIOUS
  <2> HIDE DEF f, Closed
  <2> QED BY <2>1, <2>2, <2>3
<1>3. ASSUME NEW s \in 0 .. MaxPsn, s # NONE, par[s] # NONE PROVE f[s] = {par[s]} \cup f[par[s]]
  <2>1. s \in PSN /\ par[s] \in PSN /\ par[s] \in 0 .. MaxPsn BY <1>1, <1>3
  <2>2. PICK p : p = par[s] OBVIOUS
  <2>3. f[s] = {q \in PSN : \A T \in SUBSET PSN : Closed(s, T) => q \in T} OBVIOUS
  <2>4. f[p] = {q \in PSN : \A T \in SUBSET PSN : Closed(p, T) => q \in T} BY <2>1, <2>2
  <2>5. ASSUME NEW T \in SUBSET PSN, Closed(s, T) PROVE p \in T /\ Closed(p, T)
    <3>1. p \in T \cup {NONE} BY <2>1, <2>2, <2>5
    <3>2. p \in T BY <3>1, <2>2, <1>3
    <3>3. \A q \in T : q \in PSN => par[q] \in T \cup {NONE} BY <2>5
    <3>4. Closed(p, T) BY <3>2, <3>3
    <3> QED BY <3>2, <3>4
  <2>6. ASSUME NEW T \in SUBSET PSN, Closed(p, T) PROVE Closed(s, T \cup {p})
    BY <2>1, <2>2, <2>6
  <2> HIDE DEF f, Closed
  <2>7. ASSUME NEW q \in f[s], q # p PROVE q \in f[p]
    <3>1. ASSUME NEW T \in SUBSET PSN, Closed(p, T) PROVE q \in T
      <4>1. T \cup {p} \in SUBSET PSN BY <2>1, <2>2
      <4>2. q \in T \cup {p} BY <4>1, <2>3, <2>6, <2>7, <3>1
      <4> QED BY <4>2, <2>7
    <3> QED BY <2>3, <2>4, <2>7, <3>1
  <2>8. ASSUME NEW q \in f[p] PROVE q \in f[s]
    <3>1. ASSUME NEW T \in SUBSET PSN, Closed(s, T) PROVE q \in T BY <2>4, <2>5, <2>8, <3>1
    <3> QED BY <2>3, <2>4, <2>8, <3>1
  <2>9. p \in f[s] BY <2>1, <2>2, <2>3, <2>5
  <2> QED BY <2>2, <2>7, <2>8, <2>9
<1>4. AncestorsEq(f, par)
  <2>1. ASSUME NEW s \in 0 .. MaxPsn
        PROVE  f[s] = IF s = NONE \/ par[s] = NONE THEN {} ELSE {par[s]} \cup f[par[s]]
    <3> HIDE DEF f
    <3> QED BY <1>2, <1>3
  <2>2. f = [s \in 0 .. MaxPsn |-> f[s]] OBVIOUS
  <2> HIDE DEF f
  <2> QED BY <2>1, <2>2 DEF AncestorsEq
<1> HIDE DEF f
<1> QED BY <1>4

\* What the equation says of a solution.
AncestorsAt(w, par, s) ==
  /\ s = NONE \/ par[s] = NONE => w[s] = {}
  /\ s # NONE /\ par[s] # NONE => w[s] = {par[s]} \cup w[par[s]]

\* What the equation says of the ancestors of s.
LEMMA AncestorsValue ==
  ASSUME NEW w, NEW par, AncestorsEq(w, par), NEW s \in 0 .. MaxPsn PROVE AncestorsAt(w, par, s)
BY DEF AncestorsEq, AncestorsAt

\* A set of numbers that is not empty has a least one.
LEMMA LeastNumber ==
  ASSUME NEW S \in SUBSET Nat, S # {} PROVE \E x \in S : \A y \in S : x <= y
<1> DEFINE R == {ss \in Nat \X Nat : ss[1] < ss[2]}
<1>1. IsWellFoundedOn(R, Nat) BY NatWF
<1> HIDE DEF R
<1>2. PICK x \in S : \A y \in S : ~(<<y, x>> \in R) BY <1>1, WFMin
<1>3. \A y \in S : x <= y
  <2> TAKE y \in S
  <2>1. x \in Nat /\ y \in Nat OBVIOUS
  <2>2. ~(y < x) BY <1>2, <2>1 DEF R
  <2> QED BY <2>1, <2>2
<1> QED BY <1>3

\* Of processes up to b, whose parents are older: ancestors are older, an ancestor's
\* ancestors are among them, ...
Older(w, b) ==
  \A s \in 1 .. b : \A q \in w[s] : q \in 1 .. b /\ q < s /\ w[q] \subseteq w[s]

\* (By the least process that is not as said.)
LEMMA AncestorsOlder ==
  ASSUME NEW b \in 0 .. MaxPsn, NEW par \in [PSN -> 0 .. MaxPsn],
         \A s \in 1 .. b : par[s] < s, NEW w, AncestorsEq(w, par)
  PROVE  Older(w, b)
<1> DEFINE Good(s) == \A q \in w[s] : q \in 1 .. b /\ q < s /\ w[q] \subseteq w[s]
           Bad == {s \in 1 .. b : ~Good(s)}
<1>1. MaxPsn \in Nat /\ \A s \in 1 .. b : s \in PSN /\ s \in 0 .. MaxPsn /\ s # NONE /\ s \in Nat
  BY ProcessAssumption DEF PSN, NONE
<1>2. ASSUME NEW s \in 1 .. b, \A y \in 1 .. b : y < s => Good(y) PROVE Good(s)
  <2>1. PICK p : p = par[s] OBVIOUS
  <2>2. p \in 0 .. MaxPsn /\ p < s BY <1>1, <2>1
  <2>5. AncestorsAt(w, par, s) BY <1>1, AncestorsValue
  <2>3. CASE p = NONE
    <3>1. w[s] = {} BY <2>5, <2>1, <2>3 DEF AncestorsAt
    <3> QED BY <3>1
  <2>4. CASE p # NONE
    <3>1. w[s] = {p} \cup w[p] BY <1>1, <2>5, <2>1, <2>4 DEF AncestorsAt
    <3>2. p \in 1 .. b BY <1>1, <2>2, <2>4 DEF NONE
    <3>3. Good(p) BY <1>2, <2>2, <3>2
    <3>4. ASSUME NEW q \in w[s] PROVE q \in 1 .. b /\ q < s /\ w[q] \subseteq w[s]
      <4>1. CASE q = p BY <4>1, <2>2, <3>1, <3>2
      <4>2. CASE q \in w[p]
        <5>1. q \in 1 .. b /\ q < p /\ w[q] \subseteq w[p] BY <4>2, <3>3
        <5> QED BY <5>1, <2>2, <3>1
      <4> QED BY <3>1, <4>1, <4>2
    <3> QED BY <3>4
  <2> QED BY <2>3, <2>4
<1> HIDE DEF Good
<1>3. Bad = {}
  <2> SUFFICES ASSUME Bad # {} PROVE FALSE OBVIOUS
  <2>1. Bad \in SUBSET Nat BY <1>1
  <2>2. PICK x \in Bad : \A y \in Bad : x <= y BY <2>1, LeastNumber
  <2>3. x \in 1 .. b /\ ~Good(x) OBVIOUS
  <2>4. ASSUME NEW y \in 1 .. b, y < x PROVE Good(y)
    <3>1. x \in Nat /\ y \in Nat BY <1>1, <2>3
    <3>2. ~(x <= y) BY <3>1, <2>4
    <3> QED BY <2>2, <3>2
  <2> QED BY <1>2, <2>3, <2>4
<1> QED BY <1>3 DEF Older, Good

\* ... and those of a process do not change when others start.
LEMMA AncestorsStay ==
  ASSUME NEW b \in 0 .. MaxPsn, NEW par \in [PSN -> 0 .. MaxPsn], NEW par2 \in [PSN -> 0 .. MaxPsn],
         \A s \in 1 .. b : par[s] < s /\ par2[s] = par[s],
         NEW w, AncestorsEq(w, par), NEW w2, AncestorsEq(w2, par2)
  PROVE  \A s \in 1 .. b : w2[s] = w[s]
<1> DEFINE Bad == {s \in 1 .. b : w2[s] # w[s]}
<1>1. MaxPsn \in Nat /\ \A s \in 1 .. b : s \in PSN /\ s \in 0 .. MaxPsn /\ s # NONE /\ s \in Nat
  BY ProcessAssumption DEF PSN, NONE
<1>2. ASSUME NEW s \in 1 .. b, \A y \in 1 .. b : y < s => w2[y] = w[y] PROVE w2[s] = w[s]
  <2>1. PICK p : p = par[s] OBVIOUS
  <2>2. p \in 0 .. MaxPsn /\ p < s /\ par2[s] = p BY <1>1, <2>1
  <2>3. AncestorsAt(w, par, s) /\ AncestorsAt(w2, par2, s) BY <1>1, AncestorsValue
  <2>4. CASE p = NONE BY <2>1, <2>2, <2>3, <2>4 DEF AncestorsAt
  <2>5. CASE p # NONE
    <3>1. p \in 1 .. b BY <1>1, <2>2, <2>5 DEF NONE
    <3>2. w2[p] = w[p] BY <1>2, <2>2, <3>1
    <3> QED BY <1>1, <2>1, <2>2, <2>3, <2>5, <3>2 DEF AncestorsAt
  <2> QED BY <2>4, <2>5
<1>3. Bad = {}
  <2> SUFFICES ASSUME Bad # {} PROVE FALSE OBVIOUS
  <2>1. Bad \in SUBSET Nat BY <1>1
  <2>2. PICK x \in Bad : \A y \in Bad : x <= y BY <2>1, LeastNumber
  <2>3. x \in 1 .. b /\ w2[x] # w[x] OBVIOUS
  <2>4. ASSUME NEW y \in 1 .. b, y < x PROVE w2[y] = w[y]
    <3>1. x \in Nat /\ y \in Nat BY <1>1, <2>3
    <3>2. ~(x <= y) BY <3>1, <2>4
    <3> QED BY <2>2, <3>2
  <2> QED BY <1>2, <2>3, <2>4
<1> QED BY <1>3

\* So for the processes that were ever started.
LEMMA AncestorsOf ==
  ASSUME Kernel
  PROVE  /\ Older(ancestors, born)
         /\ \A s \in 1 .. born : parent_of[s] # NONE => parent_of[s] \in ancestors[s]
<1>1. parent_of \in [PSN -> 0 .. MaxPsn] /\ born \in 0 .. MaxPsn
      /\ \A s \in 1 .. born : parent_of[s] < s
  BY DEF Kernel, ProcessesTypeOK
<1>2. ancestors = CHOOSE w : AncestorsEq(w, parent_of) BY DEF ancestors, AncestorsEq
<1>3. AncestorsEq(ancestors, parent_of) BY <1>1, <1>2, AncestorsExist
<1>4. PICK w : w = ancestors OBVIOUS
<1>5. Older(w, born) BY <1>1, <1>3, <1>4, AncestorsOlder
<1>6. ASSUME NEW s \in 1 .. born, parent_of[s] # NONE PROVE parent_of[s] \in w[s]
  <2>1. s \in 0 .. MaxPsn /\ s # NONE BY <1>1, ProcessAssumption DEF NONE
  <2>2. AncestorsAt(w, parent_of, s) BY <1>3, <1>4, <2>1, AncestorsValue
  <2> QED BY <1>6, <2>1, <2>2 DEF AncestorsAt
<1> QED BY <1>4, <1>5, <1>6

\* A step that starts a process or none leaves the others their ancestors.
LEMMA AncestorsNext ==
  ASSUME Kernel, Kernel', \A s \in 1 .. born : parent_of'[s] = parent_of[s]
  PROVE  \A s \in 1 .. born : ancestors'[s] = ancestors[s]
<1>1. /\ parent_of \in [PSN -> 0 .. MaxPsn] /\ parent_of' \in [PSN -> 0 .. MaxPsn]
      /\ born \in 0 .. MaxPsn /\ \A s \in 1 .. born : parent_of[s] < s
  BY DEF Kernel, ProcessesTypeOK
<1>2. ancestors = CHOOSE w : AncestorsEq(w, parent_of) BY DEF ancestors, AncestorsEq
<1>3. ancestors' = CHOOSE w : AncestorsEq(w, parent_of') BY DEF ancestors, AncestorsEq
<1>4. AncestorsEq(ancestors, parent_of) BY <1>1, <1>2, AncestorsExist
<1>5. PICK w, w2, par, par2, b : /\ w = ancestors /\ w2 = ancestors' /\ par = parent_of
                                 /\ par2 = parent_of' /\ b = born
  OBVIOUS
<1>6. AncestorsEq(w2, par2)
  <2>1. w2 = CHOOSE v : AncestorsEq(v, par2) BY <1>3, <1>5
  <2>2. par2 \in [PSN -> 0 .. MaxPsn] BY <1>1, <1>5
  <2> QED BY <2>1, <2>2, AncestorsExist
<1>7. AncestorsEq(w, par) BY <1>4, <1>5
<1>8. \A s \in 1 .. b : par[s] < s /\ par2[s] = par[s] BY <1>1, <1>5
<1>9. b \in 0 .. MaxPsn /\ par \in [PSN -> 0 .. MaxPsn] /\ par2 \in [PSN -> 0 .. MaxPsn] BY <1>1, <1>5
<1>10. \A s \in 1 .. b : w2[s] = w[s] BY <1>6, <1>7, <1>8, <1>9, AncestorsStay
<1> QED BY <1>5, <1>10

-----------------------------------------------------------------------------
\* Links and facts.

\* A parent PSN is an ancestor's and comes with its PID, a link is what the facts
\* say, and a waiting orphan is where it was left, with its facts and without a link.
FactsOK(t) ==
  \A c \in alive(t) :
    /\ t.parent_psn[c] \in {NONE} \cup ancestors[c]
    /\ t.parent_psn[c] # NONE => t.parent_pid[c] = pid_of[t.parent_psn[c]]
    /\ t.parent[c] # NONE => t.parent[c] \in alive(t) /\ t.parent[c] = t.parent_psn[c]
OrphansOK(t, os) ==
  \A o \in os :
    /\ o[2] \in 1 .. Len(t.entries)
    /\ t.entries[o[2]] # NONE =>
         t.parent_psn[t.entries[o[2]]] = o[1] /\ t.parent[t.entries[o[2]]] = NONE
LinksOK(m) == FactsOK(m.tree) /\ OrphansOK(m.tree, m.orphans)

\* A parent is older than its child, and what is a child of d has d in its facts.
LEMMA LinkOlder ==
  ASSUME Kernel, NEW t, Shape(t), FactsOK(t), NEW c \in alive(t)
  PROVE  /\ c \in 1 .. born /\ c \in PSN
         /\ t.parent_psn[c] # NONE =>
              /\ t.parent_psn[c] \in 1 .. born /\ t.parent_psn[c] < c
              /\ t.parent_psn[c] \in ancestors[c]
              /\ ancestors[t.parent_psn[c]] \subseteq ancestors[c]
<1>1. c \in 1 .. born /\ c \in PSN
  BY ProcessAssumption DEF Shape, Kernel, ProcessesTypeOK, PSN
<1>2. t.parent_psn[c] # NONE => t.parent_psn[c] \in ancestors[c] BY DEF FactsOK
<1>3. \A q \in ancestors[c] : q \in 1 .. born /\ q < c /\ ancestors[q] \subseteq ancestors[c]
  BY <1>1, AncestorsOf DEF Older
<1> QED BY <1>1, <1>2, <1>3

\* What the insertion of s makes of the facts and the link of c.
LEMMA InsertedFacts ==
  ASSUME Kernel, NEW t, Shape(t), NEW s, NEW ppid, NEW ppsn, NEW u, Added(t, s, ppid, ppsn, u),
         NEW d, d = Displaced(t, s), NEW c \in PSN, c # s, c # d
  PROVE  /\ c \notin Heirs(t, d) =>
              u.parent_psn[c] = t.parent_psn[c] /\ u.parent_pid[c] = t.parent_pid[c]
         /\ c \in Heirs(t, d) =>
              u.parent_psn[c] = t.parent[d] /\ u.parent_pid[c] = pidOf(t.parent[d])
BY DEF Added

\* Who is adopted by s waited for it, without a parent.
LEMMA AdoptedWaited ==
  ASSUME Kernel, NEW m \in Managed, Shape(m.tree), LinksOK(m), NEW s \in 1 .. born,
         NEW ppid, NEW ppsn \in {NONE, parent_of[s]}, s \notin alive(m.tree),
         NEW x, Shape(x.tree), Insertion(m, s, ppid, ppsn, x),
         NEW c \in Adopted(x.tree, WithOrphan(m, s, ppid, ppsn), s)
  PROVE  /\ c \in alive(m.tree) /\ c # Displaced(m.tree, s)
         /\ m.tree.parent_psn[c] = s /\ m.tree.parent[c] = NONE
<1>1. PICK t, u, d, n, W :
        /\ t = m.tree /\ u = x.tree /\ d = Displaced(t, s)
        /\ n = Len(t.entries) /\ W = WithOrphan(m, s, ppid, ppsn)
  OBVIOUS
<1>2. OrphansOK(t, m.orphans) /\ Shape(t) /\ Shape(u) BY <1>1 DEF LinksOK
<1>3. PICK o \in W : o[1] = s /\ o[2] \in DOMAIN u.entries /\ u.entries[o[2]] = c /\ c # NONE
  BY <1>1 DEF Adopted
<1>4. W = m.orphans \cup IF ppsn = NONE \/ Linkable(t, s, ppid, ppsn) THEN {} ELSE {<<ppsn, n + 1>>}
  BY <1>1 DEF WithOrphan
<1>5. ppsn # NONE => ppsn < s
  <2>1. \A a \in ancestors[s] : a < s BY AncestorsOf DEF Older
  <2> QED BY <2>1, AncestorsOf
<1>6. o \in m.orphans
  <2>1. ASSUME ppsn # NONE, o = <<ppsn, n + 1>> PROVE FALSE
    <3>1. ppsn = s BY <1>3, <2>1
    <3>2. born \in Nat BY DEF Kernel, ProcessesTypeOK
    <3> QED BY <1>5, <2>1, <3>1, <3>2
  <2> QED BY <1>4, <2>1
<1>7. o[2] \in 1 .. n /\ (t.entries[o[2]] # NONE =>
        t.parent_psn[t.entries[o[2]]] = o[1] /\ t.parent[t.entries[o[2]]] = NONE)
  BY <1>1, <1>2, <1>6 DEF OrphansOK
<1>8. \A k \in 1 .. n : u.entries[k] = IF t.entries[k] = d THEN NONE ELSE t.entries[k]
  BY <1>1 DEF Insertion, Added
<1>9. t.entries[o[2]] = c /\ c # d BY <1>3, <1>7, <1>8
<1>10. DOMAIN t.entries = 1 .. n BY <1>1, <1>2, AliveAt DEF Shape
<1>11. c \in alive(t) BY <1>3, <1>7, <1>9, <1>10 DEF alive
<1> QED BY <1>1, <1>3, <1>7, <1>9, <1>11

\* The insertion of a process that is told of its parent or of none keeps them right.
LEMMA LinksHandled ==
  ASSUME Kernel, NEW m \in Managed, Shape(m.tree), LinksOK(m), NEW s \in 1 .. born,
         NEW ppid, ppid = parent_pid_of(s), NEW ppsn \in {NONE, parent_of[s]},
         NEW x \in Managed, Shape(x.tree), Handled(m, s, ppid, ppsn, x)
  PROVE  LinksOK(x)
<1>1. CASE x = m BY <1>1
<1>2. CASE s \notin alive(m.tree) /\ Insertion(m, s, ppid, ppsn, x)
  <2>1. PICK t, u, d, p, n, W :
          /\ t = m.tree /\ u = x.tree /\ d = Displaced(t, s) /\ p = pid_of[s]
          /\ n = Len(t.entries) /\ W = WithOrphan(m, s, ppid, ppsn)
    OBVIOUS
  <2>2. /\ s \in PSN /\ p \in Pids /\ d = t.side_map[p]
        /\ d # NONE => d \in alive(t) /\ d \in PSN /\ pid_of[d] = p
    BY <2>1, DisplacedAlive
  <2>3. /\ Shape(t) /\ FactsOK(t) /\ OrphansOK(t, m.orphans) /\ Shape(u)
        /\ t \in TreeSet /\ u \in TreeSet
    BY <2>1 DEF LinksOK, Managed
  <2>4. Added(t, s, ppid, ppsn, u) /\ s \notin alive(t) BY <1>2, <2>1 DEF Insertion
  <2>5. /\ alive(u) = (alive(t) \ {d}) \cup {s}
        /\ Len(u.entries) = n + 1 /\ u.entries[n + 1] = s
        /\ \A k \in 1 .. n : u.entries[k] = IF t.entries[k] = d THEN NONE ELSE t.entries[k]
        /\ u.parent_psn[s] = ppsn /\ u.parent_pid[s] = ppid
    <3>1. /\ alive(u) = (alive(t) \ {d}) \cup {s}
          /\ Len(u.entries) = n + 1 /\ u.entries[n + 1] = s
          /\ \A k \in 1 .. n : u.entries[k] = IF t.entries[k] = d THEN NONE ELSE t.entries[k]
      BY <2>1, <2>4 DEF Added
    <3>2. u.parent_psn[s] = ppsn /\ u.parent_pid[s] = ppid BY <2>2, <2>4 DEF Added
    <3> QED BY <3>1, <3>2
  <2>6. n \in Nat /\ alive(t) \subseteq PSN /\ alive(u) \subseteq PSN
        /\ DOMAIN u.entries = 1 .. n + 1 /\ DOMAIN t.entries = 1 .. n
    BY <2>1, <2>3, <2>5, AliveAt
  <2>7. s # NONE /\ s # d BY <2>2, <2>4 DEF PSN, NONE
  <2>8. ppsn # NONE => ppsn \in ancestors[s] /\ ppsn \in 1 .. born /\ ppsn < s /\ ppid = pid_of[ppsn]
    <3>1. ASSUME ppsn # NONE PROVE ppsn \in ancestors[s] /\ ppid = pid_of[ppsn]
      <4>1. ppsn = parent_of[s] BY <3>1
      <4> QED BY <3>1, <4>1, AncestorsOf DEF parent_pid_of, pidOf
    <3> QED BY <3>1, AncestorsOf DEF Older
  <2>9. W = m.orphans \cup IF ppsn = NONE \/ Linkable(t, s, ppid, ppsn) THEN {} ELSE {<<ppsn, n + 1>>}
    BY <2>1 DEF WithOrphan
  <2>10. x.orphans = {o \in W : o[1] # s} BY <1>2, <2>1 DEF Insertion
  <2>11. \A c \in PSN : u.parent[c] = IF c \in Adopted(u, W, s) THEN s
                                      ELSE IF c = s THEN (IF Linkable(t, s, ppid, ppsn) THEN ppsn ELSE NONE)
                                      ELSE BaseLink(t, s, c)
    BY <1>2, <2>1 DEF Insertion, NewLink
  \* Who is adopted waited for s.
  <2>12. ASSUME NEW c \in Adopted(u, W, s)
         PROVE  c \in alive(t) /\ c # d /\ c # s /\ t.parent_psn[c] = s /\ t.parent[c] = NONE
    <3>1. c \in Adopted(u, WithOrphan(m, s, ppid, ppsn), s) BY <2>1
    <3>2. c \in alive(t) /\ c # d /\ t.parent_psn[c] = s /\ t.parent[c] = NONE
      BY <1>2, <2>1, <3>1, AdoptedWaited
    <3> QED BY <2>4, <3>2
  \* The heirs of d.
  <2>13. ASSUME NEW c \in Heirs(t, d)
         PROVE  /\ c \in alive(t) /\ c # d /\ c # s /\ d # NONE /\ t.parent[c] = d
                /\ c \notin Adopted(u, W, s)
                /\ t.parent[d] # NONE =>
                     /\ t.parent[d] \in alive(u) /\ t.parent[d] # d
                     /\ t.parent[d] \in ancestors[c]
    <3>1. d # NONE /\ c \in alive(t) /\ t.parent[c] = d BY DEF Heirs, children
    <3>2. d \in alive(t) BY <2>2, <3>1
    <3>3. t.parent_psn[c] = d BY <2>3, <3>1 DEF FactsOK
    <3>4. d < c /\ d \in ancestors[c] /\ ancestors[d] \subseteq ancestors[c] /\ c \in 1 .. born
      BY <2>3, <3>1, <3>3, LinkOlder
    <3>5. c # d
      <4>1. born \in Nat BY DEF Kernel, ProcessesTypeOK
      <4> QED BY <3>4, <4>1
    <3>6. ASSUME t.parent[d] # NONE
          PROVE  t.parent[d] \in alive(u) /\ t.parent[d] # d /\ t.parent[d] \in ancestors[c]
      <4>1. t.parent[d] \in alive(t) /\ t.parent[d] = t.parent_psn[d]
        BY <2>3, <3>2, <3>6 DEF FactsOK
      <4>2. t.parent_psn[d] < d /\ t.parent_psn[d] \in ancestors[d] /\ d \in 1 .. born
        BY <2>3, <3>2, <3>6, <4>1, LinkOlder
      <4>3. t.parent[d] # d
        <5>1. born \in Nat BY DEF Kernel, ProcessesTypeOK
        <5> QED BY <4>1, <4>2, <5>1
      <4> QED BY <2>5, <3>4, <4>1, <4>2, <4>3
    <3> QED BY <2>4, <2>12, <3>1, <3>5, <3>6
  <2>14. FactsOK(u)
    <3>1. ASSUME NEW c \in alive(u)
          PROVE  /\ u.parent_psn[c] \in {NONE} \cup ancestors[c]
                 /\ u.parent_psn[c] # NONE => u.parent_pid[c] = pid_of[u.parent_psn[c]]
                 /\ u.parent[c] # NONE => u.parent[c] \in alive(u) /\ u.parent[c] = u.parent_psn[c]
      <4>1. c \in PSN BY <2>6
      <4>2. CASE c = s
        <5>1. c \notin Adopted(u, W, s) BY <2>12, <4>2
        <5>2. u.parent[c] = IF Linkable(t, s, ppid, ppsn) THEN ppsn ELSE NONE
          BY <2>11, <4>1, <4>2, <5>1
        <5>3. ASSUME Linkable(t, s, ppid, ppsn) PROVE ppsn \in alive(u)
          <6>1. ppsn # NONE /\ ppid \in Pids /\ (ppid # p => ppsn = t.side_map[ppid])
                /\ (ppid = p => ppsn = s)
            BY <2>1, <5>3 DEF Linkable
          <6>2. ppid # p
            <7>1. ppsn # s BY <2>8, <6>1
            <7> QED BY <6>1, <7>1
          <6>3. ppsn \in alive(t) /\ pid_of[ppsn] = ppid BY <2>3, <6>1, <6>2 DEF Shape
          <6>4. ppsn # d BY <2>2, <6>1, <6>2, <6>3
          <6> QED BY <2>5, <6>3, <6>4
        <5> QED BY <2>5, <2>8, <4>2, <5>2, <5>3
      <4>3. CASE c # s /\ c \in Heirs(t, d)
        <5>1. c # d BY <2>13, <4>3
        <5>2. u.parent_psn[c] = t.parent[d] /\ u.parent_pid[c] = pidOf(t.parent[d])
          BY <2>1, <2>3, <2>4, <4>1, <4>3, <5>1, InsertedFacts
        <5>3. u.parent[c] = t.parent[d] BY <2>1, <2>11, <2>13, <4>1, <4>3 DEF BaseLink
        <5> QED BY <2>13, <4>3, <5>2, <5>3 DEF pidOf
      <4>4. CASE c # s /\ c \notin Heirs(t, d)
        <5>1. c \in alive(t) /\ c # d BY <2>5, <4>4
        <5>2. u.parent_psn[c] = t.parent_psn[c] /\ u.parent_pid[c] = t.parent_pid[c]
          BY <2>1, <2>3, <2>4, <4>1, <4>4, <5>1, InsertedFacts
        <5>3. /\ t.parent_psn[c] \in {NONE} \cup ancestors[c]
              /\ t.parent_psn[c] # NONE => t.parent_pid[c] = pid_of[t.parent_psn[c]]
              /\ t.parent[c] # NONE => t.parent[c] \in alive(t) /\ t.parent[c] = t.parent_psn[c]
          BY <2>3, <5>1 DEF FactsOK
        <5>4. CASE c \in Adopted(u, W, s)
          <6>1. u.parent[c] = s /\ t.parent_psn[c] = s BY <2>11, <2>12, <4>1, <5>4
          <6> QED BY <2>5, <5>2, <5>3, <6>1
        <5>5. CASE c \notin Adopted(u, W, s)
          <6>1. u.parent[c] = t.parent[c] BY <2>1, <2>11, <4>1, <4>4, <5>1, <5>5 DEF BaseLink
          <6>2. t.parent[c] = d => d = NONE BY <4>4, <5>1 DEF Heirs, children
          <6> QED BY <2>5, <5>2, <5>3, <6>1, <6>2
        <5> QED BY <5>4, <5>5
      <4> QED BY <4>2, <4>3, <4>4
    <3> QED BY <3>1 DEF FactsOK
  <2>15. OrphansOK(u, x.orphans)
    <3>1. ASSUME NEW o \in x.orphans
          PROVE  /\ o[2] \in 1 .. n + 1
                 /\ u.entries[o[2]] # NONE => u.parent_psn[u.entries[o[2]]] = o[1]
                                              /\ u.parent[u.entries[o[2]]] = NONE
      <4>1. o \in W /\ o[1] # s BY <2>10
      <4>2. CASE o \in m.orphans
        <5>1. o[2] \in 1 .. n /\ (t.entries[o[2]] # NONE =>
                t.parent_psn[t.entries[o[2]]] = o[1] /\ t.parent[t.entries[o[2]]] = NONE)
          BY <2>1, <2>3, <4>2 DEF OrphansOK
        <5>2. ASSUME u.entries[o[2]] # NONE
              PROVE  u.parent_psn[u.entries[o[2]]] = o[1] /\ u.parent[u.entries[o[2]]] = NONE
          <6>1. PICK c : c = t.entries[o[2]] OBVIOUS
          <6>2. u.entries[o[2]] = c /\ c # d /\ c # NONE BY <2>5, <5>1, <5>2, <6>1
          <6>3. c \in alive(t) /\ c \in PSN /\ c # s BY <2>4, <2>6, <5>1, <6>1, <6>2 DEF alive
          <6>4. t.parent_psn[c] = o[1] /\ t.parent[c] = NONE BY <5>1, <6>1, <6>2
          <6>5. c \notin Heirs(t, d) BY <2>13, <6>4
          <6>6. c \notin Adopted(u, W, s) BY <2>12, <4>1, <6>4
          <6>7. u.parent_psn[c] = t.parent_psn[c]
            BY <2>1, <2>3, <2>4, <6>2, <6>3, <6>5, InsertedFacts
          <6>8. u.parent[c] = NONE BY <2>1, <2>11, <6>2, <6>3, <6>4, <6>5, <6>6 DEF BaseLink
          <6> QED BY <6>2, <6>4, <6>7, <6>8
        <5>3. o[2] \in 1 .. n + 1 BY <2>6, <5>1
        <5> QED BY <5>2, <5>3
      <4>3. CASE o = <<ppsn, n + 1>> /\ ppsn # NONE /\ ~Linkable(t, s, ppid, ppsn)
        <5>1. o[1] = ppsn /\ o[2] = n + 1 /\ u.entries[o[2]] = s BY <2>5, <4>3
        <5>2. s \notin Adopted(u, W, s) BY <2>12
        <5>3. u.parent[s] = NONE BY <2>2, <2>11, <4>3, <5>2
        <5>4. n + 1 \in 1 .. n + 1 BY <2>6
        <5> QED BY <2>5, <5>1, <5>3, <5>4
      <4> QED BY <2>9, <4>1, <4>2, <4>3
    <3> QED BY <2>5, <3>1 DEF OrphansOK
  <2> QED BY <2>1, <2>14, <2>15 DEF LinksOK
<1> QED BY <1>1, <1>2 DEF Handled

\* A STOP keeps links and facts right, when no orphan waits.
LEMMA FactsRemoved ==
  ASSUME Kernel, NEW t, Shape(t), FactsOK(t), NEW s \in alive(t), NEW u, Shape(u), Removed(t, s, u)
  PROVE  FactsOK(u)
<1>1. /\ alive(u) = alive(t) \ {s}
      /\ \A c \in PSN : c # s =>
           /\ u.parent_psn[c] = IF c \in children(t, s) THEN t.parent[s] ELSE t.parent_psn[c]
           /\ u.parent_pid[c] = IF c \in children(t, s) THEN pidOf(t.parent[s]) ELSE t.parent_pid[c]
  BY DEF Removed
<1>2. alive(t) \subseteq PSN /\ born \in Nat BY AliveAt DEF Shape, Kernel, ProcessesTypeOK
<1>3. ASSUME NEW c \in alive(u)
      PROVE  /\ u.parent_psn[c] \in {NONE} \cup ancestors[c]
             /\ u.parent_psn[c] # NONE => u.parent_pid[c] = pid_of[u.parent_psn[c]]
             /\ u.parent[c] # NONE => u.parent[c] \in alive(u) /\ u.parent[c] = u.parent_psn[c]
  <2>1. c \in alive(t) /\ c # s /\ c \in PSN BY <1>1, <1>2
  <2>2. /\ t.parent_psn[c] \in {NONE} \cup ancestors[c]
        /\ t.parent_psn[c] # NONE => t.parent_pid[c] = pid_of[t.parent_psn[c]]
        /\ t.parent[c] # NONE => t.parent[c] \in alive(t) /\ t.parent[c] = t.parent_psn[c]
    BY <2>1 DEF FactsOK
  <2>3. ASSUME c \in children(t, s), t.parent[s] # NONE
        PROVE  t.parent[s] \in alive(u) /\ t.parent[s] \in ancestors[c]
    <3>1. t.parent[c] = s /\ t.parent_psn[c] = s /\ s # NONE BY <2>2, <2>3 DEF children, alive
    <3>2. ancestors[s] \subseteq ancestors[c] BY <2>1, <3>1, LinkOlder
    <3>3. t.parent[s] \in alive(t) /\ t.parent[s] = t.parent_psn[s] BY <2>3 DEF FactsOK
    <3>4. t.parent_psn[s] < s /\ t.parent_psn[s] \in ancestors[s] /\ s \in 1 .. born
      BY <2>3, <3>3, LinkOlder
    <3>5. t.parent[s] # s BY <1>2, <3>3, <3>4
    <3> QED BY <1>1, <3>2, <3>3, <3>4, <3>5
  <2>4. /\ u.parent_psn[c] \in {NONE} \cup ancestors[c]
        /\ u.parent_psn[c] # NONE => u.parent_pid[c] = pid_of[u.parent_psn[c]]
    <3>1. CASE c \in children(t, s)
      <4>1. u.parent_psn[c] = t.parent[s] /\ u.parent_pid[c] = pidOf(t.parent[s])
        BY <1>1, <2>1, <3>1
      <4> QED BY <2>3, <3>1, <4>1 DEF pidOf
    <3>2. CASE c \notin children(t, s) BY <1>1, <2>1, <2>2, <3>2
    <3> QED BY <3>1, <3>2
  <2>5. CASE u.parent[c] = IF c = s THEN NONE
                           ELSE IF c \in children(t, s) THEN t.parent[s] ELSE t.parent[c]
    <3>1. CASE c \in children(t, s)
      <4>1. u.parent_psn[c] = t.parent[s] /\ u.parent[c] = t.parent[s] BY <1>1, <2>1, <2>5, <3>1
      <4> QED BY <2>3, <2>4, <3>1, <4>1
    <3>2. CASE c \notin children(t, s)
      <4>1. u.parent_psn[c] = t.parent_psn[c] /\ u.parent[c] = t.parent[c] BY <1>1, <2>1, <2>5, <3>2
      <4>2. t.parent[c] # s BY <2>1, <3>2 DEF children
      <4> QED BY <1>1, <2>2, <2>4, <4>1, <4>2
    <3> QED BY <3>1, <3>2
  <2>6. CASE u.parent[c] = fact_parent(u, c)
    <3>1. ASSUME u.parent[c] # NONE PROVE u.parent[c] \in alive(u) /\ u.parent[c] = u.parent_psn[c]
      <4>1. u.parent[c] = u.parent_psn[c] /\ find_by_pid(u, u.parent_pid[c]) = u.parent_psn[c]
        BY <2>6, <3>1 DEF fact_parent, find_by_pid_psn
      <4>2. u.parent_pid[c] \in Pids /\ u.side_map[u.parent_pid[c]] = u.parent_psn[c]
        <5>1. u.parent_pid[c] \in Pids \cup {NoPid} BY <2>1 DEF Shape, TreeSet
        <5> QED BY <3>1, <4>1, <5>1 DEF find_by_pid
      <4> QED BY <3>1, <4>1, <4>2 DEF Shape
    <3> QED BY <2>4, <3>1
  <2> QED BY <2>1, <2>4, <2>5, <2>6 DEF Removed
<1> QED BY <1>3 DEF FactsOK

\* What a chain element is told to have for parent, when the recorded parent PIDs
\* lead to the parents or to nobody.
LEMMA ChainParentKnown ==
  ASSUME Kernel, Shape(tree), NEW c, IsChain(tree, c), \A s \in ToSet(c) : ParentKnown(s),
         NEW k \in 1 .. Len(c)
  PROVE  chain_parent(tree, c, k) \in {NONE, parent_of[c[k]]}
<1>1. /\ Len(c) \in Nat \ {0} /\ DOMAIN c = 1 .. Len(c)
      /\ \A i \in 1 .. Len(c) : c[i] \in running /\ c[i] \in 1 .. born /\ c[i] \in PSN
  BY ChainElement
<1>2. PICK s, q, p, h : s = c[k] /\ q = parent_of[s] /\ p = pidOf(q) /\ h = find_by_pid(tree, p)
  OBVIOUS
<1>3. s \in ToSet(c) BY <1>1, <1>2 DEF ToSet
<1>4. \/ q \in running /\ (q \notin Unopenable \/ h = q)
      \/ owner(p) = NONE /\ h \in {NONE, q}
  BY <1>2, <1>3 DEF ParentKnown
<1>5. parent_pid_of(s) = p BY <1>2 DEF parent_pid_of
<1>6. ASSUME opened(p) # NONE PROVE opened(p) = q
  <2>1. opened(p) = owner(p) /\ owner(p) \in running /\ pid_of[owner(p)] = p
    BY <1>6, OwnerRuns DEF opened
  <2>2. q \in running BY <1>4, <1>6, <2>1
  <2>3. p = pid_of[q]
    <3>1. \A r \in running : r # NONE BY DEF Kernel, ProcessesTypeOK, NONE
    <3> QED BY <1>2, <2>2, <3>1 DEF pidOf
  <2> QED BY <2>1, <2>2, <2>3 DEF Kernel
<1>7. q \in running /\ q \notin Unopenable => opened(p) # NONE
  <2>1. ASSUME q \in running, q \notin Unopenable PROVE opened(p) # NONE
    <3>1. \A r \in running : r # NONE BY DEF Kernel, ProcessesTypeOK, NONE
    <3>2. p = pid_of[q] BY <1>2, <2>1, <3>1 DEF pidOf
    <3>3. owner(p) \in running /\ pid_of[owner(p)] = p BY <2>1, <3>2, OwnerRuns
    <3>4. owner(p) = q BY <2>1, <3>2, <3>3 DEF Kernel
    <3> QED BY <2>1, <3>1, <3>4 DEF opened
  <2> QED BY <2>1
<1>8. CASE k < Len(c)
  <2>1. k \in 1 .. Len(c) - 1 BY <1>1, <1>8
  <2>2. opened(p) = c[k + 1] /\ c[k + 1] # NONE BY <1>2, <1>5, <2>1 DEF IsChain
  <2> QED BY <1>2, <1>6, <1>8, <2>2 DEF chain_parent
<1>9. CASE ~(k < Len(c))
  <2>1. Last(c) = s BY <1>1, <1>2, <1>9 DEF Last
  <2>2. chain_parent(tree, c, k) = top_parent_psn(tree, s) BY <1>9, <2>1 DEF chain_parent
  <2>3. CASE p = NoPid BY <1>5, <2>2, <2>3 DEF top_parent_psn
  <2>4. CASE p # NoPid /\ opened(p) # NONE
    BY <1>2, <1>5, <1>6, <2>2, <2>4 DEF top_parent_psn
  <2>5. CASE p # NoPid /\ opened(p) = NONE
    <3>1. h \in {NONE, q} BY <1>4, <1>7, <2>5
    <3>2. top_parent_psn(tree, s) \in {NONE, h} BY <1>2, <1>5, <2>5 DEF top_parent_psn
    <3> QED BY <1>2, <2>2, <3>1, <3>2
  <2> QED BY <2>3, <2>4, <2>5
<1> QED BY <1>8, <1>9

\* The links of the next state are those a handler leaves.
LEMMA LinksMoved ==
  ASSUME NEW x, Moves(x), UNCHANGED <<pid_of, parent_of>>, LinksOK(x)
  PROVE  LinksOK(state)'
<1>1. tree' = x.tree /\ orphans' = x.orphans BY DEF Moves, Becomes
<1>2. PICK u, os : u = x.tree /\ os = x.orphans OBVIOUS
<1>3. tree' = u /\ orphans' = os /\ FactsOK(u) /\ OrphansOK(u, os) BY <1>1, <1>2 DEF LinksOK
<1>4. ancestors' = ancestors BY DEF ancestors
<1>5. FactsOK(tree)' BY <1>3, <1>4 DEF FactsOK, alive
<1>6. OrphansOK(tree, orphans)' BY <1>3 DEF OrphansOK
<1>7. (state.tree = tree)' /\ (state.orphans = orphans)' BY DEF state
<1> QED BY <1>5, <1>6, <1>7 DEF LinksOK

\* A tree that differs in the marks alone.
LEMMA LinksRemarked ==
  ASSUME NEW t, NEW u, NEW os, SameLinks(t, u), FactsOK(t), OrphansOK(t, os)
  PROVE  FactsOK(u) /\ OrphansOK(u, os)
BY DEF SameLinks, FactsOK, OrphansOK

\* A state of the manager, once parents and orphans are named.
LEMMA LinksParts ==
  LinksOK(state) <=> FactsOK(tree) /\ OrphansOK(tree, orphans)
BY StateParts DEF LinksOK

\* Whatever starts, exits or is enumerated.
LEMMA LinksKernel ==
  ASSUME Core, LinksOK(state), KernelStep PROVE LinksOK(state)'
<1>1. Kernel /\ ConsumerTypeOK /\ Shape(tree) BY DEF Core
<1>2. UNCHANGED <<consumerVars, tree, orphans>> BY DEF KernelStep, managerVars
<1>3. Kernel' /\ \A x \in 1 .. born : pid_of'[x] = pid_of[x] /\ parent_of'[x] = parent_of[x]
  <2>1. ASSUME NEW s \in PSN, NEW p \in Pids, NEW parent \in 0 .. MaxPsn, Spawn(s, p, parent)
        PROVE  Kernel' /\ \A x \in 1 .. born : pid_of'[x] = pid_of[x] /\ parent_of'[x] = parent_of[x]
    BY <1>1, <1>2, <2>1, SpawnKernel
  <2>2. ASSUME NEW s \in PSN, Exit(s) \/ EnumerateNext(s)
        PROVE  Kernel' /\ \A x \in 1 .. born : pid_of'[x] = pid_of[x] /\ parent_of'[x] = parent_of[x]
    BY <1>1, <1>2, <2>2, ExitKernel
  <2> QED BY <2>1, <2>2 DEF KernelStep
<1>4. \A s \in 1 .. born : ancestors'[s] = ancestors[s] BY <1>1, <1>3, AncestorsNext
<1>5. PICK t, os, an, pf : t = tree /\ os = orphans /\ an = ancestors' /\ pf = pid_of' OBVIOUS
<1>6. FactsOK(t) /\ OrphansOK(t, os) /\ Shape(t) BY <1>1, <1>5, LinksParts
<1>7. ASSUME NEW c \in alive(t)
      PROVE  /\ t.parent_psn[c] \in {NONE} \cup an[c]
             /\ t.parent_psn[c] # NONE => t.parent_pid[c] = pf[t.parent_psn[c]]
             /\ t.parent[c] # NONE => t.parent[c] \in alive(t) /\ t.parent[c] = t.parent_psn[c]
  <2>1. /\ t.parent_psn[c] \in {NONE} \cup ancestors[c]
        /\ t.parent_psn[c] # NONE => t.parent_pid[c] = pid_of[t.parent_psn[c]]
        /\ t.parent[c] # NONE => t.parent[c] \in alive(t) /\ t.parent[c] = t.parent_psn[c]
    BY <1>6 DEF FactsOK
  <2>2. c \in 1 .. born /\ (t.parent_psn[c] # NONE => t.parent_psn[c] \in 1 .. born)
    BY <1>1, <1>6, LinkOlder
  <2> QED BY <1>3, <1>4, <1>5, <2>1, <2>2
<1>8. tree' = t /\ orphans' = os BY <1>2, <1>5
<1>9. FactsOK(tree)' BY <1>5, <1>7, <1>8 DEF FactsOK, alive
<1>10. OrphansOK(tree, orphans)' BY <1>6, <1>8 DEF OrphansOK
<1>11. (state.tree = tree)' /\ (state.orphans = orphans)' BY DEF state
<1> QED BY <1>9, <1>10, <1>11 DEF LinksOK

\* Every step, when neither a CONNECT event is handled while the recorded parent has
\* exited unnoticed nor a STOP while an orphan waits.
LEMMA LinksNext ==
  ASSUME Core, LinksOK(state), [Next]_vars, "parent" \notin Overlaps, "orphan" \notin Overlaps
  PROVE  LinksOK(state)'
<1>1. Kernel /\ ConsumerTypeOK /\ Shape(tree) /\ state \in Managed /\ Shape(state.tree)
  BY StateParts DEF Core
<1>2. FactsOK(tree) /\ OrphansOK(tree, orphans) BY LinksParts
<1>3. CASE UNCHANGED <<tree, orphans, pid_of, parent_of>>
  <2>1. ancestors' = ancestors BY <1>3 DEF ancestors
  <2>2. FactsOK(tree)' BY <1>2, <1>3, <2>1 DEF FactsOK, alive
  <2>3. OrphansOK(tree, orphans)' BY <1>2, <1>3 DEF OrphansOK
  <2>4. (state.tree = tree)' /\ (state.orphans = orphans)' BY DEF state
  <2> QED BY <2>2, <2>3, <2>4 DEF LinksOK
<1>4. CASE HandleStart
  <2>1. PICK x : /\ Moves(x) /\ Head(etw).psn \in 1 .. born
                 /\ Handled(state, Head(etw).psn, parent_pid_of(Head(etw).psn),
                            parent_of[Head(etw).psn], x)
    BY <1>4, HandleStartMoves
  <2>2. PICK m, s, a, b : /\ m = state /\ s = Head(etw).psn /\ a = parent_pid_of(Head(etw).psn)
                          /\ b = parent_of[Head(etw).psn]
    OBVIOUS
  <2>3. UNCHANGED <<pid_of, parent_of>> BY <1>4 DEF HandleStart, event_record_callback, bornVars
  <2>4. LinksOK(m) /\ m \in Managed /\ Shape(m.tree) BY <1>1, <2>2
  <2>5. /\ x \in Managed /\ Shape(x.tree) /\ s \in 1 .. born /\ Handled(m, s, a, b, x)
        /\ a = parent_pid_of(s) /\ b \in {NONE, parent_of[s]}
    BY <2>1, <2>2 DEF Moves
  <2>6. LinksOK(x) BY <1>1, <2>4, <2>5, LinksHandled
  <2> QED BY <2>1, <2>3, <2>6, LinksMoved
<1>5. CASE HandleStop
  <2>1. PICK x : Moves(x) /\ Head(etw).psn \in 1 .. born /\ Stopped(Head(etw).psn, x)
    BY <1>5, HandleStopMoves
  <2>2. UNCHANGED <<pid_of, parent_of>> BY <1>5 DEF HandleStop, event_record_callback, bornVars
  <2>3. orphans = {} BY <1>5 DEF HandleStop
  <2>4. PICK s : s = Head(etw).psn OBVIOUS
  <2>5. CASE x = state BY <2>1, <2>2, <2>5, LinksMoved
  <2>6. CASE s \in alive(tree) /\ Removed(tree, s, x.tree) /\ x.orphans = orphans
    <3>1. PICK t, u : t = tree /\ u = x.tree OBVIOUS
    <3>2. Shape(t) /\ FactsOK(t) /\ s \in alive(t) /\ Shape(u) /\ Removed(t, s, u)
      BY <1>1, <1>2, <2>1, <2>6, <3>1 DEF Moves
    <3>3. FactsOK(u) BY <1>1, <3>2, FactsRemoved
    <3>4. OrphansOK(u, x.orphans) BY <2>3, <2>6 DEF OrphansOK
    <3>5. LinksOK(x) BY <3>1, <3>3, <3>4 DEF LinksOK
    <3> QED BY <2>1, <2>2, <3>5, LinksMoved
  <2> QED BY <2>1, <2>4, <2>5, <2>6 DEF Stopped
<1>6. CASE GraceTimer
  <2>1. PICK x : Moves(x) /\ Rooted(x) BY <1>6, GraceTimerMoves
  <2>2. UNCHANGED <<pid_of, parent_of>> BY <1>6 DEF GraceTimer, processVars, bornVars
  <2>3. alive(tree) \subseteq PSN BY <1>1, AliveAt DEF Shape
  <2>4. FactsOK(x.tree)
    <3>1. ASSUME NEW c \in alive(tree) PROVE x.tree.parent[c] \in {NONE, tree.parent[c]}
      BY <2>1, <2>3 DEF Rooted
    <3> QED BY <1>2, <2>1, <3>1 DEF Rooted, FactsOK
  <2>5. OrphansOK(x.tree, x.orphans) BY <2>1 DEF Rooted, OrphansOK
  <2> QED BY <2>1, <2>2, <2>4, <2>5, LinksMoved DEF LinksOK
<1>7. ASSUME NEW p \in Pids, Connect(p) PROVE LinksOK(state)'
  <2> DEFINE S == {y \in Managed : Shape(y.tree) /\ LinksOK(y)}
  <2>1. state \in S BY <1>1
  <2>2. \A c : IsChain(tree, c) /\ c = chain_from(tree, opened(p)) =>
          \A k \in 1 .. Len(c) : \A y \in S : \A x \in Managed :
            Shape(x.tree) /\ ChainStep(tree, c, k, y, x) => x \in S
    <3>1. ASSUME NEW c, IsChain(tree, c), c = chain_from(tree, opened(p)), NEW k \in 1 .. Len(c),
                 NEW y \in S, NEW x \in Managed, Shape(x.tree), ChainStep(tree, c, k, y, x)
          PROVE  x \in S
      <4>1. c[k] \in 1 .. born BY <1>1, <3>1, ChainElement
      <4>2. \A s \in ToSet(c) : ParentKnown(s) BY <1>7, <3>1 DEF Connect
      <4>3. chain_parent(tree, c, k) \in {NONE, parent_of[c[k]]}
        BY <1>1, <3>1, <4>2, ChainParentKnown
      <4>4. PICK s, a, b : /\ s = c[k] /\ a = parent_pid_of(c[k]) /\ b = chain_parent(tree, c, k)
        OBVIOUS
      <4>5. Handled(y, s, a, b, x) BY <3>1, <4>4 DEF ChainStep
      <4>6. LinksOK(y) /\ Shape(y.tree) /\ y \in Managed OBVIOUS
      <4>7. s \in 1 .. born /\ a = parent_pid_of(s) /\ b \in {NONE, parent_of[s]}
        BY <4>1, <4>3, <4>4
      <4>8. LinksOK(x) BY <1>1, <3>1, <4>5, <4>6, <4>7, LinksHandled
      <4> QED BY <3>1, <4>8
    <3> QED BY <3>1
  <2>3. \A y \in S : y \in Managed /\ Shape(y.tree) OBVIOUS
  <2>4. UNCHANGED <<pid_of, parent_of>> BY <1>7 DEF Connect, processVars, bornVars
  <2> HIDE DEF S
  <2>5. PICK x \in S : Moves(x) BY <1>7, <2>1, <2>2, <2>3, ConnectMoves
  <2>6. LinksOK(x) BY <2>5 DEF S
  <2> QED BY <2>4, <2>5, <2>6, LinksMoved
<1>8. CASE UserCommand
  <2>1. PICK x : Moves(x) /\ Commanded(x) BY <1>8, UserCommandMoves
  <2>2. SameLinks(tree, x.tree) /\ x.orphans = orphans BY <2>1 DEF Commanded
  <2>3. LinksOK(x) BY <1>2, <2>2, LinksRemarked DEF LinksOK
  <2>4. UNCHANGED <<pid_of, parent_of>>
    BY <1>8 DEF UserCommand, Hijack, Unhijack, processVars, bornVars
  <2> QED BY <2>1, <2>3, <2>4, LinksMoved
<1>9. ASSUME NEW n \in snapshots, ApplyConfig(n) PROVE LinksOK(state)'
  <2>1. PICK x : Moves(x) /\ SameLinks(tree, x.tree) /\ x.orphans = orphans
    BY <1>9, ApplyConfigMoves
  <2>2. LinksOK(x) BY <1>2, <2>1, LinksRemarked DEF LinksOK
  <2>3. UNCHANGED <<pid_of, parent_of>> BY <1>9 DEF ApplyConfig, processVars, bornVars
  <2> QED BY <2>1, <2>2, <2>3, LinksMoved
<1>10. CASE \/ UNCHANGED vars \/ ConsumerStep \/ Start \/ RequestRundown \/ HandleLost \/ LostTimer
            \/ RuleCommand /\ ~\E n \in snapshots : ApplyConfig(n)
  BY <1>3, <1>10
     DEF vars, processVars, bornVars, managerVars, ConsumerStep, buffer_callback, Start, start,
         RequestRundown, request_rundown, HandleLost, event_record_callback, LostTimer,
         RuleCommand, UpdateRule, ExcludePid, UnexcludePid, MutateRules
<1> QED BY <1>4, <1>5, <1>6, <1>7, <1>8, <1>9, <1>10, LinksKernel
        DEF Next, HandleEvent, Timers, RuleCommand

\* Links, facts and orphans are right in every state.
LEMMA LinksInvariant ==
  ASSUME "parent" \notin Overlaps, "orphan" \notin Overlaps PROVE Spec => []LinksOK(state)
<1>1. Init => LinksOK(state)
  <2> SUFFICES ASSUME Init PROVE LinksOK(state) OBVIOUS
  <2>1. tree.entries = <<>> /\ orphans = {} BY DEF Init, EmptyTree
  <2>2. alive(tree) = {} BY <2>1 DEF alive
  <2> QED BY <2>1, <2>2, LinksParts DEF FactsOK, OrphansOK
<1> QED BY <1>1, LinksNext, CoreInvariant, PTL DEF Spec

\* Every link is the one the entry's facts name and leads to a live entry, whether
\* it was attached, drained, moved up or rebuilt by a compaction.
THEOREM LinksCorrect ==
  ASSUME "parent" \notin Overlaps, "orphan" \notin Overlaps PROVE Spec => []LinksMatchFacts
<1>1. LinksOK(state) => LinksMatchFacts BY LinksParts DEF FactsOK, LinksMatchFacts
<1> QED BY <1>1, LinksInvariant, PTL

\* The parent PSN of an entry is an ancestor's, whoever holds the parent's PID by now.
THEOREM ParentsCorrect ==
  ASSUME "parent" \notin Overlaps, "orphan" \notin Overlaps PROVE Spec => []ParentIsAncestor
<1>1. LinksOK(state) => ParentIsAncestor BY LinksParts DEF FactsOK, ParentIsAncestor
<1> QED BY <1>1, LinksInvariant, PTL

-----------------------------------------------------------------------------
\* Children move up.

\* The entries that lose their parent s with it go to the parent of s.
ChildrenUp(t, u) ==
  \A s \in alive(t) \ alive(u), c \in alive(u) :
    c \in children(t, s) /\ t.parent[s] \in alive(u) => u.parent[c] = t.parent[s]

\* Links are older than their children.
LEMMA ParentOlder ==
  ASSUME Kernel, NEW t, Shape(t), FactsOK(t), NEW c \in alive(t), t.parent[c] # NONE
  PROVE  t.parent[c] \in alive(t) /\ t.parent[c] < c /\ t.parent[c] = t.parent_psn[c]
BY LinkOlder DEF FactsOK

\* A STOP, with the compaction that may follow it, moves the children up.
LEMMA RemovedMovesUp ==
  ASSUME Kernel, NEW t, Shape(t), FactsOK(t), NEW s \in alive(t), NEW u, Shape(u), Removed(t, s, u)
  PROVE  ChildrenUp(t, u)
<1>1. alive(u) = alive(t) \ {s} BY DEF Removed
<1>2. alive(t) \subseteq PSN /\ born \in Nat /\ s \in 1 .. born
  BY AliveAt DEF Shape, Kernel, ProcessesTypeOK
<1>3. ASSUME NEW c \in alive(u), c \in children(t, s), t.parent[s] \in alive(u)
      PROVE  u.parent[c] = t.parent[s]
  <2>1. PICK q : q = t.parent[s] OBVIOUS
  <2>2. c \in alive(t) /\ c # s /\ c \in PSN /\ c \in 1 .. born /\ t.parent[c] = s
    BY <1>1, <1>2, <1>3 DEF Shape, children
  <2>3. q # NONE /\ s # NONE BY <1>3, <2>1 DEF alive
  <2>4. s < c BY <2>2, <2>3, ParentOlder
  <2>5. q < s /\ q \in alive(t) BY <2>1, <2>3, ParentOlder
  <2>6. q # c /\ q \in 1 .. born
    <3>1. q \in 1 .. born BY <2>5 DEF Shape
    <3> QED BY <1>2, <2>2, <2>4, <2>5, <3>1
  <2>7. u.parent_psn[c] = q /\ u.parent_pid[c] = pid_of[q]
    <3>1. u.parent_psn[c] = q /\ u.parent_pid[c] = pidOf(q) BY <1>3, <2>1, <2>2 DEF Removed
    <3> QED BY <2>3, <3>1 DEF pidOf
  <2>8. fact_parent(u, c) = q
    <3>1. q \in alive(u) /\ pid_of[q] \in Pids BY <1>3, <2>1, <2>6 DEF Kernel
    <3>2. u.side_map[pid_of[q]] = q /\ pid_of[q] # NoPid BY <3>1, ProcessAssumption DEF Shape
    <3> QED BY <1>3, <2>3, <2>6, <2>7, <3>2 DEF fact_parent, find_by_pid_psn, find_by_pid
  <2>9. u.parent[c] = q \/ u.parent[c] = fact_parent(u, c) BY <1>3, <2>1, <2>2 DEF Removed
  <2> QED BY <2>1, <2>8, <2>9
<1> QED BY <1>1, <1>3 DEF ChildrenUp

\* What an insertion makes of the link of another entry.
LinkAfter(t, s, c) ==
  IF t.parent[c] = Displaced(t, s) THEN t.parent[Displaced(t, s)] ELSE t.parent[c]

\* An entry with a parent keeps it, or gets the parent of the entry displaced.
LEMMA HandledLink ==
  ASSUME Kernel, NEW m \in Managed, Shape(m.tree), LinksOK(m), NEW s \in 1 .. born,
         NEW ppid, NEW ppsn \in {NONE, parent_of[s]}, s \notin alive(m.tree),
         NEW x, Shape(x.tree), Insertion(m, s, ppid, ppsn, x),
         NEW c \in alive(m.tree), c \in alive(x.tree), m.tree.parent[c] # NONE
  PROVE  /\ alive(x.tree) = (alive(m.tree) \ {Displaced(m.tree, s)}) \cup {s}
         /\ c # s /\ c # Displaced(m.tree, s)
         /\ x.tree.parent[c] = LinkAfter(m.tree, s, c)
<1>1. PICK t, u, d : t = m.tree /\ u = x.tree /\ d = Displaced(t, s) OBVIOUS
<1>2. alive(u) = (alive(t) \ {d}) \cup {s} BY <1>1 DEF Insertion, Added
<1>3. c # s /\ c # d /\ c \in PSN
  <2>1. alive(t) \subseteq PSN BY <1>1, AliveAt DEF Shape
  <2> QED BY <1>1, <1>2, <2>1
<1>4. c \notin Adopted(u, WithOrphan(m, s, ppid, ppsn), s) BY <1>1, AdoptedWaited
<1>5. u.parent[c] = BaseLink(t, s, c) BY <1>1, <1>3, <1>4 DEF Insertion, NewLink
<1>6. c \in Heirs(t, d) <=> t.parent[c] = d
  BY <1>1 DEF Heirs, children
<1>7. BaseLink(t, s, c) = LinkAfter(t, s, c)
  BY <1>1, <1>3, <1>6 DEF BaseLink, LinkAfter
<1> QED BY <1>1, <1>2, <1>3, <1>5, <1>7

\* So an insertion moves the children of the entry displaced up.
LEMMA HandledMovesUp ==
  ASSUME Kernel, NEW m \in Managed, Shape(m.tree), LinksOK(m), NEW s \in 1 .. born,
         NEW ppid, NEW ppsn \in {NONE, parent_of[s]},
         NEW x, Shape(x.tree), Handled(m, s, ppid, ppsn, x)
  PROVE  ChildrenUp(m.tree, x.tree)
<1>1. CASE x = m
  <2>1. alive(m.tree) \ alive(x.tree) = {} BY <1>1
  <2> QED BY <2>1 DEF ChildrenUp
<1>2. CASE s \notin alive(m.tree) /\ Insertion(m, s, ppid, ppsn, x)
  <2>1. ASSUME NEW o \in alive(m.tree) \ alive(x.tree), NEW c \in alive(x.tree),
               c \in children(m.tree, o), m.tree.parent[o] \in alive(x.tree)
        PROVE  x.tree.parent[c] = m.tree.parent[o]
    <3>1. /\ c \in alive(m.tree) /\ c \in alive(x.tree)
          /\ m.tree.parent[c] = o /\ o # NONE /\ m.tree.parent[c] # NONE
      BY <2>1 DEF children, alive
    <3>2. /\ alive(x.tree) = (alive(m.tree) \ {Displaced(m.tree, s)}) \cup {s}
          /\ x.tree.parent[c] = LinkAfter(m.tree, s, c)
      BY <1>2, <3>1, HandledLink
    <3>3. o = Displaced(m.tree, s) BY <2>1, <3>2
    <3> QED BY <3>1, <3>2, <3>3 DEF LinkAfter
  <2> QED BY <2>1 DEF ChildrenUp
<1> QED BY <1>1, <1>2 DEF Handled

\* After some insertions of processes tree t does not have: the links of its entries
\* that are still there are what they were, or to the parent of one that is gone.
Inherited(t, y) ==
  \A c \in alive(y) \cap alive(t) :
    /\ t.parent[c] \in alive(y) => y.parent[c] = t.parent[c]
    /\ t.parent[c] \in alive(t) \ alive(y) /\ t.parent[t.parent[c]] \in alive(y) =>
         y.parent[c] = t.parent[t.parent[c]]

\* One more insertion leaves the links inherited.
LEMMA InheritedHandled ==
  ASSUME Kernel, NEW t, Shape(t), FactsOK(t), NEW m \in Managed, Shape(m.tree), LinksOK(m),
         NEW s \in 1 .. born, s \notin alive(t), NEW ppid, NEW ppsn \in {NONE, parent_of[s]},
         NEW x, Shape(x.tree), Handled(m, s, ppid, ppsn, x), Inherited(t, m.tree)
  PROVE  Inherited(t, x.tree)
<1>1. CASE x = m BY <1>1
<1>2. CASE s \notin alive(m.tree) /\ Insertion(m, s, ppid, ppsn, x)
  <2>1. PICK y, u, d : y = m.tree /\ u = x.tree /\ d = Displaced(y, s) OBVIOUS
  <2>2. alive(u) = (alive(y) \ {d}) \cup {s} BY <1>2, <2>1 DEF Insertion, Added
  <2>3. \A c \in alive(t) : c \in alive(u) => c \in alive(y) /\ c # d BY <2>2
  <2>4. NONE \notin alive(y) /\ NONE \notin alive(t) BY DEF alive
  <2>5. \A c \in alive(t) : t.parent[c] # NONE => t.parent[c] \in alive(t) BY ParentOlder
  <2>6. ASSUME NEW c \in alive(u) \cap alive(t), y.parent[c] # NONE
        PROVE  u.parent[c] = IF y.parent[c] = d THEN y.parent[d] ELSE y.parent[c]
    <3>1. c \in alive(m.tree) /\ c \in alive(x.tree) /\ m.tree.parent[c] # NONE
      BY <2>1, <2>3, <2>6
    <3> QED BY <1>2, <2>1, <3>1, HandledLink DEF LinkAfter
  <2>7. Inherited(t, y) BY <2>1
  <2>8. ASSUME NEW c \in alive(u) \cap alive(t)
        PROVE  /\ t.parent[c] \in alive(u) => u.parent[c] = t.parent[c]
               /\ t.parent[c] \in alive(t) \ alive(u) /\ t.parent[t.parent[c]] \in alive(u) =>
                    u.parent[c] = t.parent[t.parent[c]]
    <3>1. PICK q : q = t.parent[c] OBVIOUS
    <3>2. c \in alive(y) /\ c # d BY <2>3
    <3>3. ASSUME q \in alive(u) PROVE u.parent[c] = q
      <4>1. q # NONE
        <5>1. NONE \notin alive(u) BY DEF alive
        <5> QED BY <3>3, <5>1
      <4>2. q \in alive(t) BY <2>5, <3>1, <4>1
      <4>3. q \in alive(y) /\ q # d BY <2>3, <3>3, <4>2
      <4>4. y.parent[c] = q BY <2>7, <3>1, <3>2, <4>3 DEF Inherited
      <4> QED BY <2>6, <4>1, <4>3, <4>4
    <3>4. ASSUME q \in alive(t) \ alive(u), t.parent[q] \in alive(u) PROVE u.parent[c] = t.parent[q]
      <4>1. PICK g : g = t.parent[q] OBVIOUS
      <4>2. g # NONE
        <5>1. NONE \notin alive(u) BY DEF alive
        <5> QED BY <3>4, <4>1, <5>1
      <4>3. g \in alive(t) BY <2>5, <3>4, <4>1, <4>2
      <4>4. g \in alive(y) /\ g # d BY <2>3, <3>4, <4>1, <4>3
      <4>5. CASE q \in alive(y)
        <5>1. q = d BY <2>2, <3>4, <4>5
        <5>2. y.parent[c] = q BY <2>7, <3>1, <3>2, <4>5 DEF Inherited
        <5>3. y.parent[d] = g BY <2>7, <3>4, <4>1, <4>4, <4>5, <5>1 DEF Inherited
        <5>4. q # NONE BY <2>4, <4>5
        <5> QED BY <2>6, <4>1, <5>1, <5>2, <5>3, <5>4
      <4>6. CASE q \notin alive(y)
        <5>1. y.parent[c] = g BY <2>7, <3>1, <3>2, <3>4, <4>1, <4>4, <4>6 DEF Inherited
        <5> QED BY <2>6, <4>1, <4>2, <4>4, <5>1
      <4> QED BY <4>5, <4>6
    <3> QED BY <3>1, <3>3, <3>4
  <2>9. Inherited(t, u) BY <2>8 DEF Inherited
  <2> QED BY <2>1, <2>9
<1> QED BY <1>1, <1>2 DEF Handled

\* The tree has none of the processes it walks up through.
LEMMA ChainUnknown ==
  ASSUME Kernel, Shape(tree), NEW p \in Pids, Connect(p), NEW c, c = chain_from(tree, opened(p)),
         IsChain(tree, c), NEW k \in 1 .. Len(c)
  PROVE  c[k] \notin alive(tree)
<1>1. opened(p) # NONE /\ opened(p) # find_by_pid(tree, p) BY DEF Connect
<1>2. opened(p) \in running /\ pid_of[opened(p)] = p BY <1>1, OwnerRuns
<1>3. c[1] = opened(p) BY <1>2, ChainFrom
<1>4. Len(c) \in Nat BY ChainElement
<1>5. CASE k = 1
  <2>1. p # NoPid BY ProcessAssumption
  <2> QED BY <1>1, <1>2, <1>3, <1>5, <2>1 DEF Shape, find_by_pid
<1>6. CASE k # 1
  <2>1. PICK j \in 1 .. Len(c) - 1 : k = j + 1
    <3>1. k - 1 \in 1 .. Len(c) - 1 /\ k = (k - 1) + 1 BY <1>4, <1>6
    <3> QED BY <3>1
  <2>2. PICK q : q = parent_pid_of(c[j]) OBVIOUS
  <2>3. q # NoPid /\ find_by_pid(tree, q) = NONE /\ opened(q) = c[k] /\ c[k] # NONE
    BY <2>1, <2>2 DEF IsChain
  <2>4. pid_of[c[k]] = q BY <2>3, OwnerRuns
  <2>5. tree.side_map[q] = NONE BY <2>3 DEF find_by_pid
  <2> QED BY <2>3, <2>4, <2>5 DEF Shape
<1> QED BY <1>5, <1>6

\* Every step moves the children up of what it removes.
LEMMA MovesUpNext ==
  ASSUME Core, LinksOK(state), [Next]_vars, "parent" \notin Overlaps, "orphan" \notin Overlaps
  PROVE  ChildrenUp(tree, tree')
<1>1. Kernel /\ ConsumerTypeOK /\ Shape(tree) /\ state \in Managed /\ Shape(state.tree)
  BY StateParts DEF Core
<1>2. FactsOK(tree) BY LinksParts
<1>3. CASE alive(tree') = alive(tree) BY <1>3 DEF ChildrenUp
<1>4. CASE HandleStart
  <2>1. PICK x : /\ Moves(x) /\ Head(etw).psn \in 1 .. born
                 /\ Handled(state, Head(etw).psn, parent_pid_of(Head(etw).psn),
                            parent_of[Head(etw).psn], x)
    BY <1>4, HandleStartMoves
  <2>2. PICK m, s, a, b : /\ m = state /\ s = Head(etw).psn /\ a = parent_pid_of(Head(etw).psn)
                          /\ b = parent_of[Head(etw).psn]
    OBVIOUS
  <2>3. LinksOK(m) /\ m \in Managed /\ Shape(m.tree) BY <1>1, <2>2
  <2>4. /\ x \in Managed /\ Shape(x.tree) /\ s \in 1 .. born /\ Handled(m, s, a, b, x)
        /\ b \in {NONE, parent_of[s]}
    BY <2>1, <2>2 DEF Moves
  <2>5. ChildrenUp(m.tree, x.tree) BY <1>1, <2>3, <2>4, HandledMovesUp
  <2> QED BY <2>1, <2>2, <2>5, StateParts DEF Moves, Becomes
<1>5. CASE HandleStop
  <2>1. PICK x : Moves(x) /\ Stopped(Head(etw).psn, x) BY <1>5, HandleStopMoves
  <2>2. tree' = x.tree BY <2>1 DEF Moves, Becomes
  <2>3. CASE x = state BY <1>3, <2>2, <2>3, StateParts
  <2>4. ASSUME NEW s \in alive(tree), Removed(tree, s, x.tree) PROVE ChildrenUp(tree, tree')
    <3>1. PICK t, u : t = tree /\ u = x.tree OBVIOUS
    <3>2. Shape(t) /\ FactsOK(t) /\ s \in alive(t) /\ Shape(u) /\ Removed(t, s, u)
      BY <1>1, <1>2, <2>1, <2>4, <3>1 DEF Moves
    <3>3. ChildrenUp(t, u) BY <1>1, <3>2, RemovedMovesUp
    <3> QED BY <2>2, <3>1, <3>3
  <2> QED BY <2>1, <2>3, <2>4 DEF Stopped
<1>6. CASE GraceTimer
  <2>1. PICK x : Moves(x) /\ Rooted(x) BY <1>6, GraceTimerMoves
  <2> QED BY <1>3, <2>1 DEF Moves, Becomes, Rooted
<1>7. ASSUME NEW p \in Pids, Connect(p) PROVE ChildrenUp(tree, tree')
  <2>1. PICK t : t = tree OBVIOUS
  <2> DEFINE S == {y \in Managed : Shape(y.tree) /\ LinksOK(y) /\ Inherited(t, y.tree)}
  <2>2. state \in S
    <3>1. Inherited(t, t) BY DEF Inherited
    <3> QED BY <1>1, <2>1, <3>1, StateParts
  <2>3. \A c : IsChain(tree, c) /\ c = chain_from(tree, opened(p)) =>
          \A k \in 1 .. Len(c) : \A y \in S : \A x \in Managed :
            Shape(x.tree) /\ ChainStep(tree, c, k, y, x) => x \in S
    <3>1. ASSUME NEW c, IsChain(tree, c), c = chain_from(tree, opened(p)), NEW k \in 1 .. Len(c),
                 NEW y \in S, NEW x \in Managed, Shape(x.tree), ChainStep(tree, c, k, y, x)
          PROVE  x \in S
      <4>1. c[k] \in 1 .. born BY <1>1, <3>1, ChainElement
      <4>2. \A s \in ToSet(c) : ParentKnown(s) BY <1>7, <3>1 DEF Connect
      <4>3. chain_parent(tree, c, k) \in {NONE, parent_of[c[k]]}
        BY <1>1, <3>1, <4>2, ChainParentKnown
      <4>4. c[k] \notin alive(tree) BY <1>1, <1>7, <3>1, ChainUnknown
      <4>5. PICK s, a, b : /\ s = c[k] /\ a = parent_pid_of(c[k]) /\ b = chain_parent(tree, c, k)
        OBVIOUS
      <4>6. Handled(y, s, a, b, x) BY <3>1, <4>5 DEF ChainStep
      <4>7. LinksOK(y) /\ Shape(y.tree) /\ y \in Managed /\ Inherited(t, y.tree) OBVIOUS
      <4>8. /\ s \in 1 .. born /\ a = parent_pid_of(s) /\ b \in {NONE, parent_of[s]}
            /\ s \notin alive(t)
        BY <2>1, <4>1, <4>3, <4>4, <4>5
      <4>9. LinksOK(x) BY <1>1, <3>1, <4>6, <4>7, <4>8, LinksHandled
      <4>10. Shape(t) /\ FactsOK(t) BY <1>1, <1>2, <2>1
      <4>11. Inherited(t, x.tree) BY <1>1, <3>1, <4>6, <4>7, <4>8, <4>10, InheritedHandled
      <4> QED BY <3>1, <4>9, <4>11
    <3> QED BY <3>1
  <2>4. \A y \in S : y \in Managed /\ Shape(y.tree) OBVIOUS
  <2> HIDE DEF S
  <2>5. PICK x \in S : Moves(x) BY <1>7, <2>2, <2>3, <2>4, ConnectMoves
  <2>6. PICK u : u = x.tree OBVIOUS
  <2>7. tree' = u /\ Inherited(t, u) BY <2>5, <2>6 DEF S, Moves, Becomes
  <2>8. ChildrenUp(t, u)
    <3>1. ASSUME NEW s \in alive(t) \ alive(u), NEW c \in alive(u), c \in children(t, s),
                 t.parent[s] \in alive(u)
          PROVE  u.parent[c] = t.parent[s]
      <4>1. c \in alive(t) /\ t.parent[c] = s BY <3>1 DEF children
      <4> QED BY <2>7, <3>1, <4>1 DEF Inherited
    <3> QED BY <3>1 DEF ChildrenUp
  <2> QED BY <2>1, <2>7, <2>8
<1>8. CASE UserCommand
  <2>1. PICK x : Moves(x) /\ Commanded(x) BY <1>8, UserCommandMoves
  <2> QED BY <1>3, <2>1 DEF Moves, Becomes, Commanded, SameLinks
<1>9. ASSUME NEW n \in snapshots, ApplyConfig(n) PROVE ChildrenUp(tree, tree')
  <2>1. PICK x : Moves(x) /\ SameLinks(tree, x.tree) BY <1>9, ApplyConfigMoves
  <2> QED BY <1>3, <2>1 DEF Moves, Becomes, SameLinks
<1>10. CASE \/ UNCHANGED vars \/ KernelStep \/ ConsumerStep \/ Start \/ RequestRundown \/ HandleLost
            \/ LostTimer \/ (RuleCommand /\ ~\E n \in snapshots : ApplyConfig(n))
  <2>1. UNCHANGED tree
    BY <1>10
       DEF vars, managerVars, KernelStep, ConsumerStep, Start, RequestRundown, HandleLost, LostTimer,
           RuleCommand, UpdateRule, ExcludePid, UnexcludePid, MutateRules
  <2> QED BY <1>3, <2>1
<1> QED BY <1>4, <1>5, <1>6, <1>7, <1>8, <1>9, <1>10 DEF Next, HandleEvent, Timers, RuleCommand

\* Whatever leaves the tree, and however many leave it in a step, its children hang
\* below its parent: no step loses a subtree, a compaction included.
THEOREM ChildrenMoveUpCorrect ==
  ASSUME "parent" \notin Overlaps, "orphan" \notin Overlaps PROVE Spec => ChildrenMoveUp
<1>1. Core /\ LinksOK(state) /\ [Next]_vars =>
        [\A s \in alive(tree) \ alive(tree'), c \in alive(tree') :
           c \in children(tree, s) /\ tree.parent[s] \in alive(tree')
             => tree'.parent[c] = tree.parent[s]]_vars
  BY MovesUpNext DEF ChildrenUp
<1> QED BY <1>1, LinksInvariant, CoreInvariant, PTL DEF Spec, ChildrenMoveUp

-----------------------------------------------------------------------------
\* What the events on their way say of the running processes.

\* A STOP on its way is about a process that has exited; a START or RUNDOWN is not
\* about a former owner of a running process's PID.
EventsOK ==
  \A e \in ToSet(etw) :
    /\ e.kind = "STOP" => e.psn \notin running
    /\ e.kind \in {"START", "RUNDOWN"} =>
         \A s \in running : pid_of[s] = pid_of[e.psn] => s = e.psn

\* An entry s stays, and so does the user's hijack of it.
ManualKept(t, u, s) ==
  /\ u.mark[s].manual = t.mark[s].manual
  /\ t.mark[s].manual => u.mark[s].group = t.mark[s].group
Undisturbed(t, u, ss) == \A s \in ss \cap alive(t) : s \in alive(u) /\ ManualKept(t, u, s)

\* What the session does with an event.
LEMMA ReportedWhat ==
  ASSUME Kernel, NEW kind \in {"START", "STOP", "RUNDOWN"}, NEW s \in PSN, Report(kind, s)
  PROVE  /\ ToSet(etw) \subseteq ToSet(etw')
         /\ \A e \in ToSet(etw') : e \in ToSet(etw) \/ (e.kind = kind /\ e.psn = s)
         /\ session = "open" =>
              \/ \E e \in ToSet(etw') : e.kind = kind /\ e.psn = s
              \/ EventsLost' = EventsLost + 1
         /\ EventsLost' \in {EventsLost, EventsLost + 1}
<1>1. etw \in Seq(EtwEvent) BY DEF Kernel, ProcessesTypeOK
<1>2. PICK e : e = [kind |-> kind, psn |-> s] OBVIOUS
<1>3. e \in EtwEvent /\ e.kind = kind /\ e.psn = s BY <1>2 DEF EtwEvent
<1>4. ToSet(Append(etw, e)) = ToSet(etw) \cup {e} BY <1>1, <1>3, Appended
<1>5. CASE session # "open" /\ etw' = etw /\ EventsLost' = EventsLost
  <2>1. ToSet(etw') = ToSet(etw) BY <1>5
  <2> QED BY <1>5, <2>1
<1>6. CASE etw' = Append(etw, e) /\ EventsLost' = EventsLost
  <2>1. ToSet(etw') = ToSet(etw) \cup {e} BY <1>4, <1>6
  <2> QED BY <1>3, <1>6, <2>1
<1>7. CASE EventsLost' = EventsLost + 1 /\ etw' = etw
  <2>1. ToSet(etw') = ToSet(etw) BY <1>7
  <2> QED BY <1>7, <2>1
<1> QED BY <1>2, <1>5, <1>6, <1>7 DEF Report

\* Which processes run changes in these steps alone, and how.
LEMMA RunningNext ==
  ASSUME Core, [Next]_vars
  PROVE  \/ UNCHANGED bornVars
         \/ KernelStep
BY DEF Next, vars, processVars, ConsumerStep, buffer_callback, Start, start, RequestRundown,
       request_rundown, HandleEvent, HandleStart, HandleStop, HandleLost, event_record_callback,
       Timers, LostTimer, GraceTimer, Connect, UserCommand, Hijack, Unhijack, RuleCommand, UpdateRule,
       ExcludePid, UnexcludePid, MutateRules, ApplyConfig

\* The queue grows by a report of the kernel or a loss, and shrinks at its head.
LEMMA QueueNext ==
  ASSUME Core, [Next]_vars, ~KernelStep, NEW e \in ToSet(etw')
  PROVE  e \in ToSet(etw) \/ e.kind = "LOST"
<1>1. Kernel /\ ConsumerTypeOK BY DEF Core
<1>2. CASE UNCHANGED etw BY <1>2
<1>3. CASE ConsumerStep
  <2>1. etw' = Append(etw, [kind |-> "LOST", psn |-> NONE])
    BY <1>3 DEF ConsumerStep, buffer_callback
  <2>2. [kind |-> "LOST", psn |-> NONE] \in EtwEvent BY DEF EtwEvent
  <2>3. etw \in Seq(EtwEvent) BY <1>1 DEF Kernel, ProcessesTypeOK
  <2>4. PICK l : l = [kind |-> "LOST", psn |-> NONE] OBVIOUS
  <2>5. ToSet(Append(etw, l)) = ToSet(etw) \cup {l} BY <2>2, <2>3, <2>4, Appended
  <2>6. l.kind = "LOST" BY <2>4
  <2> QED BY <2>1, <2>4, <2>5, <2>6
<1>4. ASSUME NEW kinds, event_record_callback(kinds) PROVE e \in ToSet(etw)
  BY <1>1, <1>4, FetchedEvent
<1>5. CASE HandleEvent BY <1>4, <1>5 DEF HandleEvent, HandleStart, HandleStop, HandleLost
<1> QED BY <1>2, <1>3, <1>5
        DEF Next, vars, processVars, Start, start, RequestRundown, request_rundown, Timers, LostTimer,
            GraceTimer, Connect, UserCommand, Hijack, Unhijack, RuleCommand, UpdateRule, ExcludePid,
            UnexcludePid, MutateRules, ApplyConfig

\* A START that is late is not about a PID that has another owner by now.
LEMMA EventsNext ==
  ASSUME Core, EventsOK, [Next]_vars, "start" \notin Overlaps
  PROVE  EventsOK'
<1>1. Kernel /\ ConsumerTypeOK BY DEF Core
<1>2. born \in Nat /\ running \subseteq 1 .. born /\ rundown \subseteq running
  BY <1>1 DEF Kernel, ProcessesTypeOK
<1>3. ASSUME NEW s \in PSN, NEW p \in Pids, NEW parent \in 0 .. MaxPsn, Recycles(p),
             Spawn(s, p, parent), UNCHANGED consumerVars
      PROVE  EventsOK'
  <2>1. /\ s = born + 1 /\ pid_of' = [pid_of EXCEPT ![s] = p] /\ running' = running \cup {s}
        /\ Report("START", s)
    BY <1>3 DEF Spawn
  <2>2. \A x \in 1 .. born : pid_of'[x] = pid_of[x] BY <1>1, <1>3, SpawnKernel
  <2>3. pid_of'[s] = p BY <1>1, <2>1 DEF Kernel, ProcessesTypeOK
  <2>4. s \notin 1 .. born BY <1>2, <2>1
  <2>5. \A o \in PSN : pid_of[o] = p => ~Undelivered(o) BY <1>3 DEF Recycles
  <2>6. ASSUME NEW e \in ToSet(etw')
        PROVE  /\ e.kind = "STOP" => e.psn \notin running'
               /\ e.kind \in {"START", "RUNDOWN"} =>
                    \A x \in running' : pid_of'[x] = pid_of'[e.psn] => x = e.psn
    <3>1. e \in ToSet(etw) \/ (e.kind = "START" /\ e.psn = s) BY <1>1, <2>1, ReportedWhat
    <3>2. CASE e \in ToSet(etw)
      <4>1. e.kind # "LOST" => e.psn \in 1 .. born BY <1>1, <3>2 DEF Kernel
      <4>2. e.kind = "STOP" => e.psn \notin running' BY <2>1, <2>4, <3>2, <4>1 DEF EventsOK
      <4>3. ASSUME e.kind \in {"START", "RUNDOWN"}, NEW x \in running', pid_of'[x] = pid_of'[e.psn]
            PROVE  x = e.psn
        <5>1. e.psn \in 1 .. born /\ pid_of'[e.psn] = pid_of[e.psn] BY <2>2, <4>1, <4>3
        <5>2. CASE x \in running BY <1>2, <2>2, <3>2, <4>3, <5>1, <5>2 DEF EventsOK
        <5>3. CASE x = s
          <6>1. pid_of[e.psn] = p BY <2>3, <4>3, <5>1, <5>3
          <6>2. Undelivered(e.psn) BY <3>2, <4>3 DEF Undelivered
          <6>3. e.psn \in PSN BY <1>1, <5>1, ProcessAssumption DEF Kernel, ProcessesTypeOK, PSN
          <6> QED BY <2>5, <6>1, <6>2, <6>3
        <5> QED BY <2>1, <4>3, <5>2, <5>3
      <4> QED BY <4>2, <4>3
    <3>3. CASE e.kind = "START" /\ e.psn = s
      <4>1. Kernel' BY <1>1, <1>3, SpawnKernel
      <4>2. s \in running' BY <2>1
      <4> QED BY <3>3, <4>1, <4>2 DEF Kernel
    <3> QED BY <3>1, <3>2, <3>3
  <2> QED BY <2>6 DEF EventsOK
<1>4. ASSUME NEW s \in PSN, Exit(s) \/ EnumerateNext(s) PROVE EventsOK'
  <2>1. UNCHANGED pid_of /\ running' \subseteq running BY <1>4 DEF Exit, EnumerateNext, bornVars
  <2>2. PICK kind \in {"STOP", "RUNDOWN"} :
          /\ Report(kind, s)
          /\ kind = "STOP" => s \notin running'
          /\ kind = "RUNDOWN" => s \in running
    BY <1>2, <1>4 DEF Exit, EnumerateNext
  <2>3. ASSUME NEW e \in ToSet(etw')
        PROVE  /\ e.kind = "STOP" => e.psn \notin running'
               /\ e.kind \in {"START", "RUNDOWN"} =>
                    \A x \in running' : pid_of'[x] = pid_of'[e.psn] => x = e.psn
    <3>1. kind \in {"START", "STOP", "RUNDOWN"} BY <2>2
    <3>2. e \in ToSet(etw) \/ (e.kind = kind /\ e.psn = s) BY <1>1, <2>2, <3>1, ReportedWhat
    <3>3. CASE e \in ToSet(etw) BY <2>1, <3>3 DEF EventsOK
    <3>4. CASE e.kind = kind /\ e.psn = s BY <1>1, <2>1, <2>2, <3>4 DEF Kernel
    <3> QED BY <3>2, <3>3, <3>4
  <2> QED BY <2>3 DEF EventsOK
<1>5. CASE KernelStep BY <1>3, <1>4, <1>5 DEF KernelStep
<1>6. CASE ~KernelStep
  <2>1. UNCHANGED bornVars BY <1>6, RunningNext
  <2>2. UNCHANGED <<pid_of, running>> BY <2>1 DEF bornVars
  <2>3. \A e \in ToSet(etw') : e \in ToSet(etw) \/ e.kind = "LOST" BY <1>6, QueueNext
  <2>4. ASSUME NEW e \in ToSet(etw')
        PROVE  /\ e.kind = "STOP" => e.psn \notin running'
               /\ e.kind \in {"START", "RUNDOWN"} =>
                    \A x \in running' : pid_of'[x] = pid_of'[e.psn] => x = e.psn
    BY <2>2, <2>3 DEF EventsOK
  <2> QED BY <2>4 DEF EventsOK
<1> QED BY <1>5, <1>6

\* So in every state.
LEMMA EventsInvariant == ASSUME "start" \notin Overlaps PROVE Spec => []EventsOK
<1>1. Init => EventsOK
  <2> SUFFICES ASSUME Init PROVE EventsOK OBVIOUS
  <2>1. etw = <<>> BY DEF Init, ProcessesInit
  <2>2. ToSet(etw) = {} BY <2>1 DEF ToSet
  <2> QED BY <2>2 DEF EventsOK
<1> QED BY <1>1, EventsNext, CoreInvariant, PTL DEF Spec

-----------------------------------------------------------------------------
\* Running processes stay, and so do their manual hijacks.

\* Matching gives a manual hijack to s alone, and takes none.
LEMMA MatchingKeeps ==
  ASSUME NEW k \in TreeSet, NEW rs, NEW s, NEW x, Matching(k, rs, s, x), NEW c \in PSN \ {s}
  PROVE  ManualKept(k, x.tree, c)
<1>1. k.mark[c].manual \in BOOLEAN BY DEF TreeSet, MarkSet
<1>2. CASE x.tree.mark[c] = k.mark[c] BY <1>2 DEF ManualKept
<1>3. ASSUME NEW r \in Rules, NEW C, ProxiedMarks(k, x.tree, C, r) PROVE ManualKept(k, x.tree, c)
  <2>1. IF c \notin C \/ k.mark[c].manual THEN x.tree.mark[c] = k.mark[c]
        ELSE Marked(x.tree.mark[c], RuleGroup[r], FALSE, TRUE)
    BY <1>3 DEF ProxiedMarks
  <2>2. ASSUME ~k.mark[c].manual, Marked(x.tree.mark[c], RuleGroup[r], FALSE, TRUE)
        PROVE  ManualKept(k, x.tree, c)
    BY <1>1, <2>2 DEF ManualKept, Marked
  <2> QED BY <1>2, <2>1, <2>2
<1> QED BY <1>2, <1>3 DEF Matching

\* An insertion displaces none of the processes ss, when their PIDs are not that of s.
LEMMA HandledUndisturbed ==
  ASSUME Kernel, NEW m \in Managed, Shape(m.tree), NEW s \in 1 .. born, NEW ppid, NEW ppsn,
         NEW x \in Managed, Handled(m, s, ppid, ppsn, x),
         NEW ss, \A r \in ss : pid_of[r] = pid_of[s] => r = s
  PROVE  Undisturbed(m.tree, x.tree, ss) /\ s \in alive(x.tree)
<1>1. CASE s \in alive(m.tree) /\ x = m BY <1>1 DEF Undisturbed, ManualKept
<1>2. CASE s \notin alive(m.tree) /\ Insertion(m, s, ppid, ppsn, x)
  <2>1. PICK t, u, d : t = m.tree /\ u = x.tree /\ d = Displaced(t, s) OBVIOUS
  <2>2. alive(u) = (alive(t) \ {d}) \cup {s} BY <1>2, <2>1 DEF Insertion, Added
  <2>3. d # NONE => d \in alive(t) /\ pid_of[d] = pid_of[s] BY <2>1, DisplacedAlive
  <2>4. PICK k \in TreeSet : /\ SameLinks(k, u) /\ BaseMarks(t, s, k)
                             /\ Matching(k, forget_owner(m, pid_of[s]), s, x)
    BY <1>2, <2>1 DEF Insertion
  <2>5. ASSUME NEW r \in ss \cap alive(t) PROVE r \in alive(u) /\ ManualKept(t, u, r)
    <3>1. r # s /\ r # NONE /\ r \in PSN
      <4>1. alive(t) \subseteq PSN BY <2>1, AliveAt DEF Shape
      <4> QED BY <1>2, <2>1, <4>1 DEF alive
    <3>2. r # d BY <1>2, <2>1, <2>3, <3>1
    <3>3. k.mark[r] = t.mark[r] BY <2>1, <2>4, <3>1, <3>2 DEF BaseMarks
    <3>4. ManualKept(k, u, r) BY <2>1, <2>4, <3>1, MatchingKeeps
    <3> QED BY <2>2, <3>2, <3>3, <3>4 DEF ManualKept
  <2> QED BY <2>1, <2>2, <2>5 DEF Undisturbed
<1> QED BY <1>1, <1>2 DEF Handled

\* A new configuration takes no manual hijack and gives none.
LEMMA AppliedKeeps ==
  ASSUME NEW t \in TreeSet, NEW cfg, NEW x, Applied(t, cfg, x), NEW c \in PSN
  PROVE  ManualKept(t, x.tree, c)
<1>1. PICK hits, n : AppliedMark(t, x.tree, hits, n, c) BY DEF Applied
<1>2. t.mark[c].manual \in BOOLEAN BY DEF TreeSet, MarkSet
<1>3. CASE t.mark[c].manual BY <1>1, <1>3 DEF AppliedMark, Marked, ManualKept
<1>4. CASE ~t.mark[c].manual
  <2>1. \/ \E r \in 1 .. n : Marked(x.tree.mark[c], RuleGroup[r], FALSE, TRUE)
        \/ x.tree.mark[c] = Unmarked \/ x.tree.mark[c] = t.mark[c]
    BY <1>1, <1>4 DEF AppliedMark
  <2>2. x.tree.mark[c].manual = FALSE BY <1>2, <1>4, <2>1 DEF Marked, Unmarked
  <2> QED BY <1>2, <1>4, <2>2 DEF ManualKept
<1> QED BY <1>2, <1>3, <1>4

\* Every step: the user alone takes or gives a manual hijack, and what runs stays.
LEMMA UndisturbedNext ==
  ASSUME Core, EventsOK, [Next]_vars
  PROVE  \A s \in running \cap alive(tree) :
           s \in alive(tree') /\ (commands' # commands \/ ManualKept(tree, tree', s))
<1>1. Kernel /\ ConsumerTypeOK /\ Shape(tree) /\ state \in Managed /\ Shape(state.tree)
      /\ commands \in Nat
  BY StateParts, ManagerAssumption DEF Core, FlagsOK
<1>2. alive(tree) \subseteq PSN BY <1>1, AliveAt DEF Shape
<1> SUFFICES Undisturbed(tree, tree', running) \/ (alive(tree') = alive(tree) /\ commands' # commands)
  BY DEF Undisturbed
<1>3. CASE UNCHANGED tree BY <1>3 DEF Undisturbed, ManualKept
<1>4. CASE HandleStart
  <2>1. PICK x : /\ Moves(x) /\ Head(etw).psn \in 1 .. born
                 /\ Handled(state, Head(etw).psn, parent_pid_of(Head(etw).psn),
                            parent_of[Head(etw).psn], x)
    BY <1>4, HandleStartMoves
  <2>2. PICK m, s, a, b : /\ m = state /\ s = Head(etw).psn /\ a = parent_pid_of(Head(etw).psn)
                          /\ b = parent_of[Head(etw).psn]
    OBVIOUS
  <2>3. Head(etw) \in ToSet(etw) /\ Head(etw).kind \in {"START", "RUNDOWN"}
    BY <1>1, <1>4, FetchedEvent DEF HandleStart
  <2>4. PICK ss : ss = running OBVIOUS
  <2>5. \A r \in ss : pid_of[r] = pid_of[s] => r = s BY <2>2, <2>3, <2>4 DEF EventsOK
  <2>6. /\ m \in Managed /\ Shape(m.tree) /\ x \in Managed /\ s \in 1 .. born
        /\ Handled(m, s, a, b, x)
    BY <1>1, <2>1, <2>2 DEF Moves
  <2>7. Undisturbed(m.tree, x.tree, ss) BY <1>1, <2>5, <2>6, HandledUndisturbed
  <2> QED BY <2>1, <2>2, <2>4, <2>7, StateParts DEF Moves, Becomes
<1>5. CASE HandleStop
  <2>1. PICK x : Moves(x) /\ Stopped(Head(etw).psn, x) BY <1>5, HandleStopMoves
  <2>2. Head(etw) \in ToSet(etw) /\ Head(etw).kind = "STOP"
    BY <1>1, <1>5, FetchedEvent DEF HandleStop
  <2>3. Head(etw).psn \notin running BY <2>2 DEF EventsOK
  <2>4. tree' = x.tree BY <2>1 DEF Moves, Becomes
  <2>5. CASE x = state BY <1>3, <2>4, <2>5, StateParts
  <2>6. PICK s : s = Head(etw).psn OBVIOUS
  <2>7. CASE Removed(tree, s, x.tree)
    <3>1. PICK t, u, ss : t = tree /\ u = x.tree /\ ss = running OBVIOUS
    <3>2. /\ alive(u) = alive(t) \ {s} /\ alive(t) \subseteq PSN /\ s \notin ss
          /\ \A c \in PSN : c # s => u.mark[c] = t.mark[c]
      BY <1>2, <2>3, <2>6, <2>7, <3>1 DEF Removed
    <3>3. Undisturbed(t, u, ss) BY <3>2 DEF Undisturbed, ManualKept
    <3> QED BY <2>4, <3>1, <3>3
  <2> QED BY <2>1, <2>5, <2>6, <2>7 DEF Stopped
<1>6. CASE GraceTimer
  <2>1. PICK x : Moves(x) /\ Rooted(x) BY <1>6, GraceTimerMoves
  <2>2. tree' = x.tree /\ alive(x.tree) = alive(tree) /\ x.tree.mark = tree.mark
    BY <2>1 DEF Moves, Becomes, Rooted
  <2> QED BY <2>2 DEF Undisturbed, ManualKept
<1>7. ASSUME NEW p \in Pids, Connect(p) PROVE Undisturbed(tree, tree', running)
  <2>1. PICK t, ss : t = tree /\ ss = running OBVIOUS
  <2> DEFINE S == {y \in Managed : Shape(y.tree) /\ Undisturbed(t, y.tree, ss)}
  <2>2. state \in S
    <3>1. Undisturbed(t, t, ss) BY DEF Undisturbed, ManualKept
    <3> QED BY <1>1, <2>1, <3>1, StateParts
  <2>3. \A c : IsChain(tree, c) /\ c = chain_from(tree, opened(p)) =>
          \A k \in 1 .. Len(c) : \A y \in S : \A x \in Managed :
            Shape(x.tree) /\ ChainStep(tree, c, k, y, x) => x \in S
    <3>1. ASSUME NEW c, IsChain(tree, c), NEW k \in 1 .. Len(c),
                 NEW y \in S, NEW x \in Managed, Shape(x.tree), ChainStep(tree, c, k, y, x)
          PROVE  x \in S
      <4>1. c[k] \in 1 .. born /\ c[k] \in running BY <1>1, <3>1, ChainElement
      <4>2. PICK s, a, b : /\ s = c[k] /\ a = parent_pid_of(c[k]) /\ b = chain_parent(tree, c, k)
        OBVIOUS
      <4>3. Handled(y, s, a, b, x) BY <3>1, <4>2 DEF ChainStep
      <4>4. \A r \in ss : pid_of[r] = pid_of[s] => r = s BY <1>1, <2>1, <4>1, <4>2 DEF Kernel
      <4>5. Shape(y.tree) /\ y \in Managed /\ Undisturbed(t, y.tree, ss) /\ s \in 1 .. born
        BY <4>1, <4>2
      <4>6. Undisturbed(y.tree, x.tree, ss) BY <1>1, <4>3, <4>4, <4>5, HandledUndisturbed
      <4>7. Undisturbed(t, x.tree, ss) BY <4>5, <4>6 DEF Undisturbed, ManualKept
      <4> QED BY <3>1, <4>7
    <3> QED BY <3>1
  <2>4. \A y \in S : y \in Managed /\ Shape(y.tree) OBVIOUS
  <2> HIDE DEF S
  <2>5. PICK x \in S : Moves(x) BY <1>7, <2>2, <2>3, <2>4, ConnectMoves
  <2> QED BY <2>1, <2>5 DEF S, Moves, Becomes
<1>8. CASE UserCommand
  <2>1. PICK x : Moves(x) /\ Commanded(x) BY <1>8, UserCommandMoves
  <2>2. alive(tree') = alive(tree) BY <2>1 DEF Moves, Becomes, Commanded, SameLinks
  <2>3. commands' = commands + 1 BY <1>8 DEF UserCommand, Hijack, Unhijack, Command
  <2> QED BY <1>1, <2>2, <2>3
<1>9. ASSUME NEW n \in snapshots, ApplyConfig(n) PROVE Undisturbed(tree, tree', running)
  <2>1. PICK x : Moves(x) /\ SameLinks(tree, x.tree) /\ Applied(tree, n.after, x)
    BY <1>9, ApplyConfigMoves
  <2>2. PICK t, u : t = tree /\ u = x.tree OBVIOUS
  <2>3. t \in TreeSet /\ alive(u) = alive(t) /\ Applied(t, n.after, x)
    BY <1>1, <2>1, <2>2 DEF SameLinks, Shape
  <2>4. \A c \in PSN : ManualKept(t, u, c) BY <2>2, <2>3, AppliedKeeps
  <2> QED BY <1>2, <2>1, <2>2, <2>3, <2>4 DEF Undisturbed, Moves, Becomes
<1>10. CASE \/ UNCHANGED vars \/ KernelStep \/ ConsumerStep \/ Start \/ RequestRundown \/ HandleLost
            \/ LostTimer \/ (RuleCommand /\ ~\E n \in snapshots : ApplyConfig(n))
  <2>1. UNCHANGED tree
    BY <1>10
       DEF vars, managerVars, KernelStep, ConsumerStep, Start, RequestRundown, HandleLost, LostTimer,
           RuleCommand, UpdateRule, ExcludePid, UnexcludePid, MutateRules
  <2> QED BY <1>3, <2>1
<1> QED BY <1>4, <1>5, <1>6, <1>7, <1>8, <1>9, <1>10 DEF Next, HandleEvent, Timers, RuleCommand

\* No event of another process removes a running process from the tree, and only the
\* user changes its manual hijack, whoever had its PID before.
THEOREM LiveUndisturbedCorrect == ASSUME "start" \notin Overlaps PROVE Spec => LiveUndisturbed
<1>1. Core /\ EventsOK /\ [Next]_vars =>
        [\A s \in running \cap alive(tree) :
           /\ s \in alive(tree')
           /\ commands' # commands
                \/ /\ tree'.mark[s].manual = tree.mark[s].manual
                   /\ tree.mark[s].manual => tree'.mark[s].group = tree.mark[s].group]_vars
  BY UndisturbedNext DEF ManualKept
<1> QED BY <1>1, EventsInvariant, CoreInvariant, PTL DEF Spec, LiveUndisturbed

-----------------------------------------------------------------------------
\* A running process is in the tree, or something that will put it there is pending.

\* A rundown has still to be asked for, a loss to be noticed, or the last request failed.
Excused ==
  \/ mgr # "on" \/ lost_pending \/ refused
  \/ \E e \in ToSet(etw) : e.kind = "LOST"
  \/ EventsLost # last_events_lost_
HeardOf(s) == s \in alive(tree) \/ Undelivered(s) \/ s \in rundown \/ Excused
HeardOK ==
  /\ mgr \in {"starting", "on"} => session = "open"
  /\ \A s \in running : HeardOf(s)

\* The kernel's steps: what starts or is enumerated is reported, or lost and counted.
LEMMA HeardKernel == ASSUME Core, HeardOK, KernelStep PROVE HeardOK'
<1>1. /\ Kernel /\ ConsumerTypeOK
      /\ EventsLost \in Nat /\ last_events_lost_ \in Nat /\ last_events_lost_ <= EventsLost
      /\ mgr \in {"off", "starting", "on", "blind"} /\ rundown \subseteq running
  BY DEF Core, Kernel, ProcessesTypeOK, ConsumerTypeOK, FlagsOK
<1>2. /\ last_events_lost_' = last_events_lost_ /\ refused' = refused
      /\ tree' = tree /\ mgr' = mgr /\ lost_pending' = lost_pending
  BY DEF KernelStep, consumerVars, managerVars
<1>3. PICK s \in PSN, kind \in {"START", "STOP", "RUNDOWN"} :
        /\ Report(kind, s) /\ session' = session
        /\ \A r \in running' : r \in running \/ (r = s /\ kind = "START")
        /\ \A r \in rundown \cap running' : r \in rundown' \/ (r = s /\ kind = "RUNDOWN")
  <2>1. ASSUME NEW s \in PSN, NEW p \in Pids, NEW parent \in 0 .. MaxPsn, Spawn(s, p, parent)
        PROVE  /\ Report("START", s) /\ session' = session
               /\ \A r \in running' : r \in running \/ r = s
               /\ rundown' = rundown
    BY <2>1 DEF Spawn
  <2>2. ASSUME NEW s \in PSN, Exit(s)
        PROVE  /\ Report("STOP", s) /\ session' = session
               /\ \A r \in running' : r \in running /\ r # s
               /\ \A r \in rundown : r = s \/ r \in rundown'
    BY <2>2 DEF Exit
  <2>3. ASSUME NEW s \in PSN, EnumerateNext(s)
        PROVE  /\ Report("RUNDOWN", s) /\ session' = session
               /\ \A r \in running' : r \in running
               /\ \A r \in rundown : r = s \/ r \in rundown'
    BY <2>3 DEF EnumerateNext, bornVars
  <2>4. CASE \E s \in PSN, p \in Pids, parent \in 0 .. MaxPsn : Spawn(s, p, parent)
    BY <2>1, <2>4
  <2>5. CASE \E s \in PSN : Exit(s) BY <2>2, <2>5
  <2>6. CASE \E s \in PSN : EnumerateNext(s) BY <2>3, <2>6
  <2> QED BY <2>4, <2>5, <2>6 DEF KernelStep
<1>4. /\ ToSet(etw) \subseteq ToSet(etw')
      /\ session = "open" =>
           \/ \E e \in ToSet(etw') : e.kind = kind /\ e.psn = s
           \/ EventsLost' = EventsLost + 1
      /\ EventsLost' \in {EventsLost, EventsLost + 1}
  BY <1>1, <1>3, ReportedWhat
<1>5. mgr # "on" => Excused' BY <1>2 DEF Excused
<1>6. EventsLost' = EventsLost + 1 => Excused' BY <1>1, <1>2 DEF Excused
<1>7. Excused => Excused'
  <2>1. EventsLost # last_events_lost_ => EventsLost' # last_events_lost_' BY <1>1, <1>2, <1>4
  <2> QED BY <1>2, <1>4, <2>1 DEF Excused
<1>8. mgr = "on" => session = "open" BY DEF HeardOK
<1>9. kind \in {"START", "RUNDOWN"} => Undelivered(s)' \/ Excused'
  BY <1>4, <1>5, <1>6, <1>8 DEF Undelivered
<1>10. \A r : Undelivered(r) => Undelivered(r)' BY <1>4 DEF Undelivered
<1>11. ASSUME NEW r \in running' PROVE HeardOf(r)'
  <2>1. CASE r = s /\ kind \in {"START", "RUNDOWN"} BY <1>9, <2>1 DEF HeardOf
  <2>2. CASE ~(r = s /\ kind \in {"START", "RUNDOWN"})
    <3>1. HeardOf(r) BY <1>3, <2>2 DEF HeardOK
    <3>2. r \in rundown => r \in rundown' BY <1>3, <2>2
    <3>3. r \in alive(tree) => r \in alive(tree)' BY <1>2 DEF alive
    <3> QED BY <1>7, <1>10, <3>1, <3>2, <3>3 DEF HeardOf
  <2> QED BY <2>1, <2>2
<1> QED BY <1>2, <1>3, <1>11 DEF HeardOK

\* Every step: who is not in the tree is still to be told of, or a loss to be noticed.
LEMMA HeardNext ==
  ASSUME Core, EventsOK, HeardOK, [Next]_vars PROVE HeardOK'
<1>1. Kernel /\ ConsumerTypeOK BY DEF Core
<1>2. CASE KernelStep BY <1>2, HeardKernel
<1>3. CASE ~KernelStep
  <2>1. running' = running BY <1>3, RunningNext DEF bornVars
  <2>2. \A s \in running \cap alive(tree) : s \in alive(tree') BY UndisturbedNext
  <2>3. alive(tree)' = alive(tree') BY DEF alive
  <2>4. CASE UNCHANGED <<processVars, consumerVars, mgr, lost_pending>>
    <3>1. UNCHANGED <<etw, rundown, EventsLost, last_events_lost_, refused, session, mgr, lost_pending>>
      BY <2>4 DEF processVars, consumerVars
    <3>2. Excused' = Excused BY <3>1 DEF Excused
    <3>3. \A s : Undelivered(s)' = Undelivered(s) BY <3>1 DEF Undelivered
    <3> QED BY <2>1, <2>2, <2>3, <3>1, <3>2, <3>3 DEF HeardOK, HeardOf
  <2>5. CASE ConsumerStep
    <3>1. etw' = Append(etw, [kind |-> "LOST", psn |-> NONE]) /\ session' = session /\ mgr' = mgr
      BY <2>5 DEF ConsumerStep, buffer_callback, managerVars
    <3>2. PICK l : l = [kind |-> "LOST", psn |-> NONE] OBVIOUS
    <3>3. l \in EtwEvent /\ l.kind = "LOST" BY <3>2 DEF EtwEvent
    <3>4. etw \in Seq(EtwEvent) BY <1>1 DEF Kernel, ProcessesTypeOK
    <3>5. l \in ToSet(Append(etw, l)) BY <3>3, <3>4, Appended
    <3>6. Excused' BY <3>1, <3>2, <3>3, <3>5 DEF Excused
    <3> QED BY <3>1, <3>6 DEF HeardOK, HeardOf
  <2>6. CASE Start
    <3>1. mgr' # "on" /\ (mgr' \in {"starting", "on"} => session' = "open") BY <2>6 DEF Start, start
    <3> QED BY <3>1 DEF HeardOK, HeardOf, Excused
  <2>7. CASE RequestRundown \/ LostTimer
    <3>1. rundown' = running \/ refused' = TRUE BY <2>7 DEF RequestRundown, LostTimer, request_rundown
    <3>2. session' = session /\ (mgr' \in {"starting", "on"} => mgr \in {"starting", "on"})
      BY <2>7 DEF RequestRundown, LostTimer, request_rundown
    <3> QED BY <2>1, <3>1, <3>2 DEF HeardOK, HeardOf, Excused
  <2>8. ASSUME NEW kinds, event_record_callback(kinds), UNCHANGED mgr,
               \/ lost_pending' = TRUE
               \/ /\ kinds \subseteq {"START", "RUNDOWN", "STOP"} /\ UNCHANGED lost_pending
                  /\ Head(etw).kind = "STOP" \/ Head(etw).psn \in alive(tree')
        PROVE  HeardOK'
    <3>1. /\ Head(etw) \in ToSet(etw) /\ Head(etw).kind \in kinds
          /\ ToSet(etw) = ToSet(etw') \cup {Head(etw)}
          /\ UNCHANGED <<session, rundown, EventsLost, consumerVars>>
      BY <1>1, <2>8, FetchedEvent
    <3>2. UNCHANGED <<last_events_lost_, refused>> BY <3>1 DEF consumerVars
    <3>3. CASE lost_pending' = TRUE
      BY <2>8, <3>1, <3>3 DEF HeardOK, HeardOf, Excused
    <3>4. CASE /\ kinds \subseteq {"START", "RUNDOWN", "STOP"} /\ UNCHANGED lost_pending
               /\ Head(etw).kind = "STOP" \/ Head(etw).psn \in alive(tree')
      <4>1. Head(etw).kind # "LOST" BY <3>1, <3>4
      <4>2. Excused => Excused' BY <2>8, <3>1, <3>2, <3>4, <4>1 DEF Excused
      <4>3. \A s : Undelivered(s) => Undelivered(s)' \/ s \in alive(tree')
        BY <3>1, <3>4 DEF Undelivered
      <4> QED BY <2>1, <2>2, <2>3, <2>8, <3>1, <4>2, <4>3 DEF HeardOK, HeardOf
    <3> QED BY <2>8, <3>3, <3>4
  <2>9. CASE HandleStart
    <3>1. PICK x : /\ Moves(x) /\ Head(etw).psn \in 1 .. born
                   /\ Handled(state, Head(etw).psn, parent_pid_of(Head(etw).psn),
                              parent_of[Head(etw).psn], x)
      BY <2>9, HandleStartMoves
    <3>2. Head(etw).psn \in alive(x.tree)
      BY <3>1 DEF Handled, Insertion, Added
    <3>3. tree' = x.tree BY <3>1 DEF Moves, Becomes
    <3>4. event_record_callback({"START", "RUNDOWN"}) /\ UNCHANGED <<mgr, lost_pending>>
      BY <2>9 DEF HandleStart
    <3> QED BY <2>8, <3>2, <3>3, <3>4
  <2>10. CASE HandleStop
    <3>1. event_record_callback({"STOP"}) /\ UNCHANGED <<mgr, lost_pending>> BY <2>10 DEF HandleStop
    <3>2. Head(etw).kind = "STOP" BY <1>1, <3>1, FetchedEvent
    <3> QED BY <2>8, <3>1, <3>2
  <2>11. CASE HandleLost
    <3>1. event_record_callback({"LOST"}) /\ UNCHANGED mgr /\ lost_pending' = TRUE
      BY <2>11 DEF HandleLost
    <3> QED BY <2>8, <3>1
  <2> QED BY <1>3, <2>4, <2>5, <2>6, <2>7, <2>9, <2>10, <2>11
          DEF Next, vars, managerVars, HandleEvent, Timers, GraceTimer, Connect, UserCommand, Hijack,
              Unhijack, RuleCommand, UpdateRule, ExcludePid, UnexcludePid, MutateRules, ApplyConfig
<1> QED BY <1>2, <1>3

\* Once every event is handled, nothing is being enumerated and no loss is left to
\* notice, no running process is missing, however many events were lost.
THEOREM RecoversCorrect == ASSUME "start" \notin Overlaps PROVE Spec => []Recovers
<1>1. Init => HeardOK BY DEF Init, ProcessesInit, HeardOK
<1>2. HeardOK => Recovers
  <2> SUFFICES ASSUME HeardOK, Quiescent PROVE running \subseteq alive(tree) BY DEF Recovers
  <2>1. ToSet(etw) = {} BY DEF Quiescent, ToSet
  <2>2. ~Excused BY <2>1 DEF Quiescent, Excused
  <2>3. \A s : ~Undelivered(s) BY <2>1 DEF Undelivered
  <2> QED BY <2>2, <2>3 DEF HeardOK, HeardOf, Quiescent
<1> QED BY <1>1, <1>2, HeardNext, EventsInvariant, CoreInvariant, PTL DEF Spec

-----------------------------------------------------------------------------
\* While no event is lost: who exits is told of once, and last.

\* Nothing is told of a process after its STOP.
Ordered(q) ==
  \A i, j \in 1 .. Len(q) : i < j /\ q[i].kind = "STOP" => q[j].psn # q[i].psn

\* An event of a process without a STOP on its way leaves the queue ordered.
LEMMA OrderedAppend ==
  ASSUME NEW q \in Seq(EtwEvent), NEW e \in EtwEvent, Ordered(q),
         \A f \in ToSet(q) : f.kind = "STOP" => e.psn # f.psn
  PROVE  Ordered(Append(q, e))
<1>1. PICK z : z = Append(q, e) OBVIOUS
<1>2. /\ Len(q) \in Nat /\ Len(z) = Len(q) + 1 /\ z[Len(q) + 1] = e
      /\ \A i \in 1 .. Len(q) : z[i] = q[i]
  BY <1>1, AppendProperties
<1>3. \A i \in 1 .. Len(q) : q[i] \in ToSet(q) BY DEF ToSet
<1>4. ASSUME NEW i \in 1 .. Len(z), NEW j \in 1 .. Len(z), i < j, z[i].kind = "STOP"
      PROVE  z[j].psn # z[i].psn
  <2>1. i \in 1 .. Len(q) BY <1>2, <1>4
  <2>2. CASE j \in 1 .. Len(q) BY <1>2, <1>4, <2>1, <2>2 DEF Ordered
  <2>3. CASE j = Len(q) + 1 BY <1>2, <1>3, <1>4, <2>1, <2>3
  <2> QED BY <1>2, <2>2, <2>3
<1> QED BY <1>1, <1>4 DEF Ordered

\* A STOP at the head is the last event of its process.
LEMMA OrderedTail ==
  ASSUME NEW q \in Seq(EtwEvent), q # <<>>, Ordered(q)
  PROVE  /\ Ordered(Tail(q))
         /\ Head(q).kind = "STOP" => \A e \in ToSet(Tail(q)) : e.psn # Head(q).psn
<1>1. PICK z : z = Tail(q) OBVIOUS
<1>2. /\ Len(q) \in Nat \ {0} /\ Len(z) = Len(q) - 1 /\ Head(q) = q[1]
      /\ z \in Seq(EtwEvent) /\ \A i \in 1 .. Len(z) : z[i] = q[i + 1]
  BY <1>1, HeadTailProperties, EmptySeq, LenProperties
<1>3. ASSUME NEW i \in 1 .. Len(z), NEW j \in 1 .. Len(z), i < j, z[i].kind = "STOP"
      PROVE  z[j].psn # z[i].psn
  <2>1. i + 1 \in 1 .. Len(q) /\ j + 1 \in 1 .. Len(q) /\ i + 1 < j + 1 BY <1>2, <1>3
  <2> QED BY <1>2, <1>3, <2>1 DEF Ordered
<1>4. ASSUME Head(q).kind = "STOP", NEW e \in ToSet(z) PROVE e.psn # Head(q).psn
  <2>1. PICK i \in 1 .. Len(z) : e = z[i] BY <1>2 DEF ToSet
  <2>2. 1 \in 1 .. Len(q) /\ i + 1 \in 1 .. Len(q) /\ 1 < i + 1 BY <1>2
  <2> QED BY <1>2, <1>4, <2>1, <2>2 DEF Ordered
<1> QED BY <1>1, <1>3, <1>4 DEF Ordered

\* Before the session is open nothing is known, and nothing is on its way.
OffOK == mgr = "off" => alive(tree) = {} /\ etw = <<>> /\ session # "open" /\ ~running_
\* Who is known or told of and has exited, will be told of.
StopsOK ==
  EventsLost = 0 /\ mgr \in {"starting", "on"} =>
    \A a \in PSN \ running : a \in alive(tree) \/ Undelivered(a) =>
      \E e \in ToSet(etw) : e.kind = "STOP" /\ e.psn = a
QueueOK == OffOK /\ Ordered(etw) /\ StopsOK

\* Who comes into the tree runs, or its START or RUNDOWN is handled; who is told to
\* have exited is not in it.
LEMMA AliveNext ==
  ASSUME Core, [Next]_vars
  PROVE  /\ \A a \in alive(tree') : \/ a \in alive(tree) \/ a \in running
                                    \/ HandleStart /\ a = Head(etw).psn
         /\ HandleStop => Head(etw).psn \notin alive(tree')
<1>1. Kernel /\ ConsumerTypeOK /\ Shape(tree) /\ state \in Managed /\ Shape(state.tree)
  BY StateParts DEF Core
<1>2. CASE HandleStop
  <2>1. PICK x : Moves(x) /\ Stopped(Head(etw).psn, x) BY <1>2, HandleStopMoves
  <2>2. tree' = x.tree BY <2>1 DEF Moves, Becomes
  <2> QED BY <2>1, <2>2, StateParts DEF Stopped, Removed
<1>3. SUFFICES ASSUME ~HandleStop, NEW a \in alive(tree')
      PROVE  a \in alive(tree) \/ a \in running \/ (HandleStart /\ a = Head(etw).psn)
  BY <1>2
<1>4. CASE HandleStart
  <2>1. PICK x : /\ Moves(x) /\ Head(etw).psn \in 1 .. born
                 /\ Handled(state, Head(etw).psn, parent_pid_of(Head(etw).psn),
                            parent_of[Head(etw).psn], x)
    BY <1>4, HandleStartMoves
  <2>2. tree' = x.tree BY <2>1 DEF Moves, Becomes
  <2>3. a \in alive(tree) \/ a = Head(etw).psn
    BY <1>3, <2>1, <2>2, StateParts DEF Handled, Insertion, Added
  <2> QED BY <1>4, <2>3
<1>5. CASE GraceTimer
  <2>1. PICK x : Moves(x) /\ Rooted(x) BY <1>5, GraceTimerMoves
  <2> QED BY <1>3, <2>1 DEF Moves, Becomes, Rooted
<1>6. ASSUME NEW p \in Pids, Connect(p) PROVE a \in alive(tree) \/ a \in running
  <2>1. PICK t, ss : t = tree /\ ss = running OBVIOUS
  <2> DEFINE S == {y \in Managed : Shape(y.tree) /\ alive(y.tree) \subseteq alive(t) \cup ss}
  <2>2. state \in S BY <1>1, <2>1, StateParts
  <2>3. \A c : IsChain(tree, c) /\ c = chain_from(tree, opened(p)) =>
          \A k \in 1 .. Len(c) : \A y \in S : \A x \in Managed :
            Shape(x.tree) /\ ChainStep(tree, c, k, y, x) => x \in S
    <3>1. ASSUME NEW c, IsChain(tree, c), NEW k \in 1 .. Len(c),
                 NEW y \in S, NEW x \in Managed, Shape(x.tree), ChainStep(tree, c, k, y, x)
          PROVE  x \in S
      <4>1. c[k] \in ss BY <1>1, <2>1, <3>1, ChainElement
      <4>2. alive(x.tree) \subseteq alive(y.tree) \cup {c[k]}
        BY <3>1 DEF ChainStep, Handled, Insertion, Added
      <4> QED BY <3>1, <4>1, <4>2
    <3> QED BY <3>1
  <2>4. \A y \in S : y \in Managed /\ Shape(y.tree) OBVIOUS
  <2> HIDE DEF S
  <2>5. PICK x \in S : Moves(x) BY <1>6, <2>2, <2>3, <2>4, ConnectMoves
  <2> QED BY <1>3, <2>1, <2>5 DEF S, Moves, Becomes
<1>7. CASE UserCommand
  <2>1. PICK x : Moves(x) /\ Commanded(x) BY <1>7, UserCommandMoves
  <2> QED BY <1>3, <2>1 DEF Moves, Becomes, Commanded, SameLinks
<1>8. ASSUME NEW n \in snapshots, ApplyConfig(n) PROVE a \in alive(tree)
  <2>1. PICK x : Moves(x) /\ SameLinks(tree, x.tree) BY <1>8, ApplyConfigMoves
  <2> QED BY <1>3, <2>1 DEF Moves, Becomes, SameLinks
<1>9. CASE \/ UNCHANGED vars \/ KernelStep \/ ConsumerStep \/ Start \/ RequestRundown \/ HandleLost
           \/ LostTimer \/ (RuleCommand /\ ~\E n \in snapshots : ApplyConfig(n))
  <2>1. UNCHANGED tree
    BY <1>9
       DEF vars, managerVars, KernelStep, ConsumerStep, Start, RequestRundown, HandleLost, LostTimer,
           RuleCommand, UpdateRule, ExcludePid, UnexcludePid, MutateRules
  <2> QED BY <1>3, <2>1
<1> QED BY <1>3, <1>4, <1>5, <1>6, <1>7, <1>8, <1>9 DEF Next, HandleEvent, Timers, RuleCommand

\* Before start(): no handler runs.
LEMMA OffNext == ASSUME Core, OffOK, [Next]_vars PROVE OffOK'
<1> SUFFICES ASSUME mgr' = "off"
    PROVE  alive(tree') = {} /\ etw' = <<>> /\ session' # "open" /\ ~running_'
  BY DEF OffOK, alive
<1>1. mgr = "off"
  BY DEF Next, vars, managerVars, KernelStep, ConsumerStep, Start, RequestRundown, HandleEvent, HandleStart,
         HandleStop, HandleLost, Timers, LostTimer, GraceTimer, Connect, UserCommand, Hijack, Unhijack,
         RuleCommand, UpdateRule, ExcludePid, UnexcludePid, MutateRules, ApplyConfig
<1>2. alive(tree) = {} /\ etw = <<>> /\ session # "open" /\ ~running_ BY <1>1 DEF OffOK
<1>3. CASE KernelStep
  <2>1. tree' = tree /\ running_' = running_ BY <1>3 DEF KernelStep, consumerVars, managerVars
  <2>2. session' = session /\ etw' = etw
    BY <1>2, <1>3 DEF KernelStep, Spawn, Exit, EnumerateNext, Report
  <2> QED BY <1>2, <2>1, <2>2
<1>4. CASE UNCHANGED <<tree, etw, session, running_>> BY <1>2, <1>4
<1>5. ~HandleEvent /\ ~ConsumerStep
  BY <1>2 DEF HandleEvent, HandleStart, HandleStop, HandleLost, event_record_callback, ConsumerStep,
              buffer_callback
<1>6. CASE GraceTimer
  <2>1. PICK x : Moves(x) /\ Rooted(x) BY <1>6, GraceTimerMoves
  <2>2. alive(tree') = alive(tree) BY <2>1 DEF Moves, Becomes, Rooted
  <2> QED BY <1>2, <1>6, <2>2 DEF GraceTimer, processVars, consumerVars
<1>7. CASE UserCommand
  <2>1. PICK x : Moves(x) /\ Commanded(x) BY <1>7, UserCommandMoves
  <2>2. alive(tree') = alive(tree) BY <2>1 DEF Moves, Becomes, Commanded, SameLinks
  <2> QED BY <1>2, <1>7, <2>2 DEF UserCommand, Hijack, Unhijack, processVars, consumerVars
<1>8. ~Start /\ ~RequestRundown /\ \A p \in Pids : ~Connect(p)
  BY <1>1 DEF Start, RequestRundown, Connect
<1> QED
  BY <1>1, <1>3, <1>4, <1>5, <1>6, <1>7, <1>8
     DEF Next, vars, processVars, consumerVars, managerVars, Timers, LostTimer, request_rundown,
         RuleCommand, UpdateRule, ExcludePid, UnexcludePid, MutateRules, ApplyConfig

\* A process that starts is new, and one that is enumerated or exits is running.
LEMMA OrderedNext ==
  ASSUME Core, EventsOK, Ordered(etw), [Next]_vars PROVE Ordered(etw')
<1>1. Kernel /\ ConsumerTypeOK BY DEF Core
<1>2. etw \in Seq(EtwEvent) BY <1>1 DEF Kernel, ProcessesTypeOK
<1>3. ASSUME NEW s \in PSN, NEW kind \in {"START", "STOP", "RUNDOWN"}, Report(kind, s),
             s = born + 1 \/ s \in running
      PROVE  Ordered(etw')
  <2>1. PICK e : e = [kind |-> kind, psn |-> s] OBVIOUS
  <2>2. e \in EtwEvent /\ e.psn = s BY <2>1 DEF EtwEvent
  <2>3. ASSUME NEW f \in ToSet(etw), f.kind = "STOP" PROVE e.psn # f.psn
    <3>1. f.psn \in 1 .. born /\ f.psn \notin running /\ born \in Nat
      BY <1>1, <2>3 DEF Kernel, ProcessesTypeOK, EventsOK
    <3> QED BY <1>3, <2>2, <3>1
  <2>4. Ordered(Append(etw, e)) BY <1>2, <2>2, <2>3, OrderedAppend
  <2> QED BY <1>3, <2>1, <2>4 DEF Report
<1>4. CASE KernelStep
  <2>1. rundown \subseteq running BY <1>1 DEF Kernel
  <2> QED BY <1>3, <1>4, <2>1 DEF KernelStep, Spawn, Exit, EnumerateNext
<1>5. CASE ConsumerStep
  <2>1. PICK e : e = [kind |-> "LOST", psn |-> NONE] OBVIOUS
  <2>2. e \in EtwEvent /\ e.psn = NONE BY <2>1 DEF EtwEvent
  <2>3. etw' = Append(etw, e) BY <1>5, <2>1 DEF ConsumerStep, buffer_callback
  <2>4. \A f \in ToSet(etw) : f.kind = "STOP" => e.psn # f.psn
    <3>1. \A f \in ToSet(etw) : f.kind = "STOP" => f.psn \in 1 .. born BY <1>1 DEF Kernel
    <3>2. NONE \notin 1 .. born BY DEF NONE
    <3> QED BY <2>2, <3>1, <3>2
  <2> QED BY <1>2, <2>2, <2>3, <2>4, OrderedAppend
<1>6. CASE HandleEvent
  <2>1. PICK kinds : event_record_callback(kinds)
    BY <1>6 DEF HandleEvent, HandleStart, HandleStop, HandleLost
  <2>2. etw' = Tail(etw) /\ etw # <<>> BY <1>1, <2>1, FetchedEvent
  <2> QED BY <1>2, <2>2, OrderedTail
<1>7. CASE UNCHANGED etw BY <1>7
<1> QED
  BY <1>4, <1>5, <1>6, <1>7
     DEF Next, vars, processVars, Start, start, RequestRundown, request_rundown, Timers, LostTimer,
         GraceTimer, Connect, UserCommand, Hijack, Unhijack, RuleCommand, UpdateRule, ExcludePid,
         UnexcludePid, MutateRules, ApplyConfig

\* While no event is lost, an exit is told of until the tree knows.
LEMMA StopsNext ==
  ASSUME Core, EventsOK, HeardOK, QueueOK, [Next]_vars PROVE StopsOK'
<1>1. Kernel /\ ConsumerTypeOK /\ EventsLost \in Nat
  BY ProcessAssumption DEF Core, Kernel, ProcessesTypeOK
<1>2. OffOK /\ Ordered(etw) /\ StopsOK BY DEF QueueOK
<1> DEFINE Due(a) == a \in alive(tree) \/ Undelivered(a)
           Announced(a) == \E e \in ToSet(etw) : e.kind = "STOP" /\ e.psn = a
<1> SUFFICES ASSUME EventsLost' = 0, mgr' \in {"starting", "on"},
                    NEW a \in PSN, a \notin running', Due(a)'
             PROVE  Announced(a)'
  BY DEF StopsOK
<1>3. EventsLost = 0 /\ (KernelStep => mgr = mgr')
  <2>1. CASE KernelStep
    <3>1. PICK s \in PSN, kind \in {"START", "STOP", "RUNDOWN"} : Report(kind, s)
      BY <2>1 DEF KernelStep, Spawn, Exit, EnumerateNext
    <3>2. EventsLost' \in {EventsLost, EventsLost + 1} BY <1>1, <3>1, ReportedWhat
    <3> QED BY <1>1, <2>1, <3>2 DEF KernelStep, managerVars
  <2>2. CASE ~KernelStep
    <3>1. EventsLost' = EventsLost
      BY <2>2
         DEF Next, vars, processVars, ConsumerStep, buffer_callback, Start, start, RequestRundown,
             request_rundown, HandleEvent, HandleStart, HandleStop, HandleLost, event_record_callback,
             Timers, LostTimer, GraceTimer, Connect, UserCommand, Hijack, Unhijack, RuleCommand,
             UpdateRule, ExcludePid, UnexcludePid, MutateRules, ApplyConfig
    <3> QED BY <2>2, <3>1
  <2> QED BY <2>1, <2>2
<1>4. mgr \in {"starting", "on"} => (a \notin running /\ Due(a) => Announced(a))
  BY <1>2, <1>3 DEF StopsOK
<1>5. CASE KernelStep
  <2>1. tree' = tree /\ mgr' = mgr BY <1>5 DEF KernelStep, managerVars
  <2>2. session = "open" BY <2>1 DEF HeardOK
  <2>3. PICK s \in PSN, kind \in {"START", "STOP", "RUNDOWN"} :
          /\ Report(kind, s)
          /\ a \notin running \/ (a = s /\ kind = "STOP")
          /\ kind # "STOP" => s \in running'
    <3>1. rundown \subseteq running BY <1>1 DEF Kernel
    <3> QED BY <1>5, <3>1 DEF KernelStep, Spawn, Exit, EnumerateNext, bornVars
  <2>4. /\ ToSet(etw) \subseteq ToSet(etw')
        /\ \A e \in ToSet(etw') : e \in ToSet(etw) \/ (e.kind = kind /\ e.psn = s)
        /\ \E e \in ToSet(etw') : e.kind = kind /\ e.psn = s
    BY <1>1, <1>3, <2>2, <2>3, ReportedWhat
  <2>5. CASE a = s /\ kind = "STOP" BY <2>4, <2>5
  <2>6. CASE ~(a = s /\ kind = "STOP")
    <3>1. a \notin running BY <2>3, <2>6
    <3>2. Undelivered(a)' => Undelivered(a) BY <2>3, <2>4, <2>6 DEF Undelivered
    <3>3. Due(a) BY <2>1, <3>2 DEF alive
    <3>4. Announced(a) BY <1>4, <2>1, <3>1, <3>3
    <3> QED BY <2>4, <3>4
  <2> QED BY <2>5, <2>6
<1>6. CASE ~KernelStep
  <2>1. running' = running BY <1>6, RunningNext DEF bornVars
  <2>2. a \notin running BY <2>1
  <2>3. alive(tree)' = alive(tree') BY DEF alive
  <2>4. a \in alive(tree') =>
          a \in alive(tree) \/ (HandleStart /\ a = Head(etw).psn)
    BY <2>2, AliveNext
  <2>5. CASE HandleEvent
    <3>1. PICK kinds : event_record_callback(kinds)
      BY <2>5 DEF HandleEvent, HandleStart, HandleStop, HandleLost
    <3>2. /\ ToSet(etw) = ToSet(etw') \cup {Head(etw)} /\ etw' = Tail(etw) /\ etw # <<>>
          /\ Head(etw) \in ToSet(etw) /\ Head(etw).kind \in kinds
      BY <1>1, <3>1, FetchedEvent
    <3>3. mgr' = mgr BY <2>5 DEF HandleEvent, HandleStart, HandleStop, HandleLost
    <3>4. Undelivered(a)' => Undelivered(a) BY <3>2 DEF Undelivered
    <3>5. HandleStart => Head(etw).kind \in {"START", "RUNDOWN"}
      <4>1. ASSUME HandleStart PROVE Head(etw).kind \in {"START", "RUNDOWN"}
        BY <4>1 DEF HandleStart, event_record_callback
      <4> QED BY <4>1
    <3>6. HandleStart /\ a = Head(etw).psn => Undelivered(a) BY <3>2, <3>5 DEF Undelivered
    <3>7. Due(a) BY <2>3, <2>4, <3>4, <3>6
    <3>8. PICK e \in ToSet(etw) : e.kind = "STOP" /\ e.psn = a BY <1>4, <2>2, <3>3, <3>7
    <3>9. CASE e = Head(etw)
      <4>1. HandleStop BY <2>5, <3>5, <3>8, <3>9 DEF HandleEvent, HandleLost, event_record_callback
      <4>2. a \notin alive(tree') BY <3>8, <3>9, <4>1, AliveNext
      <4>3. \A f \in ToSet(etw') : f.psn # a
        <5>1. etw \in Seq(EtwEvent) BY <1>1 DEF Kernel, ProcessesTypeOK
        <5> QED BY <1>2, <3>2, <3>8, <3>9, <5>1, OrderedTail
      <4> QED BY <2>3, <4>2, <4>3 DEF Undelivered
    <3>10. CASE e # Head(etw) BY <3>2, <3>8, <3>10
    <3> QED BY <3>9, <3>10
  <2>6. CASE ~HandleEvent
    <3>1. ~HandleStart BY <2>6 DEF HandleEvent
    <3>2. \A e \in ToSet(etw') : e \in ToSet(etw) \/ e.kind = "LOST" BY <1>6, QueueNext
    <3>3. ToSet(etw) \subseteq ToSet(etw')
      <4>1. CASE UNCHANGED etw BY <4>1
      <4>2. CASE ConsumerStep
        <5>1. EventsLost > last_events_lost_ BY <4>2 DEF ConsumerStep, buffer_callback
        <5>2. last_events_lost_ \in Nat BY <1>1 DEF ConsumerTypeOK
        <5> QED BY <1>3, <5>1, <5>2
      <4> QED
        BY <1>6, <2>6, <4>1, <4>2
           DEF Next, vars, processVars, Start, start, RequestRundown, request_rundown, Timers, LostTimer,
               GraceTimer, Connect, UserCommand, Hijack, Unhijack, RuleCommand, UpdateRule, ExcludePid,
               UnexcludePid, MutateRules, ApplyConfig
    <3>4. Undelivered(a)' => Undelivered(a)
      <4>1. ASSUME NEW e \in ToSet(etw'), e.kind # "STOP", e.psn = a
            PROVE  \E f \in ToSet(etw) : f.kind # "STOP" /\ f.psn = a
        <5>1. CASE e \in ToSet(etw) BY <4>1, <5>1
        <5>2. CASE e \notin ToSet(etw)
          <6>1. \A f \in ToSet(etw') : f.kind = "LOST" => f.psn = NONE
            <7>1. Kernel' BY CoreNext DEF Core
            <7>2. etw' \in Seq(EtwEvent) BY <7>1 DEF Kernel, ProcessesTypeOK
            <7>3. PICK q : q = etw' OBVIOUS
            <7>4. \A f \in ToSet(q) : f \in EtwEvent BY <7>2, <7>3 DEF ToSet
            <7>5. \A f \in EtwEvent : f.kind = "LOST" => f.psn = NONE BY DEF EtwEvent
            <7> QED BY <7>3, <7>4, <7>5
          <6>2. e.psn = NONE BY <3>2, <5>2, <6>1
          <6> QED BY <4>1, <6>2 DEF PSN, NONE
        <5> QED BY <5>1, <5>2
      <4> QED BY <4>1 DEF Undelivered
    <3>5. Due(a) BY <2>3, <2>4, <3>1, <3>4
    <3>6. mgr # "off"
      <4>1. ASSUME mgr = "off" PROVE FALSE
        <5>1. alive(tree) = {} /\ etw = <<>> BY <1>2, <4>1 DEF OffOK
        <5>2. ToSet(etw) = {} BY <5>1 DEF ToSet
        <5> QED BY <3>5, <5>1, <5>2 DEF Undelivered
      <4> QED BY <4>1
    <3>7. mgr \in {"starting", "on"}
      BY <1>6, <2>6, <3>6
         DEF Next, vars, managerVars, ConsumerStep, Start, RequestRundown, Timers, LostTimer, GraceTimer,
             Connect, UserCommand, Hijack, Unhijack, RuleCommand, UpdateRule, ExcludePid, UnexcludePid,
             MutateRules, ApplyConfig
    <3> QED BY <1>4, <2>2, <3>3, <3>5, <3>7
  <2> QED BY <2>5, <2>6
<1> QED BY <1>5, <1>6

\* Every step.
LEMMA QueueInvariantNext ==
  ASSUME Core, EventsOK, HeardOK, QueueOK, [Next]_vars PROVE QueueOK'
BY OffNext, OrderedNext, StopsNext DEF QueueOK, Ordered

-----------------------------------------------------------------------------
\* While no event is lost and no request refused: who is below its parent.

\* No loss, nothing to debounce; and before the first rundown no timer runs.
CalmOK ==
  /\ EventsLost = 0 => ~lost_pending /\ \A e \in ToSet(etw) : e.kind # "LOST"
  /\ mgr \in {"off", "starting"} => grace = "unset" /\ (EventsLost = 0 => ~refused)

\* Every step: a loss alone starts the debounce timer, and a rundown alone is refused.
LEMMA CalmNext == ASSUME Core, CalmOK, [Next]_vars PROVE CalmOK'
<1>1. /\ Kernel /\ ConsumerTypeOK /\ EventsLost \in Nat
      /\ mgr \in {"off", "starting", "on", "blind"}
  BY ProcessAssumption DEF Core, Kernel, ProcessesTypeOK, FlagsOK
<1>2. CASE KernelStep
  <2>1. UNCHANGED <<lost_pending, mgr, grace, refused>>
    BY <1>2 DEF KernelStep, consumerVars, managerVars
  <2>2. PICK s \in PSN, kind \in {"START", "STOP", "RUNDOWN"} : Report(kind, s)
    BY <1>2 DEF KernelStep, Spawn, Exit, EnumerateNext
  <2>3. /\ \A e \in ToSet(etw') : e \in ToSet(etw) \/ e.kind = kind
        /\ EventsLost' \in {EventsLost, EventsLost + 1}
    BY <1>1, <2>2, ReportedWhat
  <2> QED BY <1>1, <2>1, <2>2, <2>3 DEF CalmOK
<1>3. CASE ~KernelStep /\ EventsLost = 0
  <2>1. EventsLost' = EventsLost
    BY <1>3
       DEF Next, vars, processVars, ConsumerStep, buffer_callback, Start, start, RequestRundown,
           request_rundown, HandleEvent, HandleStart, HandleStop, HandleLost, event_record_callback,
           Timers, LostTimer, GraceTimer, Connect, UserCommand, Hijack, Unhijack, RuleCommand,
           UpdateRule, ExcludePid, UnexcludePid, MutateRules, ApplyConfig
  <2>2. ~ConsumerStep /\ ~LostTimer /\ ~HandleLost
    <3>1. last_events_lost_ \in Nat BY <1>1 DEF ConsumerTypeOK
    <3>2. ~ConsumerStep BY <1>3, <3>1 DEF ConsumerStep, buffer_callback
    <3>3. ~LostTimer BY <1>3 DEF LostTimer, CalmOK
    <3>4. ASSUME HandleLost PROVE FALSE
      <4>1. event_record_callback({"LOST"}) BY <3>4 DEF HandleLost
      <4>2. Head(etw) \in ToSet(etw) /\ Head(etw).kind = "LOST" BY <1>1, <4>1, FetchedEvent
      <4> QED BY <1>3, <4>2 DEF CalmOK
    <3> QED BY <3>2, <3>3, <3>4
  <2>3. ToSet(etw') \subseteq ToSet(etw)
    <3>1. CASE UNCHANGED etw BY <3>1
    <3>2. CASE HandleEvent
      <4>1. PICK kinds : event_record_callback(kinds)
        BY <3>2 DEF HandleEvent, HandleStart, HandleStop, HandleLost
      <4> QED BY <1>1, <4>1, FetchedEvent
    <3> QED
      BY <1>3, <2>2, <3>1, <3>2
         DEF Next, vars, processVars, Start, start, RequestRundown, request_rundown, Timers,
             GraceTimer, Connect, UserCommand, Hijack, Unhijack, RuleCommand, UpdateRule, ExcludePid,
             UnexcludePid, MutateRules, ApplyConfig
  <2>4. ~lost_pending'
    BY <1>3, <2>2
       DEF CalmOK, Next, vars, managerVars, Start, RequestRundown, HandleEvent, HandleStart, HandleStop,
           Timers, GraceTimer, Connect, UserCommand, Hijack, Unhijack, RuleCommand, UpdateRule,
           ExcludePid, UnexcludePid, MutateRules, ApplyConfig
  <2>5. mgr' \in {"off", "starting"} => grace' = "unset" /\ ~refused'
    BY <1>3, <2>2
       DEF CalmOK, Next, vars, managerVars, consumerVars, Start, start, RequestRundown, HandleEvent,
           HandleStart, HandleStop, event_record_callback, Timers, GraceTimer, Connect, UserCommand,
           Hijack, Unhijack, RuleCommand, UpdateRule, ExcludePid, UnexcludePid, MutateRules, ApplyConfig
  <2> QED BY <1>3, <2>3, <2>4, <2>5 DEF CalmOK
<1>4. CASE ~KernelStep /\ EventsLost # 0
  <2>1. EventsLost' = EventsLost
    BY <1>4
       DEF Next, vars, processVars, ConsumerStep, buffer_callback, Start, start, RequestRundown,
           request_rundown, HandleEvent, HandleStart, HandleStop, HandleLost, event_record_callback,
           Timers, LostTimer, GraceTimer, Connect, UserCommand, Hijack, Unhijack, RuleCommand,
           UpdateRule, ExcludePid, UnexcludePid, MutateRules, ApplyConfig
  <2>2. mgr' \in {"off", "starting"} => grace' = "unset"
    BY <1>4
       DEF CalmOK, Next, vars, managerVars, ConsumerStep, Start, RequestRundown, HandleEvent, HandleStart,
           HandleStop, HandleLost, Timers, LostTimer, GraceTimer, Connect, UserCommand, Hijack, Unhijack,
           RuleCommand, UpdateRule, ExcludePid, UnexcludePid, MutateRules, ApplyConfig
  <2> QED BY <1>4, <2>1, <2>2 DEF CalmOK
<1> QED BY <1>2, <1>3, <1>4

\* Who has a running parent is told so; who is told of a running parent is below it,
\* or waits for it while the tree does not have it.
Told(t) == \A c \in alive(t) : parent_of[c] \in running => t.parent_psn[c] = parent_of[c]
WaitsFor(t, os, c, q) == \E k \in 1 .. Len(t.entries) : t.entries[k] = c /\ <<q, k>> \in os
BelowOrWaits(t, os, c) ==
  \/ t.parent[c] = t.parent_psn[c]
  \/ t.parent_psn[c] \notin alive(t) /\ WaitsFor(t, os, c, t.parent_psn[c])
Awaited(t, os) == \A c \in alive(t) : t.parent_psn[c] \in running => BelowOrWaits(t, os, c)

\* The insertion of s, whose PID no other running process has.
Unrivalled(s) == \A r \in running : pid_of[r] = pid_of[s] => r = s

\* Who is displaced has exited, so its heirs' parents have not been told of as running.
LEMMA ToldHandled ==
  ASSUME Kernel, NEW m \in Managed, Shape(m.tree), LinksOK(m), NEW s \in 1 .. born, Unrivalled(s),
         NEW ppid, NEW ppsn, parent_of[s] \in running => ppsn = parent_of[s],
         NEW x, Handled(m, s, ppid, ppsn, x), Told(m.tree)
  PROVE  Told(x.tree)
<1>1. CASE x = m BY <1>1
<1>2. CASE s \notin alive(m.tree) /\ Insertion(m, s, ppid, ppsn, x)
  <2>1. PICK t, u, d : t = m.tree /\ u = x.tree /\ d = Displaced(t, s) OBVIOUS
  <2>2. /\ Added(t, s, ppid, ppsn, u) /\ s \notin alive(t) /\ Shape(t) /\ FactsOK(t) /\ Told(t)
        /\ alive(t) \subseteq PSN
    BY <1>2, <2>1, AliveAt DEF Insertion, LinksOK, Shape
  <2>3. alive(u) = (alive(t) \ {d}) \cup {s} BY <2>1, <2>2 DEF Added
  <2>4. /\ s \in PSN /\ s # d
        /\ d # NONE => d \in alive(t) /\ pid_of[d] = pid_of[s]
    BY <2>1, <2>2, DisplacedAlive DEF PSN, NONE
  <2>5. d \notin running
    <3>1. \A r \in running : r # NONE BY DEF Kernel, ProcessesTypeOK, NONE
    <3> QED BY <2>4, <3>1 DEF Unrivalled
  <2>6. ASSUME NEW c \in alive(u), parent_of[c] \in running PROVE u.parent_psn[c] = parent_of[c]
    <3>1. CASE c = s
      <4>1. u.parent_psn[s] = ppsn BY <2>2, <2>4 DEF Added
      <4> QED BY <2>6, <3>1, <4>1
    <3>2. CASE c # s
      <4>1. c \in alive(t) /\ c \in PSN /\ c # d BY <2>2, <2>3, <3>2
      <4>2. t.parent_psn[c] = parent_of[c] BY <2>2, <2>6, <4>1 DEF Told
      <4>3. c \notin Heirs(t, d)
        <5>1. ASSUME c \in Heirs(t, d) PROVE FALSE
          <6>1. d # NONE /\ t.parent[c] = d BY <5>1 DEF Heirs, children
          <6>2. t.parent_psn[c] = d BY <2>2, <4>1, <6>1 DEF FactsOK
          <6> QED BY <2>5, <2>6, <4>2, <6>2
        <5> QED BY <5>1
      <4>4. u.parent_psn[c] = t.parent_psn[c] BY <2>1, <2>2, <3>2, <4>1, <4>3, InsertedFacts
      <4> QED BY <4>2, <4>4
    <3> QED BY <3>1, <3>2
  <2> QED BY <2>1, <2>6 DEF Told
<1> QED BY <1>1, <1>2 DEF Handled

\* The inserted process, the heirs, the adopted and the others.
LEMMA AwaitedHandled ==
  ASSUME Kernel, NEW m \in Managed, Shape(m.tree), LinksOK(m), NEW s \in 1 .. born, Unrivalled(s),
         NEW ppid, ppid = parent_pid_of(s), NEW ppsn \in {NONE, parent_of[s]},
         NEW x \in Managed, Shape(x.tree), Handled(m, s, ppid, ppsn, x), Awaited(m.tree, m.orphans)
  PROVE  Awaited(x.tree, x.orphans)
<1>1. CASE x = m BY <1>1
<1>2. CASE s \notin alive(m.tree) /\ Insertion(m, s, ppid, ppsn, x)
  <2>1. PICK t, u, d, n, W, os, us :
          /\ t = m.tree /\ u = x.tree /\ d = Displaced(t, s) /\ n = Len(t.entries)
          /\ W = WithOrphan(m, s, ppid, ppsn) /\ os = m.orphans /\ us = x.orphans
    OBVIOUS
  <2>2. /\ Added(t, s, ppid, ppsn, u) /\ s \notin alive(t) /\ Shape(t) /\ FactsOK(t)
        /\ Awaited(t, os) /\ alive(t) \subseteq PSN /\ n \in Nat /\ DOMAIN t.entries = 1 .. n
    BY <1>2, <2>1, AliveAt DEF Insertion, LinksOK, Shape
  <2>3. LinksOK(x) BY LinksHandled
  <2>4. FactsOK(u) /\ Shape(u) BY <2>1, <2>3 DEF LinksOK
  <2>5. /\ alive(u) = (alive(t) \ {d}) \cup {s}
        /\ Len(u.entries) = n + 1 /\ u.entries[n + 1] = s
        /\ \A k \in 1 .. n : u.entries[k] = IF t.entries[k] = d THEN NONE ELSE t.entries[k]
    BY <2>1, <2>2 DEF Added
  <2>6. /\ s \in PSN /\ s # d /\ pid_of[s] \in Pids
        /\ d # NONE => d \in alive(t) /\ pid_of[d] = pid_of[s]
    BY <2>1, <2>2, DisplacedAlive DEF PSN, NONE
  <2>7. \A r \in running : r # NONE /\ r \in 1 .. born /\ pid_of[r] \in Pids
    BY DEF Kernel, ProcessesTypeOK, NONE
  <2>8. d \notin running BY <2>6, <2>7 DEF Unrivalled
  <2>9. u.parent_psn[s] = ppsn BY <2>2, <2>6 DEF Added
  <2>10. /\ \A c \in PSN : u.parent[c] = NewLink(m, s, ppid, ppsn, u, c)
         /\ us = {o \in W : o[1] # s}
    BY <1>2, <2>1 DEF Insertion
  <2>11. DOMAIN u.entries = 1 .. n + 1
    BY <2>4, <2>5, AliveAt DEF Shape
  <2>12. W = os \cup IF ppsn = NONE \/ Linkable(t, s, ppid, ppsn) THEN {} ELSE {<<ppsn, n + 1>>}
    BY <2>1 DEF WithOrphan
  <2>13. ASSUME NEW c \in Adopted(u, W, s)
         PROVE  c \in alive(t) /\ c # d /\ t.parent_psn[c] = s /\ t.parent[c] = NONE
    <3>1. c \in Adopted(x.tree, WithOrphan(m, s, ppid, ppsn), s) BY <2>1
    <3>2. /\ c \in alive(m.tree) /\ c # Displaced(m.tree, s)
          /\ m.tree.parent_psn[c] = s /\ m.tree.parent[c] = NONE
      BY <1>2, <3>1, AdoptedWaited
    <3> QED BY <2>1, <3>2
  <2>14. ASSUME NEW c \in alive(u), u.parent_psn[c] \in running PROVE BelowOrWaits(u, us, c)
    <3>1. CASE c = s
      <4>1. ppsn \in running /\ ppsn # NONE BY <2>7, <2>9, <2>14, <3>1
      <4>2. parent_of[s] = ppsn /\ ppsn # s /\ ppid = pid_of[ppsn]
        <5>1. parent_of[s] < s /\ s \in Nat BY DEF Kernel, ProcessesTypeOK
        <5>2. parent_of[s] = ppsn BY <4>1
        <5> QED BY <4>1, <5>1, <5>2 DEF parent_pid_of, pidOf
      <4>3. s \notin Adopted(u, W, s) BY <2>2, <2>13
      <4>4. CASE Linkable(t, s, ppid, ppsn)
        <5>1. u.parent[s] = ppsn BY <2>1, <2>6, <2>10, <4>3, <4>4 DEF NewLink
        <5> QED BY <2>9, <3>1, <5>1 DEF BelowOrWaits
      <4>5. CASE ~Linkable(t, s, ppid, ppsn)
        <5>1. ppsn \notin alive(u)
          <6>1. ASSUME ppsn \in alive(u) PROVE FALSE
            <7>1. ppsn \in alive(t) BY <2>5, <4>2, <6>1
            <7>2. t.side_map[ppid] = ppsn /\ ppid \in Pids BY <2>2, <2>7, <4>1, <4>2, <7>1 DEF Shape
            <7>3. ppid # pid_of[s] BY <4>1, <4>2 DEF Unrivalled
            <7> QED BY <4>1, <4>5, <7>2, <7>3 DEF Linkable
          <6> QED BY <6>1
        <5>2. <<ppsn, n + 1>> \in us BY <2>10, <2>12, <4>1, <4>2, <4>5
        <5>3. n + 1 \in 1 .. Len(u.entries) BY <2>2, <2>5
        <5> QED BY <2>5, <2>9, <3>1, <5>1, <5>2, <5>3 DEF BelowOrWaits, WaitsFor
      <4> QED BY <4>4, <4>5
    <3>2. CASE c # s /\ c \in Heirs(t, d)
      <4>1. c \in alive(t) /\ c \in PSN /\ c # d /\ t.parent[c] = d /\ d # NONE
        BY <2>2, <2>5, <3>2 DEF Heirs, children
      <4>2. c \notin Adopted(u, W, s) BY <2>13, <4>1
      <4>3. u.parent[c] = t.parent[d] BY <2>1, <2>10, <3>2, <4>1, <4>2 DEF NewLink, BaseLink
      <4>4. u.parent_psn[c] = t.parent[d] BY <2>1, <2>2, <3>2, <4>1, InsertedFacts
      <4> QED BY <4>3, <4>4 DEF BelowOrWaits
    <3>3. CASE c # s /\ c \notin Heirs(t, d)
      <4>1. c \in alive(t) /\ c \in PSN /\ c # d BY <2>2, <2>5, <3>3
      <4>2. PICK q : q = t.parent_psn[c] OBVIOUS
      <4>3. u.parent_psn[c] = q BY <2>1, <2>2, <3>3, <4>1, <4>2, InsertedFacts
      <4>4. q \in running /\ q # NONE /\ q # d BY <2>7, <2>8, <2>14, <4>3
      <4>5. BelowOrWaits(t, os, c) BY <2>2, <4>1, <4>2, <4>4 DEF Awaited
      <4>6. CASE c \in Adopted(u, W, s)
        <5>1. u.parent[c] = s BY <2>1, <2>10, <4>1, <4>6 DEF NewLink
        <5> QED BY <2>13, <4>2, <4>3, <4>6, <5>1 DEF BelowOrWaits
      <4>7. CASE c \notin Adopted(u, W, s) /\ t.parent[c] = q
        <5>1. u.parent[c] = q BY <2>1, <2>10, <3>3, <4>1, <4>7 DEF NewLink, BaseLink
        <5> QED BY <4>3, <5>1 DEF BelowOrWaits
      <4>8. CASE c \notin Adopted(u, W, s) /\ t.parent[c] # q
        <5>1. q \notin alive(t) /\ WaitsFor(t, os, c, q) BY <4>2, <4>5, <4>8 DEF BelowOrWaits
        <5>2. PICK k \in 1 .. n : t.entries[k] = c /\ <<q, k>> \in os BY <2>1, <5>1 DEF WaitsFor
        <5>3. k \in 1 .. n + 1 /\ u.entries[k] = c /\ <<q, k>> \in W BY <2>2, <2>5, <2>12, <4>1, <5>2
        <5>4. c # NONE BY <4>1 DEF alive
        <5>5. q # s
          <6>1. PICK o : o = <<q, k>> OBVIOUS
          <6>2. o[1] = q /\ o[2] = k /\ o \in W BY <5>3, <6>1
          <6>3. q = s => c \in Adopted(u, W, s) BY <2>11, <5>3, <5>4, <6>2 DEF Adopted
          <6> QED BY <4>8, <6>3
        <5>6. <<q, k>> \in us BY <2>10, <5>3, <5>5
        <5>7. q \notin alive(u) BY <2>5, <5>1, <5>5
        <5> QED BY <2>5, <4>3, <5>3, <5>6, <5>7 DEF BelowOrWaits, WaitsFor
      <4> QED BY <4>6, <4>7, <4>8
    <3> QED BY <3>1, <3>2, <3>3
  <2> QED BY <2>1, <2>14 DEF Awaited
<1> QED BY <1>1, <1>2 DEF Handled

\* The insertions keep who is told and who waits.
Heard == EventsLost = 0 /\ mgr \in {"starting", "on"} /\ ~refused
TiesOK(m) == Told(m.tree) /\ (Heard => Awaited(m.tree, m.orphans))

\* Both, of one insertion.
LEMMA TiesHandled ==
  ASSUME Kernel, NEW m \in Managed, Shape(m.tree), LinksOK(m), NEW s \in 1 .. born, Unrivalled(s),
         NEW ppid, ppid = parent_pid_of(s), NEW ppsn \in {NONE, parent_of[s]},
         parent_of[s] \in running => ppsn = parent_of[s],
         NEW x \in Managed, Shape(x.tree), Handled(m, s, ppid, ppsn, x), TiesOK(m)
  PROVE  TiesOK(x)
BY ToldHandled, AwaitedHandled DEF TiesOK

\* When the recorded parent PIDs lead to the parents or to nobody, a chain element
\* is told of its parent if that runs.
LEMMA ChainParentRuns ==
  ASSUME Kernel, Shape(tree), NEW c, IsChain(tree, c), \A s \in ToSet(c) : ParentKnown(s),
         NEW k \in 1 .. Len(c), parent_of[c[k]] \in running
  PROVE  chain_parent(tree, c, k) = parent_of[c[k]]
<1>1. /\ Len(c) \in Nat \ {0} /\ DOMAIN c = 1 .. Len(c)
      /\ \A i \in 1 .. Len(c) : c[i] \in running /\ c[i] \in 1 .. born /\ c[i] \in PSN
  BY ChainElement
<1>2. PICK s, q, p, h : s = c[k] /\ q = parent_of[s] /\ p = pidOf(q) /\ h = find_by_pid(tree, p)
  OBVIOUS
<1>3. s \in ToSet(c) BY <1>1, <1>2 DEF ToSet
<1>4. q \in running /\ q # NONE /\ q \in 1 .. born BY <1>2 DEF Kernel, ProcessesTypeOK, NONE
<1>5. p = pid_of[q] /\ p \in Pids /\ p # NoPid BY <1>2, <1>4, ProcessAssumption DEF pidOf, Kernel
<1>6. owner(p) = q
  <2>1. owner(p) \in running /\ pid_of[owner(p)] = p BY <1>4, <1>5, OwnerRuns
  <2> QED BY <1>4, <1>5, <2>1 DEF Kernel
<1>7. q \notin Unopenable \/ h = q BY <1>2, <1>3, <1>4, <1>6 DEF ParentKnown
<1>8. parent_pid_of(s) = p BY <1>2 DEF parent_pid_of
<1>9. opened(p) = q \/ (opened(p) = NONE /\ h = q) BY <1>6, <1>7 DEF opened
<1>10. CASE k < Len(c)
  <2>1. k \in 1 .. Len(c) - 1 BY <1>1, <1>10
  <2>2. opened(p) = c[k + 1] /\ c[k + 1] # NONE BY <1>2, <1>8, <2>1 DEF IsChain
  <2> QED BY <1>2, <1>9, <1>10, <2>2 DEF chain_parent
<1>11. CASE ~(k < Len(c))
  <2>1. Last(c) = s BY <1>1, <1>2, <1>11 DEF Last
  <2>2. chain_parent(tree, c, k) = top_parent_psn(tree, s) BY <1>11, <2>1 DEF chain_parent
  <2>3. q <= s
    <3>1. q < s /\ s \in 1 .. born /\ born \in Nat BY <1>1, <1>2 DEF Kernel, ProcessesTypeOK
    <3> QED BY <1>4, <3>1
  <2>4. CASE opened(p) = q BY <1>2, <1>4, <1>5, <1>8, <2>2, <2>4 DEF top_parent_psn
  <2>5. CASE opened(p) = NONE /\ h = q
    BY <1>2, <1>5, <1>8, <2>2, <2>3, <2>5 DEF top_parent_psn
  <2> QED BY <1>2, <1>9, <2>4, <2>5
<1> QED BY <1>10, <1>11

\* The STOP of s, which has exited, when no orphan waits.
LEMMA TiesRemoved ==
  ASSUME Kernel, NEW t, Shape(t), FactsOK(t), NEW s \in alive(t), s \notin running,
         NEW u, Shape(u), Removed(t, s, u)
  PROVE  /\ Told(t) => Told(u)
         /\ Awaited(t, {}) => Awaited(u, {})
<1>1. /\ alive(u) = alive(t) \ {s}
      /\ \A c \in PSN : c # s =>
           /\ u.parent_psn[c] = IF c \in children(t, s) THEN t.parent[s] ELSE t.parent_psn[c]
           /\ u.parent_pid[c] = IF c \in children(t, s) THEN pidOf(t.parent[s]) ELSE t.parent_pid[c]
  BY DEF Removed
<1>2. alive(t) \subseteq PSN /\ NONE \notin alive(t) BY AliveAt DEF Shape, alive
<1>3. \A r \in running : r # NONE /\ r \in 1 .. born BY DEF Kernel, ProcessesTypeOK, NONE
<1>4. ASSUME NEW c \in alive(u), c \in children(t, s)
      PROVE  /\ c \in alive(t) /\ c \in PSN /\ c # s /\ t.parent[c] = s /\ t.parent_psn[c] = s
             /\ u.parent_psn[c] = t.parent[s]
  <2>1. c \in alive(t) /\ c \in PSN /\ c # s /\ t.parent[c] = s BY <1>1, <1>2, <1>4 DEF children
  <2>2. t.parent_psn[c] = s BY <1>2, <2>1 DEF FactsOK
  <2> QED BY <1>1, <1>4, <2>1, <2>2
<1>5. ASSUME NEW c \in alive(u), c \notin children(t, s)
      PROVE  /\ c \in alive(t) /\ c \in PSN /\ c # s /\ t.parent[c] # s
             /\ u.parent_psn[c] = t.parent_psn[c] /\ u.parent_pid[c] = t.parent_pid[c]
  <2>1. c \in alive(t) /\ c \in PSN /\ c # s BY <1>1, <1>2
  <2>2. t.parent[c] # s BY <1>5, <2>1 DEF children
  <2> QED BY <1>1, <1>5, <2>1, <2>2
<1>6. ASSUME Told(t), NEW c \in alive(u), parent_of[c] \in running
      PROVE  u.parent_psn[c] = parent_of[c]
  <2>1. CASE c \in children(t, s) BY <1>4, <1>6, <2>1 DEF Told
  <2>2. CASE c \notin children(t, s) BY <1>5, <1>6, <2>2 DEF Told
  <2> QED BY <2>1, <2>2
<1>7. ASSUME Awaited(t, {}), NEW c \in alive(u), u.parent_psn[c] \in running
      PROVE  BelowOrWaits(u, {}, c)
  <2>1. CASE c \in children(t, s)
    <3>1. PICK g : g = t.parent[s] OBVIOUS
    <3>2. g \in running /\ u.parent_psn[c] = g BY <1>4, <1>7, <2>1, <3>1
    <3>3. g \in alive(t) BY <1>3, <3>1, <3>2 DEF FactsOK
    <3>4. g \in alive(u) BY <1>1, <3>2, <3>3
    <3>5. ChildrenUp(t, u) BY RemovedMovesUp
    <3>6. s \in alive(t) \ alive(u) BY <1>1
    <3>7. u.parent[c] = g BY <2>1, <3>1, <3>4, <3>5, <3>6 DEF ChildrenUp
    <3> QED BY <3>2, <3>7 DEF BelowOrWaits
  <2>2. CASE c \notin children(t, s)
    <3>1. PICK q : q = t.parent_psn[c] OBVIOUS
    <3>2. /\ c \in alive(t) /\ c \in PSN /\ c # s /\ t.parent[c] # s
          /\ u.parent_psn[c] = q /\ u.parent_pid[c] = t.parent_pid[c]
      BY <1>5, <2>2, <3>1
    <3>3. q \in running /\ q # NONE BY <1>3, <1>7, <3>2
    <3>4. t.parent[c] = q
      <4>1. BelowOrWaits(t, {}, c) BY <1>7, <3>1, <3>2, <3>3 DEF Awaited
      <4> QED BY <3>1, <4>1 DEF BelowOrWaits, WaitsFor
    <3>5. q \in alive(t) /\ t.parent_pid[c] = pid_of[q] BY <3>1, <3>2, <3>3, <3>4 DEF FactsOK
    <3>6. q \in alive(u) /\ pid_of[q] \in Pids BY <1>1, <1>3, <3>3, <3>5 DEF Kernel
    <3>7. u.side_map[pid_of[q]] = q /\ pid_of[q] # NoPid BY <3>6, ProcessAssumption DEF Shape
    <3>8. q # c
      <4>1. q < c /\ q \in 1 .. born /\ born \in Nat
        BY <1>3, <3>1, <3>2, <3>3, LinkOlder DEF Kernel, ProcessesTypeOK
      <4> QED BY <4>1
    <3>9. fact_parent(u, c) = q
      BY <3>2, <3>3, <3>5, <3>7, <3>8 DEF fact_parent, find_by_pid_psn, find_by_pid
    <3>10. u.parent[c] = q \/ u.parent[c] = fact_parent(u, c) BY <2>2, <3>2, <3>4 DEF Removed
    <3> QED BY <3>2, <3>9, <3>10 DEF BelowOrWaits
  <2> QED BY <2>1, <2>2
<1> QED BY <1>6, <1>7 DEF Told, Awaited

\* The grace timer gives up on nobody whose parent runs.
LEMMA TiesRooted ==
  ASSUME Core, LinksOK(state), HeardOK, CalmOK, TiesOK(state), GraceTimer, "grace" \notin Overlaps,
         NEW x, Rooted(x)
  PROVE  TiesOK(x)
<1>1. PICK t, u, os : t = tree /\ u = x.tree /\ os = orphans OBVIOUS
<1>2. /\ Told(t) /\ (Heard => Awaited(t, os)) /\ FactsOK(t) /\ OrphansOK(t, os) /\ Shape(t)
      /\ alive(t) \subseteq PSN /\ DOMAIN t.entries = 1 .. Len(t.entries)
  BY <1>1, StateParts, LinksParts, AliveAt DEF TiesOK, Core, Shape
<1>3. /\ alive(u) = alive(t) /\ u.parent_psn = t.parent_psn
      /\ \A c \in PSN : u.parent[c] = IF c \in waiting(state, os) THEN NONE ELSE t.parent[c]
  BY <1>1 DEF Rooted
<1>4. Told(u) BY <1>2, <1>3 DEF Told
<1>5. ASSUME Heard, NEW c \in alive(u), u.parent_psn[c] \in running
      PROVE  u.parent[c] = u.parent_psn[c]
  <2>1. PICK q : q = t.parent_psn[c] OBVIOUS
  <2>2. q \in running /\ q # NONE /\ c \in alive(t) /\ c \in PSN
    BY <1>2, <1>3, <1>5, <2>1 DEF Core, Kernel, ProcessesTypeOK, NONE
  <2>3. BelowOrWaits(t, os, c) BY <1>2, <1>5, <2>1, <2>2 DEF Awaited
  <2>4. CASE t.parent[c] = q
    <3>1. c \notin waiting(state, os)
      <4>1. ASSUME c \in waiting(state, os) PROVE FALSE
        <5>1. PICK o \in os : o[2] \in DOMAIN t.entries /\ t.entries[o[2]] = c /\ c # NONE
          BY <1>1, <4>1, StateParts DEF waiting
        <5>2. t.parent[c] = NONE BY <1>2, <5>1 DEF OrphansOK
        <5> QED BY <2>2, <2>4, <5>2
      <4> QED BY <4>1
    <3> QED BY <1>3, <2>1, <2>2, <2>4, <3>1
  <2>5. CASE q \notin alive(t) /\ WaitsFor(t, os, c, q)
    <3>1. PICK k : <<q, k>> \in os BY <2>5 DEF WaitsFor
    <3>2. PICK o : o = <<q, k>> OBVIOUS
    <3>3. o \in orphans /\ o[1] = q BY <1>1, <3>1, <3>2
    <3>4. /\ rundown = {} /\ ~Undelivered(q) /\ grace = "armed"
      BY <3>3 DEF GraceTimer
    <3>5. EventsLost = 0 /\ ~refused /\ mgr = "on" BY <1>5, <3>4 DEF Heard, CalmOK
    <3>6. last_events_lost_ = 0 BY <3>5 DEF Core, ConsumerTypeOK
    <3>7. ~Excused BY <3>5, <3>6 DEF Excused, CalmOK
    <3>8. HeardOf(q) BY <2>2 DEF HeardOK
    <3> QED BY <1>1, <2>5, <3>4, <3>7, <3>8 DEF HeardOf
  <2> QED BY <2>1, <2>3, <2>4, <2>5 DEF BelowOrWaits
<1>6. Heard => Awaited(u, x.orphans) BY <1>5 DEF Awaited, BelowOrWaits
<1> QED BY <1>1, <1>4, <1>6 DEF TiesOK

\* But for start(), events can be relied on only if they could before.
LEMMA HeardBefore == ASSUME Core, CalmOK, [Next]_vars, ~Start PROVE Heard' => Heard
<1>1. /\ Kernel /\ ConsumerTypeOK /\ EventsLost \in Nat
      /\ mgr \in {"off", "starting", "on", "blind"}
  BY ProcessAssumption DEF Core, Kernel, ProcessesTypeOK, FlagsOK
<1> SUFFICES ASSUME Heard' PROVE Heard OBVIOUS
<1>2. EventsLost' = 0 /\ mgr' \in {"starting", "on"} /\ ~refused' BY DEF Heard
<1>3. CASE KernelStep
  <2>1. PICK s \in PSN, kind \in {"START", "STOP", "RUNDOWN"} : Report(kind, s)
    BY <1>3 DEF KernelStep, Spawn, Exit, EnumerateNext
  <2>2. EventsLost' \in {EventsLost, EventsLost + 1} BY <1>1, <2>1, ReportedWhat
  <2>3. mgr' = mgr /\ refused' = refused BY <1>3 DEF KernelStep, consumerVars, managerVars
  <2> QED BY <1>1, <1>2, <2>2, <2>3 DEF Heard
<1>4. CASE ~KernelStep
  <2>1. EventsLost' = EventsLost
    BY <1>4
       DEF Next, vars, processVars, ConsumerStep, buffer_callback, Start, start, RequestRundown,
           request_rundown, HandleEvent, HandleStart, HandleStop, HandleLost, event_record_callback,
           Timers, LostTimer, GraceTimer, Connect, UserCommand, Hijack, Unhijack, RuleCommand,
           UpdateRule, ExcludePid, UnexcludePid, MutateRules, ApplyConfig
  <2>2. CASE RequestRundown BY <1>2, <2>1, <2>2 DEF RequestRundown, CalmOK, Heard
  <2>3. ~LostTimer BY <1>2, <2>1 DEF LostTimer, CalmOK
  <2>4. CASE ~RequestRundown
    <3>1. mgr' = mgr /\ refused' = refused
      BY <1>4, <2>3, <2>4
         DEF Next, vars, managerVars, consumerVars, ConsumerStep, buffer_callback, HandleEvent,
             HandleStart, HandleStop, HandleLost, event_record_callback, Timers, GraceTimer, Connect,
             UserCommand, Hijack, Unhijack, RuleCommand, UpdateRule, ExcludePid, UnexcludePid,
             MutateRules, ApplyConfig
    <3> QED BY <1>2, <2>1, <3>1 DEF Heard
  <2> QED BY <2>2, <2>4
<1> QED BY <1>3, <1>4

\* The ties of the next state are those a handler leaves.
LEMMA TiesMoved ==
  ASSUME NEW x, x.tree = tree', x.orphans = orphans', UNCHANGED <<running, parent_of>>,
         Heard' => Heard, TiesOK(x)
  PROVE  TiesOK(state)'
<1>1. PICK u, os : u = x.tree /\ os = x.orphans OBVIOUS
<1>2. tree' = u /\ orphans' = os /\ Told(u) /\ (Heard => Awaited(u, os)) BY <1>1 DEF TiesOK
<1>3. Told(tree)' BY <1>2 DEF Told, alive
<1>4. ASSUME Heard' PROVE Awaited(tree, orphans)'
  <2>1. Awaited(u, os) BY <1>2, <1>4
  <2>2. ASSUME NEW c \in alive(u), u.parent_psn[c] \in running PROVE BelowOrWaits(u, os, c)
    BY <2>1, <2>2 DEF Awaited
  <2> QED BY <1>2, <2>2 DEF Awaited, BelowOrWaits, WaitsFor, alive
<1>5. (state.tree = tree)' /\ (state.orphans = orphans)' BY DEF state
<1> QED BY <1>3, <1>4, <1>5 DEF TiesOK

\* A tree that differs in the marks alone.
LEMMA TiesRemarked ==
  ASSUME NEW t, NEW u, NEW os, SameLinks(t, u)
  PROVE  (Told(t) => Told(u)) /\ (Awaited(t, os) => Awaited(u, os))
BY DEF SameLinks, Told, Awaited, BelowOrWaits, WaitsFor

\* The same, once tree and orphans are named.
LEMMA TiesParts ==
  TiesOK(state) <=> Told(tree) /\ (Heard => Awaited(tree, orphans))
BY StateParts DEF TiesOK

\* A process that starts is nobody's parent yet.
LEMMA TiesKernel ==
  ASSUME Core, LinksOK(state), TiesOK(state), KernelStep, Heard' => Heard PROVE TiesOK(state)'
<1>1. Kernel /\ ConsumerTypeOK /\ Shape(tree) /\ born \in Nat /\ running \subseteq 1 .. born
  BY DEF Core, Kernel, ProcessesTypeOK
<1>2. UNCHANGED <<consumerVars, tree, orphans>> BY <1>1 DEF KernelStep, managerVars
<1>3. /\ \A r \in running' : r \in running \/ r = born + 1
      /\ \A r \in 1 .. born : parent_of'[r] = parent_of[r]
  <2>1. ASSUME NEW s \in PSN, NEW p \in Pids, NEW parent \in 0 .. MaxPsn, Spawn(s, p, parent)
        PROVE  /\ \A r \in running' : r \in running \/ r = born + 1
               /\ \A r \in 1 .. born : parent_of'[r] = parent_of[r]
    <3>1. \A r \in 1 .. born : parent_of'[r] = parent_of[r] BY <1>1, <1>2, <2>1, SpawnKernel
    <3>2. running' = running \cup {s} /\ s = born + 1 BY <2>1 DEF Spawn
    <3> QED BY <3>1, <3>2
  <2>2. ASSUME NEW s \in PSN, Exit(s) \/ EnumerateNext(s)
        PROVE  /\ \A r \in running' : r \in running \/ r = born + 1
               /\ \A r \in 1 .. born : parent_of'[r] = parent_of[r]
    BY <2>2 DEF Exit, EnumerateNext, bornVars
  <2> QED BY <2>1, <2>2 DEF KernelStep
<1>4. FactsOK(tree) BY LinksParts
<1>5. PICK t, os, rs, pf : t = tree /\ os = orphans /\ rs = running' /\ pf = parent_of' OBVIOUS
<1>6. Shape(t) /\ FactsOK(t) /\ Told(t) /\ (Heard => Awaited(t, os)) BY <1>1, <1>4, <1>5, TiesParts
<1>7. ASSUME NEW c \in alive(t)
      PROVE  /\ pf[c] \in rs => t.parent_psn[c] = pf[c]
             /\ Heard /\ t.parent_psn[c] \in rs => BelowOrWaits(t, os, c)
  <2>1. c \in 1 .. born /\ (t.parent_psn[c] # NONE => t.parent_psn[c] \in 1 .. born)
    BY <1>1, <1>6, LinkOlder
  <2>2. pf[c] = parent_of[c] /\ pf[c] < c /\ pf[c] \in 0 .. MaxPsn
    <3>1. c \in PSN BY <1>1, <1>6, LinkOlder
    <3> QED BY <1>1, <1>3, <1>5, <2>1, <3>1 DEF Kernel, ProcessesTypeOK
  <2>3. born + 1 \notin 1 .. born /\ born + 1 # NONE BY <1>1 DEF NONE
  <2>4. pf[c] # born + 1 BY <1>1, <2>1, <2>2, ProcessAssumption
  <2>5. t.parent_psn[c] \in rs => t.parent_psn[c] \in running BY <1>3, <1>5, <2>1, <2>3
  <2>6. pf[c] \in rs => parent_of[c] \in running BY <1>3, <1>5, <2>2, <2>4
  <2> QED BY <1>6, <2>2, <2>5, <2>6 DEF Told, Awaited
<1>8. tree' = t /\ orphans' = os BY <1>2, <1>5
<1>9. Told(tree)' BY <1>5, <1>7, <1>8 DEF Told, alive
<1>10. Heard' => Awaited(tree, orphans)'
  BY <1>5, <1>7, <1>8 DEF Awaited, BelowOrWaits, WaitsFor, alive
<1>11. (state.tree = tree)' /\ (state.orphans = orphans)' BY DEF state
<1> QED BY <1>9, <1>10, <1>11 DEF TiesOK

\* Every step.
LEMMA TiesNext ==
  ASSUME Core, LinksOK(state), EventsOK, HeardOK, OffOK, CalmOK, TiesOK(state), [Next]_vars,
         Overlaps = {}
  PROVE  TiesOK(state)'
<1>1. Kernel /\ ConsumerTypeOK /\ Shape(tree) /\ state \in Managed /\ Shape(state.tree)
  BY StateParts DEF Core
<1>2. FactsOK(tree) /\ Told(tree) /\ (Heard => Awaited(tree, orphans)) BY LinksParts, TiesParts
<1>3. CASE Start
  <2>1. tree' = tree /\ alive(tree) = {} BY <1>3 DEF Start, OffOK
  <2>2. alive(tree)' = {} BY <2>1 DEF alive
  <2>3. (state.tree = tree)' BY DEF state
  <2> QED BY <2>2, <2>3 DEF TiesOK, Told, Awaited
<1> SUFFICES ASSUME ~Start PROVE TiesOK(state)' BY <1>3
<1>4. Heard' => Heard BY HeardBefore
<1>5. ASSUME NEW x, Moves(x), TiesOK(x), UNCHANGED <<running, parent_of>> PROVE TiesOK(state)'
  BY <1>4, <1>5, TiesMoved DEF Moves, Becomes
<1>6. CASE UNCHANGED <<tree, orphans, running, parent_of>>
  <2>1. state.tree = tree' /\ state.orphans = orphans' BY <1>6, StateParts
  <2> QED BY <1>4, <1>6, <2>1, TiesMoved
<1>7. CASE HandleStart
  <2>1. PICK x : /\ Moves(x) /\ Head(etw).psn \in 1 .. born
                 /\ Handled(state, Head(etw).psn, parent_pid_of(Head(etw).psn),
                            parent_of[Head(etw).psn], x)
    BY <1>7, HandleStartMoves
  <2>2. PICK m, s, a, b : /\ m = state /\ s = Head(etw).psn /\ a = parent_pid_of(Head(etw).psn)
                          /\ b = parent_of[Head(etw).psn]
    OBVIOUS
  <2>3. /\ Head(etw) \in ToSet(etw) /\ Head(etw).kind \in {"START", "RUNDOWN"}
        /\ UNCHANGED bornVars
    BY <1>1, <1>7, FetchedEvent DEF HandleStart
  <2>4. Unrivalled(s) BY <2>2, <2>3 DEF EventsOK, Unrivalled
  <2>5. LinksOK(m) /\ m \in Managed /\ Shape(m.tree) /\ TiesOK(m) BY <1>1, <2>2
  <2>6. /\ x \in Managed /\ Shape(x.tree) /\ s \in 1 .. born /\ Handled(m, s, a, b, x)
        /\ a = parent_pid_of(s) /\ b \in {NONE, parent_of[s]}
        /\ (parent_of[s] \in running => b = parent_of[s])
    BY <2>1, <2>2 DEF Moves
  <2>7. TiesOK(x) BY <1>1, <2>4, <2>5, <2>6, TiesHandled
  <2> QED BY <1>5, <2>1, <2>3, <2>7 DEF bornVars
<1>8. CASE HandleStop
  <2>1. PICK x : Moves(x) /\ Head(etw).psn \in 1 .. born /\ Stopped(Head(etw).psn, x)
    BY <1>8, HandleStopMoves
  <2>2. Head(etw) \in ToSet(etw) /\ Head(etw).kind = "STOP" /\ UNCHANGED bornVars
    BY <1>1, <1>8, FetchedEvent DEF HandleStop
  <2>3. orphans = {} BY <1>8 DEF HandleStop
  <2>4. PICK s : s = Head(etw).psn OBVIOUS
  <2>5. s \notin running BY <2>2, <2>4 DEF EventsOK
  <2>6. CASE x = state BY <1>5, <2>1, <2>2, <2>6 DEF bornVars
  <2>7. CASE s \in alive(tree) /\ Removed(tree, s, x.tree) /\ x.orphans = orphans
    <3>1. PICK t, u : t = tree /\ u = x.tree OBVIOUS
    <3>2. Shape(t) /\ FactsOK(t) /\ s \in alive(t) /\ Shape(u) /\ Removed(t, s, u)
      BY <1>1, <1>2, <2>1, <2>7, <3>1 DEF Moves
    <3>3. (Told(t) => Told(u)) /\ (Awaited(t, {}) => Awaited(u, {}))
      BY <1>1, <2>5, <3>2, TiesRemoved
    <3>4. Told(t) /\ (Heard => Awaited(t, {})) BY <1>2, <2>3, <3>1
    <3>5. x.tree = u /\ x.orphans = {} BY <2>3, <2>7, <3>1
    <3>6. TiesOK(x) BY <3>3, <3>4, <3>5 DEF TiesOK
    <3> QED BY <1>5, <2>1, <2>2, <3>6 DEF bornVars
  <2> QED BY <2>1, <2>4, <2>6, <2>7 DEF Stopped
<1>9. CASE GraceTimer
  <2>1. PICK x : Moves(x) /\ Rooted(x) BY <1>9, GraceTimerMoves
  <2>2. TiesOK(x) BY <1>9, <2>1, TiesRooted
  <2> QED BY <1>5, <1>9, <2>1, <2>2 DEF GraceTimer, processVars, bornVars
<1>10. ASSUME NEW p \in Pids, Connect(p) PROVE TiesOK(state)'
  <2> DEFINE S == {y \in Managed : Shape(y.tree) /\ LinksOK(y) /\ TiesOK(y)}
  <2>1. state \in S BY <1>1
  <2>2. \A c : IsChain(tree, c) /\ c = chain_from(tree, opened(p)) =>
          \A k \in 1 .. Len(c) : \A y \in S : \A x \in Managed :
            Shape(x.tree) /\ ChainStep(tree, c, k, y, x) => x \in S
    <3>1. ASSUME NEW c, IsChain(tree, c), c = chain_from(tree, opened(p)), NEW k \in 1 .. Len(c),
                 NEW y \in S, NEW x \in Managed, Shape(x.tree), ChainStep(tree, c, k, y, x)
          PROVE  x \in S
      <4>1. c[k] \in 1 .. born /\ c[k] \in running BY <1>1, <3>1, ChainElement
      <4>2. \A s \in ToSet(c) : ParentKnown(s) BY <1>10, <3>1 DEF Connect
      <4>3. chain_parent(tree, c, k) \in {NONE, parent_of[c[k]]}
        BY <1>1, <3>1, <4>2, ChainParentKnown
      <4>4. parent_of[c[k]] \in running => chain_parent(tree, c, k) = parent_of[c[k]]
        BY <1>1, <3>1, <4>2, ChainParentRuns
      <4>5. PICK s, a, b : /\ s = c[k] /\ a = parent_pid_of(c[k]) /\ b = chain_parent(tree, c, k)
        OBVIOUS
      <4>6. Handled(y, s, a, b, x) BY <3>1, <4>5 DEF ChainStep
      <4>7. LinksOK(y) /\ Shape(y.tree) /\ y \in Managed /\ TiesOK(y) OBVIOUS
      <4>8. /\ s \in 1 .. born /\ a = parent_pid_of(s) /\ b \in {NONE, parent_of[s]}
            /\ (parent_of[s] \in running => b = parent_of[s])
        BY <4>1, <4>3, <4>4, <4>5
      <4>9. Unrivalled(s) BY <1>1, <4>1, <4>5 DEF Kernel, Unrivalled
      <4>10. LinksOK(x) BY <1>1, <3>1, <4>6, <4>7, <4>8, LinksHandled
      <4>11. TiesOK(x) BY <1>1, <3>1, <4>6, <4>7, <4>8, <4>9, TiesHandled
      <4> QED BY <3>1, <4>10, <4>11
    <3> QED BY <3>1
  <2>3. \A y \in S : y \in Managed /\ Shape(y.tree) OBVIOUS
  <2> HIDE DEF S
  <2>4. PICK x \in S : Moves(x) BY <1>10, <2>1, <2>2, <2>3, ConnectMoves
  <2>5. TiesOK(x) BY <2>4 DEF S
  <2> QED BY <1>5, <1>10, <2>4, <2>5 DEF Connect, processVars, bornVars
<1>11. CASE UserCommand
  <2>1. PICK x : Moves(x) /\ Commanded(x) BY <1>11, UserCommandMoves
  <2>2. SameLinks(tree, x.tree) /\ x.orphans = orphans BY <2>1 DEF Commanded
  <2>3. TiesOK(x) BY <1>2, <2>2, TiesRemarked DEF TiesOK
  <2> QED BY <1>5, <1>11, <2>1, <2>3 DEF UserCommand, Hijack, Unhijack, processVars, bornVars
<1>12. ASSUME NEW n \in snapshots, ApplyConfig(n) PROVE TiesOK(state)'
  <2>1. PICK x : Moves(x) /\ SameLinks(tree, x.tree) /\ x.orphans = orphans
    BY <1>12, ApplyConfigMoves
  <2>2. TiesOK(x) BY <1>2, <2>1, TiesRemarked DEF TiesOK
  <2> QED BY <1>5, <1>12, <2>1, <2>2 DEF ApplyConfig, processVars, bornVars
<1>13. CASE \/ UNCHANGED vars \/ ConsumerStep \/ RequestRundown \/ HandleLost \/ LostTimer
            \/ (RuleCommand /\ ~\E n \in snapshots : ApplyConfig(n))
  BY <1>6, <1>13
     DEF vars, processVars, bornVars, managerVars, ConsumerStep, buffer_callback,
         RequestRundown, request_rundown, HandleLost, event_record_callback, LostTimer,
         RuleCommand, UpdateRule, ExcludePid, UnexcludePid, MutateRules
<1>14. CASE KernelStep BY <1>4, <1>14, TiesKernel
<1> QED BY <1>7, <1>8, <1>9, <1>10, <1>11, <1>12, <1>13, <1>14
        DEF Next, HandleEvent, Timers, RuleCommand

\* When no event was lost, none is on its way and the enumeration is over, the tree is
\* the kernel's: the running processes and no other, each below its parent if that
\* runs, in whichever order START, RUNDOWN, STOP and CONNECT told of them.
THEOREM CaughtUpCorrect == ASSUME Overlaps = {} PROVE Spec => []CaughtUp
<1> DEFINE Inv == HeardOK /\ QueueOK /\ CalmOK /\ TiesOK(state)
<1>1. Init => Inv
  <2> SUFFICES ASSUME Init PROVE Inv OBVIOUS
  <2>1. /\ mgr = "off" /\ etw = <<>> /\ running = {} /\ session # "open" /\ ~running_
        /\ tree = EmptyTree /\ grace = "unset" /\ ~lost_pending /\ ~refused
    BY DEF Init, ProcessesInit, ConsumerInit
  <2>2. ToSet(etw) = {} /\ Len(etw) = 0 BY <2>1 DEF ToSet
  <2>3. alive(tree) = {}
    <3>1. tree.entries = <<>> BY <2>1 DEF EmptyTree
    <3> QED BY <3>1 DEF alive
  <2>4. HeardOK BY <2>1 DEF HeardOK
  <2>5. QueueOK BY <2>1, <2>2, <2>3 DEF QueueOK, OffOK, Ordered, StopsOK
  <2>6. CalmOK BY <2>1, <2>2 DEF CalmOK
  <2>7. TiesOK(state) BY <2>3, TiesParts DEF Told, Awaited
  <2> QED BY <2>4, <2>5, <2>6, <2>7
<1>2. Core /\ LinksOK(state) /\ EventsOK /\ Inv /\ [Next]_vars => Inv'
  <2>1. "start" \notin Overlaps OBVIOUS
  <2> QED BY <2>1, HeardNext, QueueInvariantNext, CalmNext, TiesNext DEF QueueOK
<1>3. Core /\ LinksOK(state) /\ EventsOK /\ Inv => CaughtUp
  <2> SUFFICES ASSUME Core, EventsOK, Inv, Quiescent, EventsLost = 0
      PROVE  /\ alive(tree) = running
             /\ \A s \in running : parent_of[s] \in running => tree.parent[s] = parent_of[s]
    BY DEF CaughtUp
  <2>1. ToSet(etw) = {} BY DEF Quiescent, ToSet
  <2>2. ~Excused BY <2>1 DEF Quiescent, Excused
  <2>3. \A s : ~Undelivered(s) BY <2>1 DEF Undelivered
  <2>4. running \subseteq alive(tree) BY <2>2, <2>3 DEF HeardOK, HeardOf, Quiescent
  <2>5. alive(tree) \subseteq running
    <3>1. alive(tree) \subseteq PSN BY AliveAt DEF Core, Shape
    <3> QED BY <2>1, <3>1 DEF QueueOK, StopsOK, Quiescent
  <2>6. Told(tree) /\ Awaited(tree, orphans) BY TiesParts DEF Heard, Quiescent
  <2>7. ASSUME NEW s \in running, parent_of[s] \in running PROVE tree.parent[s] = parent_of[s]
    <3>1. s \in alive(tree) /\ parent_of[s] \in alive(tree) BY <2>4, <2>7
    <3>2. tree.parent_psn[s] = parent_of[s] BY <2>6, <2>7, <3>1 DEF Told
    <3> QED BY <2>6, <2>7, <3>1, <3>2 DEF Awaited, BelowOrWaits
  <2> QED BY <2>4, <2>5, <2>7
<1>4. "start" \notin Overlaps /\ "parent" \notin Overlaps /\ "orphan" \notin Overlaps OBVIOUS
<1> HIDE DEF Inv
<1> QED BY <1>1, <1>2, <1>3, <1>4, CoreInvariant, LinksInvariant, EventsInvariant, PTL DEF Spec
=============================================================================
