----------------------------- MODULE SwimLemmas -----------------------------
(***************************************************************************)
(* Proofs about Swim: the order in which knowledge about a member is       *)
(* superseded, the operators, and the steps that send, handle, answer and  *)
(* give up calls.  Everything a node does to its state is a composition of *)
(* a few operators (Update, bumpPiggybackCounters, IssueAsReceiver,        *)
(* AddJoinList), so the lemmas say what each of them preserves, and the    *)
(* theorems follow action by action.                                       *)
(***************************************************************************)
EXTENDS Swim, FiniteSetTheorems, TLAPS

-----------------------------------------------------------------------------
(* The order of members                                                    *)

\* Anything with an incarnation and a status: members and changes.
IsEntry(m) == m.incarnation \in Nat /\ m.status \in Status

\* The precedence of a status is one of four numbers (statePrecedence).
LEMMA PrecedenceType ==
  ASSUME NEW s \in Status
  PROVE  statePrecedence(s) \in 0 .. 3
BY DEF statePrecedence, Status, Alive, Suspect, Faulty, Leave

\* No two statuses have the same precedence (statePrecedence).
LEMMA PrecedenceInjective ==
  ASSUME NEW s \in Status, NEW t \in Status, statePrecedence(s) = statePrecedence(t)
  PROVE  s = t
BY DEF statePrecedence, Status, Alive, Suspect, Faulty, Leave

\* Of two entries at most one supersedes the other (nonLocalOverride): two nodes
\* that exchange them cannot swap beliefs for ever.
THEOREM OverrideAsymmetric ==
  ASSUME NEW m, NEW c, IsEntry(m), IsEntry(c), nonLocalOverride(m, c)
  PROVE  ~ nonLocalOverride(c, m)
BY PrecedenceType DEF nonLocalOverride, IsEntry

\* No entry supersedes itself (nonLocalOverride).
LEMMA OverrideIrreflexive ==
  ASSUME NEW m, IsEntry(m)
  PROVE  ~ nonLocalOverride(m, m)
BY PrecedenceType DEF nonLocalOverride, IsEntry

\* "Not superseded by" is transitive: whatever the order in which changes arrive, a
\* memberlist entry never falls behind one it has been at (nonLocalOverride).
THEOREM NotOlderTransitive ==
  ASSUME NEW a, NEW b, NEW c, IsEntry(a), IsEntry(b), IsEntry(c),
         ~ nonLocalOverride(b, a), ~ nonLocalOverride(c, b)
  PROVE  ~ nonLocalOverride(c, a)
BY PrecedenceType DEF nonLocalOverride, IsEntry

\* Entries that do not supersede one another are the same: nodes that have seen the
\* same changes agree, whatever the order (nonLocalOverride is a strict total order).
THEOREM OverrideTotal ==
  ASSUME NEW m, NEW c, IsEntry(m), IsEntry(c),
         ~ nonLocalOverride(m, c), ~ nonLocalOverride(c, m)
  PROVE  AsMember(m) = AsMember(c)
<1>1. m.incarnation = c.incarnation
  BY DEF nonLocalOverride, IsEntry
<1>2. statePrecedence(m.status) = statePrecedence(c.status)
  BY <1>1, PrecedenceType DEF nonLocalOverride, IsEntry
<1>3. m.status = c.status
  BY <1>2, PrecedenceInjective DEF IsEntry
<1> QED
  BY <1>1, <1>3 DEF AsMember
-----------------------------------------------------------------------------
(* Maps                                                                    *)

\* Overlaying two maps gives a map.
LEMMA OverlayMap ==
  ASSUME NEW S, NEW f, NEW g, IsMap(f, S), IsMap(g, S)
  PROVE  IsMap(Overlay(f, g), S)
BY DEF IsMap, Overlay

\* Part of a map is a map.
LEMMA RestrictMap ==
  ASSUME NEW S, NEW f, NEW D, D \subseteq DOMAIN f, IsMap(f, S)
  PROVE  IsMap(Restrict(f, D), S)
BY DEF IsMap, Restrict

\* The empty map is a map.
LEMMA EmptyMap ==
  ASSUME NEW S
  PROVE  IsMap(Empty, S) /\ DOMAIN Empty = {}
BY DEF IsMap, Empty

-----------------------------------------------------------------------------
(* Members and maxP                                                        *)

\* A ceiling of a logarithm is a natural number (AdjustMaxPropagations).
LEMMA CeilLog10Type ==
  ASSUME NEW k \in Nat
  PROVE  CeilLog10(k) \in Nat
<1>1. IsFiniteSet(0 .. k)
  BY FS_Interval
<1>2. IsFiniteSet({e \in 0 .. k : 10^e < k})
  BY <1>1, FS_Subset
<1> QED
  BY <1>2, FS_CardinalityType DEF CeilLog10

\* The pingable members are addresses.
LEMMA PingableType ==
  ASSUME NEW s, NEW n, IsMap(s.members, MemberRecord)
  PROVE  /\ Pingable(s, n) \subseteq DOMAIN s.members \ {n}
         /\ Pingable(s, n) \subseteq Node
BY DEF Pingable, IsMap

\* maxP is a natural number.
LEMMA MaxPropagationsType ==
  ASSUME NEW s, NEW n, IsMap(s.members, MemberRecord)
  PROVE  MaxPropagations(s, n) \in Nat
<1>1. IsFiniteSet(Pingable(s, n))
  BY PingableType, NodeAssumption, FS_Subset
<1>2. Cardinality(Pingable(s, n)) + 1 \in Nat
  BY <1>1, FS_CardinalityType
<1>3. CeilLog10(Cardinality(Pingable(s, n)) + 1) \in Nat
  BY <1>2, CeilLog10Type
<1> QED
  BY <1>3, ParameterAssumption DEF MaxPropagations

\* Incarnation is an incarnation of the memberlist, or -1.
LEMMA IncarnationType ==
  ASSUME NEW s, NEW n, IsMap(s.members, MemberRecord)
  PROVE  Incarnation(s, n) \in Int
BY DEF Incarnation, IsMap, MemberRecord

-----------------------------------------------------------------------------
(* Update                                                                  *)

\* What Update needs of a node n in state s and a change list: the types, and that n
\* knows itself or is told nothing bad about itself.
Updatable(s, n, changes) ==
  /\ IsNode(s) /\ n \in Node /\ IsMap(changes, ChangeRecord(Node))
  /\ n \in DOMAIN changes => \/ n \in DOMAIN s.members
                             \/ changes[n].status \in {Alive, Leave}

\* The changes that Update applies are well typed, name no incarnation that was not
\* told or read from the clock, supersede what was known about others, and do not
\* make the node suspect itself.
LEMMA AppliedFacts ==
  ASSUME NEW s, NEW n, NEW changes, NEW now \in Nat, NEW limit \in [Node -> Nat],
         Updatable(s, n, changes), ToldUpTo(changes, limit), now <= limit[n],
         NEW A, A = Applied(s, n, changes, now)
  PROVE  /\ IsMap(A, ChangeRecord(Node))
         /\ ToldUpTo(A, limit)
         /\ \A a \in DOMAIN A \cap DOMAIN s.members :
              a # n => nonLocalOverride(s.members[a], A[a])
         /\ n \in DOMAIN A => A[n].status \in {Alive, Leave}
<1>1. /\ DOMAIN A \subseteq DOMAIN changes
      /\ \A a \in DOMAIN A :
           \/ /\ a = n
              /\ A[a] = [changes[a] EXCEPT !.incarnation = now, !.status = Alive]
           \/ /\ A[a] = changes[a]
              /\ ~ (a \in DOMAIN s.members /\ localOverride(a, n, changes[a]))
              /\ a \notin DOMAIN s.members \/ nonLocalOverride(s.members[a], changes[a])
      /\ A = [a \in DOMAIN A |-> A[a]]
  BY DEF Applied, localOverride
<1>2. \A a \in DOMAIN A : A[a] \in ChangeRecord(Node) /\ A[a].incarnation <= limit[a]
  <2> SUFFICES ASSUME NEW a \in DOMAIN A
               PROVE  A[a] \in ChangeRecord(Node) /\ A[a].incarnation <= limit[a]
    OBVIOUS
  <2>1. changes[a] \in ChangeRecord(Node) /\ changes[a].incarnation <= limit[a]
    BY <1>1 DEF Updatable, IsMap, ToldUpTo
  <2>2. CASE A[a] = changes[a]
    BY <2>1, <2>2
  <2>3. CASE a = n /\ A[a] = [changes[a] EXCEPT !.incarnation = now, !.status = Alive]
    BY <2>1, <2>3 DEF ChangeRecord, Status
  <2> QED
    BY <1>1, <2>2, <2>3
<1>3. IsMap(A, ChangeRecord(Node)) /\ ToldUpTo(A, limit)
  BY <1>1, <1>2 DEF Updatable, IsMap, ToldUpTo
<1>4. \A a \in DOMAIN A \cap DOMAIN s.members :
         a # n => nonLocalOverride(s.members[a], A[a])
  BY <1>1
<1>5. n \in DOMAIN A => A[n].status \in {Alive, Leave}
  BY <1>1, <1>2 DEF Updatable, localOverride, IsMap, ChangeRecord, Status,
                    Alive, Suspect, Faulty, Leave
<1> QED
  BY <1>3, <1>4, <1>5

\* What the applied changes A put in the memberlist and in the disseminator, the
\* timers that they arm, and those that they leave.
Entries(A) == [a \in DOMAIN A |-> AsMember(A[a])]
Recorded(A) == [a \in DOMAIN A |-> [change |-> A[a], p |-> 0]]
Suspects(A) == {a \in DOMAIN A : A[a].status = Suspect}
Armed(s, n, A) ==
  [a \in Suspects(A) \ (DOMAIN s.timers \cup {n}) |->
     [incarnation |-> A[a].incarnation, fired |-> FALSE]]
Kept(s, A) == DOMAIN s.timers \ (DOMAIN A \ Suspects(A))

\* The fields of a node after Update, in terms of the changes A that were applied.
LEMMA UpdateFields ==
  ASSUME NEW s, NEW n, NEW changes, NEW now, IsNode(s),
         NEW A, A = Applied(s, n, changes, now), NEW u, u = Update(s, n, changes, now)
  PROVE  /\ u = [members |-> u.members, changes |-> u.changes, maxP |-> u.maxP,
                 timers |-> u.timers, expired |-> u.expired]
         /\ u.members = Overlay(Entries(A), s.members)
         /\ u.changes = Overlay(Recorded(A), s.changes)
         /\ u.timers  = Overlay(Armed(s, n, A), Restrict(s.timers, Kept(s, A)))
         /\ u.expired = s.expired
         /\ IsMap(u.members, MemberRecord) => u.maxP \in Nat
<1> DEFINE members == Overlay(Entries(A), s.members)
           r == [s EXCEPT !.members = members]
<1>1. u = handleChanges(r, n, A)
  BY DEF Update, Entries
<1> HIDE DEF members
<1>2. r = [members |-> members, changes |-> s.changes, maxP |-> s.maxP,
           timers |-> s.timers, expired |-> s.expired]
  BY DEF IsNode
<1> HIDE DEF r
<1>3. u = [members |-> members,
           changes |-> Overlay(Recorded(A), s.changes),
           maxP |-> IF \E a \in DOMAIN A : A[a].status # Faulty
                      THEN MaxPropagations(r, n) ELSE s.maxP,
           timers |-> Overlay(Armed(s, n, A), Restrict(s.timers, Kept(s, A))),
           expired |-> s.expired]
  BY <1>1, <1>2, ZenonT(60) DEF handleChanges, Recorded, Armed, Kept, Suspects
<1>4. IsMap(u.members, MemberRecord) => u.maxP \in Nat
  <2>1. r.members = u.members
    BY <1>2, <1>3
  <2>2. IsMap(u.members, MemberRecord) => MaxPropagations(r, n) \in Nat
    BY <2>1, MaxPropagationsType
  <2>3. s.maxP \in Nat
    BY DEF IsNode
  <2> QED
    BY <1>3, <2>2, <2>3
<1> QED
  BY <1>3, <1>4 DEF members

\* Membership orders entries as Swim does.
LEMMA SameOrder ==
  ASSUME NEW m, NEW c
  PROVE  M!nonLocalOverride(m, c) <=> nonLocalOverride(m, c)
BY DEF M!nonLocalOverride, nonLocalOverride, M!statePrecedence, statePrecedence,
       M!Alive, M!Suspect, M!Faulty, M!Leave, Alive, Suspect, Faulty, Leave

\* Update only ever learns.
LEMMA UpdateLearns ==
  ASSUME NEW s, NEW n, NEW changes, NEW now \in Nat, NEW limit \in [Node -> Nat],
         Updatable(s, n, changes), ToldUpTo(changes, limit), now <= limit[n],
         NEW u, u = Update(s, n, changes, now)
  PROVE  IsMap(u.members, MemberRecord) /\ M!Learns(n, s.members, u.members)
<1>0. PICK A : A = Applied(s, n, changes, now)
  OBVIOUS
<1>1. u.members = Overlay(Entries(A), s.members)
  BY <1>0, UpdateFields DEF Updatable
<1>2. /\ IsMap(A, ChangeRecord(Node))
      /\ \A a \in DOMAIN A \cap DOMAIN s.members :
           a # n => nonLocalOverride(s.members[a], A[a])
  BY <1>0, AppliedFacts
<1>3. IsMap(s.members, MemberRecord)
  BY DEF Updatable, IsNode
<1>4. IsMap(Entries(A), MemberRecord)
  BY <1>2 DEF Entries, IsMap, AsMember, MemberRecord, ChangeRecord
<1>5. IsMap(u.members, MemberRecord)
  BY <1>1, <1>3, <1>4, OverlayMap
<1>6. ASSUME NEW a \in DOMAIN s.members, a # n
      PROVE  ~ nonLocalOverride(u.members[a], s.members[a])
  <2>1. IsEntry(s.members[a])
    BY <1>3 DEF IsMap, MemberRecord, IsEntry
  <2>2. CASE a \in DOMAIN A
    <3>1. IsEntry(A[a]) /\ nonLocalOverride(s.members[a], A[a])
      BY <1>2, <1>6, <2>2 DEF IsMap, ChangeRecord, IsEntry
    <3>2. ~ nonLocalOverride(A[a], s.members[a])
      BY <2>1, <3>1, OverrideAsymmetric
    <3>3. u.members[a] = AsMember(A[a])
      BY <1>1, <2>2 DEF Overlay, Entries
    <3> QED
      BY <3>2, <3>3 DEF AsMember, nonLocalOverride
  <2>3. CASE a \notin DOMAIN A
    <3>1. u.members[a] = s.members[a]
      BY <1>1, <2>3 DEF Overlay, Entries
    <3> QED
      BY <3>1, <2>1, OverrideIrreflexive
  <2> QED
    BY <2>2, <2>3
<1>7. DOMAIN s.members \subseteq DOMAIN u.members
  BY <1>1 DEF Overlay
<1> QED
  BY <1>5, <1>6, <1>7, SameOrder DEF M!Learns

\* The invariants of the state s of the process at n, when the latest clock readings
\* are those of limit.
Healthy(n, s, limit) ==
  /\ IsNode(s) /\ KnownUpTo(s, limit)
  /\ PiggybacksBeliefs(s) /\ TimesSuspects(s)
  /\ \A e \in s.expired : HasSuspected(s, e) /\ e.address # n

\* Learning never lowers an incarnation.
LEMMA NotOlderIncarnation ==
  ASSUME NEW m, NEW c, IsEntry(m), IsEntry(c), ~ nonLocalOverride(c, m)
  PROVE  m.incarnation <= c.incarnation
BY DEF IsEntry, nonLocalOverride

\* Update preserves the invariants of the node.
LEMMA UpdateHealthy ==
  ASSUME NEW s, NEW n, NEW changes, NEW now \in Nat, NEW limit \in [Node -> Nat],
         Updatable(s, n, changes), ToldUpTo(changes, limit), now <= limit[n],
         NEW u, u = Update(s, n, changes, now),
         Healthy(n, s, limit), n \notin DOMAIN s.timers
  PROVE  Healthy(n, u, limit)
<1>0. PICK A : A = Applied(s, n, changes, now)
  OBVIOUS
<1>1. /\ IsMap(A, ChangeRecord(Node)) /\ ToldUpTo(A, limit)
      /\ n \in DOMAIN A => A[n].status \in {Alive, Leave}
  BY <1>0, AppliedFacts
<1>2. /\ u = [members |-> u.members, changes |-> u.changes, maxP |-> u.maxP,
              timers |-> u.timers, expired |-> u.expired]
      /\ u.members = Overlay(Entries(A), s.members)
      /\ u.changes = Overlay(Recorded(A), s.changes)
      /\ u.timers  = Overlay(Armed(s, n, A), Restrict(s.timers, Kept(s, A)))
      /\ u.expired = s.expired
      /\ IsMap(u.members, MemberRecord) => u.maxP \in Nat
  BY <1>0, UpdateFields DEF Updatable
<1>3. IsMap(u.members, MemberRecord) /\ M!Learns(n, s.members, u.members)
  BY UpdateLearns
<1>4. /\ IsMap(s.members, MemberRecord)
      /\ IsMap(s.changes, [change : ChangeRecord(Node), p : Nat])
      /\ IsMap(s.timers, [incarnation : Nat, fired : BOOLEAN])
      /\ s.expired \subseteq [address : Node, incarnation : Nat]
      /\ KnownUpTo(s, limit) /\ PiggybacksBeliefs(s) /\ TimesSuspects(s)
  BY DEF Healthy, IsNode
<1>5. IsNode(u)
  <2>1. IsMap(Recorded(A), [change : ChangeRecord(Node), p : Nat])
    BY <1>1 DEF Recorded, IsMap
  <2>2. IsMap(u.changes, [change : ChangeRecord(Node), p : Nat])
    BY <1>2, <1>4, <2>1, OverlayMap
  <2>3. IsMap(Armed(s, n, A), [incarnation : Nat, fired : BOOLEAN])
    BY <1>1 DEF Armed, Suspects, IsMap, ChangeRecord
  <2>4. IsMap(Restrict(s.timers, Kept(s, A)), [incarnation : Nat, fired : BOOLEAN])
    BY <1>4, RestrictMap DEF Kept
  <2>5. IsMap(u.timers, [incarnation : Nat, fired : BOOLEAN])
    BY <1>2, <2>3, <2>4, OverlayMap
  <2> QED
    BY <1>2, <1>3, <1>4, <2>2, <2>5 DEF IsNode
<1>6. PiggybacksBeliefs(u)
  BY <1>2, <1>4 DEF PiggybacksBeliefs, Overlay, Entries, Recorded
<1>7. /\ \A a \in DOMAIN s.members : a \in DOMAIN u.members
      /\ \A a \in DOMAIN s.members : a # n =>
            /\ ~ nonLocalOverride(u.members[a], s.members[a])
            /\ s.members[a].incarnation <= u.members[a].incarnation
  <2>1. \A a \in DOMAIN s.members : IsEntry(s.members[a])
    BY <1>4 DEF IsMap, MemberRecord, IsEntry
  <2>2. \A a \in DOMAIN u.members : IsEntry(u.members[a])
    BY <1>3 DEF IsMap, MemberRecord, IsEntry
  <2> QED
    BY <1>3, <2>1, <2>2, SameOrder, NotOlderIncarnation DEF M!Learns
<1>8. /\ DOMAIN u.timers = DOMAIN Armed(s, n, A) \cup Kept(s, A)
      /\ \A a \in DOMAIN Armed(s, n, A) : u.timers[a] = Armed(s, n, A)[a]
      /\ \A a \in Kept(s, A) \ DOMAIN Armed(s, n, A) :
            a \in DOMAIN s.timers /\ u.timers[a] = s.timers[a]
  <2>1. DOMAIN Restrict(s.timers, Kept(s, A)) = Kept(s, A)
        /\ \A a \in Kept(s, A) : Restrict(s.timers, Kept(s, A))[a] = s.timers[a]
    BY DEF Restrict
  <2>2. Kept(s, A) \subseteq DOMAIN s.timers
    BY DEF Kept
  <2> QED BY <1>2, <2>1, <2>2 DEF Overlay
<1>9. TimesSuspects(u)
  <2>1. DOMAIN u.timers = {a \in DOMAIN u.members : u.members[a].status = Suspect}
    <3>1. DOMAIN u.timers = (Suspects(A) \ {n}) \cup (DOMAIN s.timers \ (DOMAIN A \ Suspects(A)))
      BY <1>8 DEF Suspects, Armed, Kept
    <3>2. DOMAIN u.members = DOMAIN A \cup DOMAIN s.members
      BY <1>2 DEF Overlay, Entries
    <3>3. \A a \in DOMAIN A : u.members[a].status = A[a].status
      BY <1>2 DEF Overlay, Entries, AsMember
    <3>4. \A a \in DOMAIN s.members \ DOMAIN A : u.members[a] = s.members[a]
      BY <1>2 DEF Overlay, Entries
    <3>5. DOMAIN s.timers = {a \in DOMAIN s.members : s.members[a].status = Suspect}
      BY <1>4 DEF TimesSuspects
    <3>6. n \notin Suspects(A)
      BY <1>1 DEF Suspects, Alive, Suspect, Leave
    <3> QED BY <3>1, <3>2, <3>3, <3>4, <3>5, <3>6 DEF Suspects
  <2>2. \A a \in DOMAIN u.timers : u.timers[a].incarnation <= u.members[a].incarnation
    <3> SUFFICES ASSUME NEW a \in DOMAIN u.timers
                 PROVE  u.timers[a].incarnation <= u.members[a].incarnation
      OBVIOUS
    <3>1. CASE a \in DOMAIN Armed(s, n, A)
      <4>1. a \in DOMAIN A /\ u.timers[a].incarnation = A[a].incarnation
        BY <1>2, <3>1 DEF Overlay, Armed, Suspects
      <4>2. u.members[a].incarnation = A[a].incarnation
        BY <1>2, <4>1 DEF Overlay, Entries, AsMember
      <4> QED
        BY <1>1, <4>1, <4>2 DEF IsMap, ChangeRecord
    <3>2. CASE a \notin DOMAIN Armed(s, n, A)
      <4>1. a \in DOMAIN s.timers /\ u.timers[a] = s.timers[a] /\ a # n
        BY <1>2, <3>2 DEF Overlay, Kept, Restrict
      <4>2. a \in DOMAIN s.members /\ s.timers[a].incarnation <= s.members[a].incarnation
        BY <1>4, <4>1 DEF TimesSuspects
      <4>3. s.members[a].incarnation <= u.members[a].incarnation
        BY <1>7, <4>1, <4>2
      <4>4. /\ s.timers[a].incarnation \in Nat /\ s.members[a].incarnation \in Nat
            /\ u.members[a].incarnation \in Nat
        BY <1>3, <1>4, <1>7, <4>1, <4>2 DEF IsMap, MemberRecord
      <4> QED
        BY <4>1, <4>2, <4>3, <4>4
    <3> QED
      BY <3>1, <3>2
  <2> QED
    BY <2>1, <2>2 DEF TimesSuspects
<1>10. KnownUpTo(u, limit)
  <2>1. \A a \in DOMAIN u.members : u.members[a].incarnation <= limit[a]
    BY <1>1, <1>2, <1>4 DEF KnownUpTo, ToldUpTo, Overlay, Entries, AsMember
  <2>2. \A a \in DOMAIN u.changes : u.changes[a].change.incarnation <= limit[a]
    BY <1>1, <1>2, <1>4 DEF KnownUpTo, ToldUpTo, Overlay, Recorded
  <2>3. \A a \in DOMAIN u.timers : u.timers[a].incarnation <= limit[a]
    <3>1. \A a \in DOMAIN Armed(s, n, A) :
            a \in DOMAIN A /\ Armed(s, n, A)[a].incarnation = A[a].incarnation
      BY DEF Armed, Suspects
    <3>2. \A a \in DOMAIN A : A[a].incarnation <= limit[a]
      BY <1>1 DEF ToldUpTo
    <3>3. \A a \in DOMAIN s.timers : s.timers[a].incarnation <= limit[a]
      BY <1>4 DEF KnownUpTo
    <3> QED BY <1>8, <3>1, <3>2, <3>3
  <2>4. \A e \in u.expired : e.incarnation <= limit[e.address]
    BY <1>2, <1>4 DEF KnownUpTo
  <2> QED
    BY <2>1, <2>2, <2>3, <2>4 DEF KnownUpTo
<1>11. ASSUME NEW e \in u.expired
       PROVE  HasSuspected(u, e) /\ e.address # n
  <2> DEFINE x == [incarnation |-> e.incarnation, status |-> Suspect]
  <2>1. HasSuspected(s, e) /\ e.address # n /\ e \in [address : Node, incarnation : Nat]
    BY <1>2, <1>4, <1>11 DEF Healthy
  <2>2. IsEntry(x)
    BY <2>1 DEF IsEntry, Status
  <2>3. /\ e.address \in DOMAIN s.members /\ e.address \in DOMAIN u.members
        /\ ~ nonLocalOverride(s.members[e.address], x)
        /\ ~ nonLocalOverride(u.members[e.address], s.members[e.address])
    BY <1>7, <2>1 DEF HasSuspected
  <2>4. IsEntry(s.members[e.address]) /\ IsEntry(u.members[e.address])
    BY <1>3, <1>4, <2>3 DEF IsMap, MemberRecord, IsEntry
  <2> HIDE DEF x
  <2>5. ~ nonLocalOverride(u.members[e.address], x)
    BY <2>2, <2>3, <2>4, NotOlderTransitive
  <2> QED
    BY <2>1, <2>3, <2>5 DEF HasSuspected, x
<1> QED
  BY <1>5, <1>6, <1>9, <1>10, <1>11 DEF Healthy

\* What a running process knows of itself.
Own(n, s, limit) ==
  /\ n \in DOMAIN s.members
  /\ s.members[n].status \in {Alive, Leave} /\ s.members[n].incarnation = limit[n]

\* The clocks of limit have not gone back from those of before.
Later(before, limit) ==
  /\ before \in [Node -> Nat] /\ limit \in [Node -> Nat]
  /\ \A a \in Node : before[a] <= limit[a]

\* The invariants survive the progress of the clocks.
LEMMA HealthyLater ==
  ASSUME NEW n, NEW s, NEW before, NEW limit, Later(before, limit), Healthy(n, s, before)
  PROVE  Healthy(n, s, limit)
<1>1. /\ IsMap(s.members, MemberRecord)
      /\ IsMap(s.changes, [change : ChangeRecord(Node), p : Nat])
      /\ IsMap(s.timers, [incarnation : Nat, fired : BOOLEAN])
      /\ s.expired \subseteq [address : Node, incarnation : Nat]
      /\ KnownUpTo(s, before)
  BY DEF Healthy, IsNode
<1>2. \A a \in DOMAIN s.members : s.members[a].incarnation <= limit[a]
  BY <1>1 DEF KnownUpTo, IsMap, MemberRecord, Later
<1>3. \A a \in DOMAIN s.changes : s.changes[a].change.incarnation <= limit[a]
  BY <1>1 DEF KnownUpTo, IsMap, ChangeRecord, Later
<1>4. \A a \in DOMAIN s.timers : s.timers[a].incarnation <= limit[a]
  BY <1>1 DEF KnownUpTo, IsMap, Later
<1>5. \A e \in s.expired : e.incarnation <= limit[e.address]
  BY <1>1 DEF KnownUpTo, Later
<1> QED
  BY <1>2, <1>3, <1>4, <1>5 DEF Healthy, KnownUpTo

\* So do the incarnations told by a change list.
LEMMA ToldLater ==
  ASSUME NEW f, NEW before, NEW limit, Later(before, limit), ToldUpTo(f, before),
         IsMap(f, ChangeRecord(Node))
  PROVE  ToldUpTo(f, limit)
BY DEF ToldUpTo, Later, IsMap, ChangeRecord

\* A node that is told of changes keeps its invariants, goes on knowing itself, and
\* learns; when it refutes, its own incarnation is the clock reading it took.
LEMMA UpdateOwn ==
  ASSUME NEW s, NEW n \in Node, NEW changes, NEW before, NEW now \in Nat, NEW limit,
         before \in [Node -> Nat], limit = [before EXCEPT ![n] = now],
         before[n] <= now, Refutes(s, n, changes) \/ now = before[n],
         Healthy(n, s, before), Own(n, s, before),
         IsMap(changes, ChangeRecord(Node)), ToldUpTo(changes, before),
         NEW u, u = Update(s, n, changes, now)
  PROVE  /\ Later(before, limit)
         /\ Healthy(n, u, limit) /\ Own(n, u, limit)
         /\ M!Learns(n, s.members, u.members)
<1>1. Later(before, limit) /\ limit[n] = now
  BY DEF Later
<1>2. /\ Healthy(n, s, limit) /\ ToldUpTo(changes, limit)
      /\ limit \in [Node -> Nat] /\ now <= limit[n]
  <2>1. Healthy(n, s, limit)
    BY <1>1, HealthyLater
  <2>2. ToldUpTo(changes, limit)
    BY <1>1, ToldLater
  <2> QED
    BY <1>1, <2>1, <2>2 DEF Later
<1>3. Updatable(s, n, changes)
  BY DEF Updatable, Healthy, Own
<1>4. n \notin DOMAIN s.timers
  BY DEF Healthy, TimesSuspects, Own, Alive, Suspect, Leave
<1>5. Healthy(n, u, limit)
  BY <1>2, <1>3, <1>4, UpdateHealthy
<1>6. M!Learns(n, s.members, u.members)
  BY <1>2, <1>3, UpdateLearns
<1>7. Own(n, u, limit)
  <2>0. PICK A : A = Applied(s, n, changes, now)
    OBVIOUS
  <2>1. u.members = Overlay(Entries(A), s.members)
    BY <1>3, <2>0, UpdateFields DEF Updatable
  <2>2. CASE Refutes(s, n, changes)
    <3>1. n \in DOMAIN A
          /\ A[n] = [changes[n] EXCEPT !.incarnation = now, !.status = Alive]
      BY <2>0, <2>2 DEF Refutes, Applied
    <3>2. A[n].incarnation = now /\ A[n].status = Alive
      <4>1. changes[n] \in ChangeRecord(Node)
        BY <2>2 DEF Refutes, IsMap
      <4> QED
        BY <3>1, <4>1 DEF ChangeRecord
    <3>3. n \in DOMAIN u.members /\ u.members[n] = AsMember(A[n])
      BY <2>1, <3>1 DEF Overlay, Entries
    <3> QED
      BY <1>1, <3>2, <3>3 DEF AsMember, Own
  <2>3. CASE ~ Refutes(s, n, changes)
    <3>1. CASE n \in DOMAIN A
      <4>1. A[n] = changes[n] /\ n \in DOMAIN changes
            /\ nonLocalOverride(s.members[n], changes[n])
        BY <2>0, <2>3, <3>1 DEF Refutes, Applied, Own
      <4>2. /\ changes[n].incarnation <= before[n] /\ changes[n].incarnation \in Nat
            /\ changes[n].status \in Status \ {Suspect, Faulty}
        BY <2>3, <4>1 DEF ToldUpTo, IsMap, ChangeRecord, Refutes, localOverride, Own
      <4>3. changes[n].incarnation = before[n]
        BY <4>1, <4>2 DEF nonLocalOverride, Own
      <4>4. n \in DOMAIN u.members /\ u.members[n] = AsMember(A[n])
        BY <2>1, <3>1 DEF Overlay, Entries
      <4>5. u.members[n].incarnation = limit[n]
        BY <1>1, <2>3, <4>1, <4>3, <4>4 DEF AsMember
      <4>6. u.members[n].status \in {Alive, Leave}
        BY <4>1, <4>2, <4>4 DEF AsMember, Status
      <4> QED
        BY <4>4, <4>5, <4>6 DEF Own
    <3>2. CASE n \notin DOMAIN A
      <4>1. n \in DOMAIN u.members /\ u.members[n] = s.members[n]
        BY <2>1, <3>2 DEF Overlay, Entries, Own
      <4>2. now = before[n]
        BY <2>3
      <4> QED
        BY <1>1, <4>1, <4>2 DEF Own
    <3> QED
      BY <3>1, <3>2
  <2> QED
    BY <2>2, <2>3
<1> QED
  BY <1>1, <1>5, <1>6, <1>7

-----------------------------------------------------------------------------
(* The disseminator                                                        *)

\* t is s but for its changes.
ButChanges(s, t) ==
  t = [members |-> s.members, changes |-> t.changes, maxP |-> s.maxP,
       timers |-> s.timers, expired |-> s.expired]

\* Fewer changes to disseminate, with other counters: nothing else is affected.
LEMMA FewerChanges ==
  ASSUME NEW n, NEW s, NEW limit, Healthy(n, s, limit), NEW t, ButChanges(s, t),
         IsMap(t.changes, [change : ChangeRecord(Node), p : Nat]),
         DOMAIN t.changes \subseteq DOMAIN s.changes,
         \A a \in DOMAIN t.changes : t.changes[a].change = s.changes[a].change
  PROVE  Healthy(n, t, limit) /\ t.members = s.members
<1>1. /\ t.members = s.members /\ t.maxP = s.maxP
      /\ t.timers = s.timers /\ t.expired = s.expired
  BY DEF ButChanges
<1>2. IsNode(t)
  BY <1>1 DEF Healthy, IsNode, ButChanges
<1>3. KnownUpTo(t, limit) /\ PiggybacksBeliefs(t) /\ TimesSuspects(t)
  BY <1>1 DEF Healthy, KnownUpTo, PiggybacksBeliefs, TimesSuspects
<1>4. \A e \in t.expired : HasSuspected(t, e) /\ e.address # n
  BY <1>1 DEF Healthy, HasSuspected
<1> QED
  BY <1>1, <1>2, <1>3, <1>4 DEF Healthy

\* Counting a propagation preserves the invariants.
LEMMA BumpHealthy ==
  ASSUME NEW n, NEW s, NEW issued, NEW limit, Healthy(n, s, limit),
         NEW t, t = bumpPiggybackCounters(s, issued)
  PROVE  Healthy(n, t, limit) /\ t.members = s.members
<1> DEFINE spent == {a \in issued \cap DOMAIN s.changes : s.changes[a].p + 1 >= s.maxP}
           f == [a \in DOMAIN s.changes \ spent |->
                   IF a \in issued THEN [s.changes[a] EXCEPT !.p = @ + 1] ELSE s.changes[a]]
<1>1. ButChanges(s, t) /\ t.changes = f
  BY DEF bumpPiggybackCounters, ButChanges, Healthy, IsNode
<1>2. IsMap(s.changes, [change : ChangeRecord(Node), p : Nat])
  BY DEF Healthy, IsNode
<1> HIDE DEF spent
<1>3. \A a \in DOMAIN s.changes \ spent :
        f[a] \in [change : ChangeRecord(Node), p : Nat] /\ f[a].change = s.changes[a].change
  BY <1>2 DEF IsMap
<1>4. /\ DOMAIN f = DOMAIN s.changes \ spent
      /\ f \in [DOMAIN f -> [change : ChangeRecord(Node), p : Nat]]
  BY <1>3
<1>5. IsMap(f, [change : ChangeRecord(Node), p : Nat])
  BY <1>2, <1>4 DEF IsMap
<1> HIDE DEF f
<1> QED
  BY <1>1, <1>3, <1>4, <1>5, FewerChanges

\* What a node piggybacks is a list of changes up to the latest incarnations.
LEMMA IssueFacts ==
  ASSUME NEW n, NEW s, NEW limit, Healthy(n, s, limit)
  PROVE  /\ IsMap(issueChanges(s), ChangeRecord(Node))
         /\ ToldUpTo(issueChanges(s), limit)
<1>1. IsMap(s.changes, [change : ChangeRecord(Node), p : Nat]) /\ KnownUpTo(s, limit)
  BY DEF Healthy, IsNode
<1> QED
  BY <1>1 DEF issueChanges, IsMap, ToldUpTo, KnownUpTo

\* So is a full sync.
LEMMA FullSyncFacts ==
  ASSUME NEW n \in Node, NEW s, NEW limit, Healthy(n, s, limit)
  PROVE  /\ IsMap(FullSync(s, n), ChangeRecord(Node))
         /\ ToldUpTo(FullSync(s, n), limit)
<1>1. IsMap(s.members, MemberRecord) /\ KnownUpTo(s, limit)
  BY DEF Healthy, IsNode
<1>2. Incarnation(s, n) \in Int
  BY <1>1, IncarnationType
<1> QED
  BY <1>1, <1>2 DEF FullSync, IsMap, ToldUpTo, KnownUpTo, MemberRecord, ChangeRecord

\* So is a response.
LEMMA ResponseFacts ==
  ASSUME NEW n \in Node, NEW s, NEW limit, Healthy(n, s, limit), NEW sender, NEW req
  PROVE  /\ IsMap(IssuedAsReceiver(s, n, sender, req), ChangeRecord(Node))
         /\ ToldUpTo(IssuedAsReceiver(s, n, sender, req), limit)
<1> DEFINE f == filterChangesFromSender(issueChanges(s), sender, req.incarnation)
<1>1. PICK D : D \subseteq DOMAIN issueChanges(s) /\ f = Restrict(issueChanges(s), D)
  BY DEF filterChangesFromSender
<1>2. IsMap(issueChanges(s), ChangeRecord(Node)) /\ ToldUpTo(issueChanges(s), limit)
  BY IssueFacts
<1>3. IsMap(f, ChangeRecord(Node))
  BY <1>1, <1>2, RestrictMap
<1>4. ToldUpTo(f, limit)
  BY <1>1, <1>2 DEF ToldUpTo, Restrict
<1>5. /\ IsMap(FullSync(s, n), ChangeRecord(Node))
      /\ ToldUpTo(FullSync(s, n), limit)
  BY FullSyncFacts
<1> HIDE DEF f
<1>6. IssuedAsReceiver(s, n, sender, req) \in {f, FullSync(s, n)}
  BY DEF IssuedAsReceiver, f
<1> QED
  BY <1>3, <1>4, <1>5, <1>6

\* A response preserves the invariants of the node that gives it.
LEMMA ResponseHealthy ==
  ASSUME NEW n, NEW s, NEW limit, Healthy(n, s, limit), NEW sender, NEW req,
         NEW t, t = IssueAsReceiver(s, sender, req)
  PROVE  Healthy(n, t, limit) /\ t.members = s.members
BY BumpHealthy DEF IssueAsReceiver

\* A request tells changes up to the latest incarnations.
LEMMA RequestFacts ==
  ASSUME NEW n \in Node, NEW s, NEW limit, Healthy(n, s, limit)
  PROVE  IsRequest(Request(s, n)) /\ ToldUpTo(Request(s, n).changes, limit)
<1>1. IsMap(s.members, MemberRecord)
  BY DEF Healthy, IsNode
<1>2. Incarnation(s, n) \in Int
  BY <1>1, IncarnationType
<1>3. IsMap(issueChanges(s), ChangeRecord(Node)) /\ ToldUpTo(issueChanges(s), limit)
  BY IssueFacts
<1>4. /\ Request(s, n).incarnation = Incarnation(s, n)
      /\ Request(s, n).checksum = s.members
      /\ Request(s, n).changes = issueChanges(s)
      /\ Request(s, n) = [incarnation |-> Request(s, n).incarnation,
                          checksum |-> Request(s, n).checksum,
                          changes |-> Request(s, n).changes]
  BY DEF Request
<1> QED
  BY <1>1, <1>2, <1>3, <1>4 DEF IsRequest

\* A join list is an update that is not disseminated.
LEMMA JoinListHealthy ==
  ASSUME NEW s, NEW n, NEW changes, NEW now, NEW limit,
         Healthy(n, Update(s, n, changes, now), limit),
         NEW t, t = AddJoinList(s, n, changes, now)
  PROVE  Healthy(n, t, limit) /\ t.members = Update(s, n, changes, now).members
<1>0. PICK u : u = Update(s, n, changes, now)
  OBVIOUS
<1>1. PICK D : /\ D \subseteq DOMAIN u.changes
               /\ t = [u EXCEPT !.changes = Restrict(u.changes, D)]
  BY <1>0 DEF AddJoinList
<1>2. ButChanges(u, t) /\ t.changes = Restrict(u.changes, D)
  BY <1>0, <1>1 DEF ButChanges, Healthy, IsNode
<1>3. IsMap(u.changes, [change : ChangeRecord(Node), p : Nat])
  BY <1>0 DEF Healthy, IsNode
<1>4. IsMap(t.changes, [change : ChangeRecord(Node), p : Nat])
  BY <1>1, <1>2, <1>3, RestrictMap
<1>5. /\ DOMAIN t.changes \subseteq DOMAIN u.changes
      /\ \A a \in DOMAIN t.changes : t.changes[a].change = u.changes[a].change
  BY <1>1, <1>2 DEF Restrict
<1> QED
  BY <1>0, <1>2, <1>4, <1>5, FewerChanges, ZenonT(60)

\* A process that has just started.
LEMMA NewNodeFacts ==
  ASSUME NEW n, NEW limit
  PROVE  Healthy(n, NewNode, limit) /\ DOMAIN NewNode.members = {}
<1>1. IsNode(NewNode)
  BY EmptyMap, ParameterAssumption DEF NewNode, IsNode
<1>2. /\ DOMAIN NewNode.members = {} /\ DOMAIN NewNode.changes = {}
      /\ DOMAIN NewNode.timers = {} /\ NewNode.expired = {}
  BY EmptyMap DEF NewNode
<1> QED
  BY <1>1, <1>2 DEF Healthy, KnownUpTo, PiggybacksBeliefs, TimesSuspects

-----------------------------------------------------------------------------
(* Calls                                                                   *)

GoodCall(r, limit, up) == IsCall(r) /\ CallUpTo(r, limit) /\ CallOk(r, up)

\* Calls stay good as the clocks go on.
LEMMA GoodCallLater ==
  ASSUME NEW r, NEW before, NEW limit, NEW up, Later(before, limit), GoodCall(r, before, up)
  PROVE  GoodCall(r, limit, up)
<1>1. /\ IsMap(r.out.changes, ChangeRecord(Node)) /\ ToldUpTo(r.out.changes, before)
      /\ IsMap(r.via.changes, ChangeRecord(Node)) /\ ToldUpTo(r.via.changes, before)
      /\ IsMap(r.back, ChangeRecord(Node)) /\ ToldUpTo(r.back, before)
  BY DEF GoodCall, IsCall, IsRequest, CallUpTo
<1>2. ToldUpTo(r.out.changes, limit)
  BY <1>1, ToldLater
<1>3. ToldUpTo(r.via.changes, limit)
  BY <1>1, ToldLater
<1>4. ToldUpTo(r.back, limit)
  BY <1>1, ToldLater
<1> QED
  BY <1>2, <1>3, <1>4 DEF GoodCall, CallUpTo

\* Requests that say nothing.
LEMMA NoRequestFacts ==
  ASSUME NEW limit
  PROVE  /\ IsRequest(NoRequest) /\ ToldUpTo(NoRequest.changes, limit)
         /\ IsMap(Empty, ChangeRecord(Node)) /\ ToldUpTo(Empty, limit)
<1>1. /\ IsMap(Empty, ChangeRecord(Node)) /\ IsMap(Empty, MemberRecord)
      /\ DOMAIN Empty = {}
  BY EmptyMap
<1>2. ToldUpTo(Empty, limit)
  BY <1>1 DEF ToldUpTo
<1>3. /\ NoRequest.incarnation = -1 /\ NoRequest.checksum = Empty
      /\ NoRequest.changes = Empty
      /\ NoRequest = [incarnation |-> NoRequest.incarnation,
                      checksum |-> NoRequest.checksum, changes |-> NoRequest.changes]
  BY DEF NoRequest
<1> QED
  BY <1>1, <1>2, <1>3 DEF IsRequest

\* A call that a running process starts.
LEMMA NewCall ==
  ASSUME NEW kind \in {"ping", "ping-req"}, NEW src \in Node, NEW dst \in Node,
         NEW target \in Node, NEW req, NEW limit,
         IsRequest(req), ToldUpTo(req.changes, limit),
         NEW r, r = Call(kind, src, dst, target, req)
  PROVE  /\ IsCall(r) /\ CallUpTo(r, limit)
         /\ r.stage = "request" /\ r.waiter = "collecting" /\ r.src = src /\ r.dst = dst
<1>1. /\ r = [kind |-> kind, src |-> src, dst |-> dst, target |-> target,
              stage |-> "request", waiter |-> "collecting", out |-> req,
              via |-> NoRequest, ok |-> FALSE, back |-> Empty]
  BY DEF Call
<1>2. /\ r.kind = kind /\ r.src = src /\ r.dst = dst /\ r.target = target
      /\ r.stage = "request" /\ r.waiter = "collecting" /\ r.out = req
      /\ r.via = NoRequest /\ r.ok = FALSE /\ r.back = Empty
      /\ r = [kind |-> r.kind, src |-> r.src, dst |-> r.dst, target |-> r.target,
              stage |-> r.stage, waiter |-> r.waiter, out |-> r.out, via |-> r.via,
              ok |-> r.ok, back |-> r.back]
  BY <1>1
<1>3. /\ IsRequest(NoRequest) /\ ToldUpTo(NoRequest.changes, limit)
      /\ IsMap(Empty, ChangeRecord(Node)) /\ ToldUpTo(Empty, limit)
  BY NoRequestFacts
<1>4. IsCall(r)
  BY <1>2, <1>3 DEF IsCall
<1>5. CallUpTo(r, limit)
  BY <1>2, <1>3 DEF CallUpTo
<1> QED
  BY <1>2, <1>4, <1>5

\* It is good if it goes to another process.
LEMMA NewCallGood ==
  ASSUME NEW kind \in {"ping", "ping-req"}, NEW src \in Node, NEW dst \in Node,
         NEW target \in Node, NEW req, NEW limit, NEW up,
         IsRequest(req), ToldUpTo(req.changes, limit), src \in up, src # dst
  PROVE  GoodCall(Call(kind, src, dst, target, req), limit, up)
<1>0. PICK r : r = Call(kind, src, dst, target, req)
  OBVIOUS
<1>1. /\ IsCall(r) /\ CallUpTo(r, limit)
      /\ r.stage = "request" /\ r.waiter = "collecting" /\ r.src = src /\ r.dst = dst
  BY <1>0, NewCall
<1>2. CallOk(r, up)
  BY <1>1 DEF CallOk
<1> QED
  BY <1>0, <1>1, <1>2 DEF GoodCall

\* What a caller that gives up leaves behind is good, even if it stops.
LEMMA AbandonedGood ==
  ASSUME NEW r, NEW limit, NEW up, NEW u2, GoodCall(r, limit, up), NEW q \in Abandoned(r),
         r.stage \in {"relay", "relayed"} => r.dst \in u2
  PROVE  GoodCall(q, limit, u2)
<1>1. q = [r EXCEPT !.waiter = "gone"] /\ r.stage \in {"request", "relay", "relayed"}
  BY DEF Abandoned
<1>2. /\ q.kind = r.kind /\ q.src = r.src /\ q.dst = r.dst /\ q.target = r.target
      /\ q.stage = r.stage /\ q.waiter = "gone" /\ q.out = r.out /\ q.via = r.via
      /\ q.ok = r.ok /\ q.back = r.back
      /\ q = [kind |-> q.kind, src |-> q.src, dst |-> q.dst, target |-> q.target,
              stage |-> q.stage, waiter |-> q.waiter, out |-> q.out, via |-> q.via,
              ok |-> q.ok, back |-> q.back]
  BY <1>1 DEF GoodCall, IsCall
<1>3. IsCall(q)
  BY <1>2 DEF GoodCall, IsCall
<1>4. CallUpTo(q, limit) /\ CallOk(q, u2)
  BY <1>1, <1>2 DEF GoodCall, CallUpTo, CallOk
<1> QED
  BY <1>3, <1>4 DEF GoodCall

\* So is what a helper that gives up leaves behind.
LEMMA AbandonedRelayGood ==
  ASSUME NEW r, NEW limit, NEW up, NEW u2, GoodCall(r, limit, up), NEW q \in AbandonedRelay(r)
  PROVE  GoodCall(q, limit, u2)
<1>0. PICK c : c = Call("ping", r.dst, r.target, r.target, r.via)
  OBVIOUS
<1>1. q \in Abandoned(c)
  BY <1>0 DEF AbandonedRelay
<1>2. /\ r.dst \in Node /\ r.target \in Node /\ IsRequest(r.via)
      /\ ToldUpTo(r.via.changes, limit)
  BY DEF GoodCall, IsCall, CallUpTo
<1>3. IsCall(c) /\ CallUpTo(c, limit) /\ c.stage = "request"
  BY <1>0, <1>2, NewCall
<1>4. q = [c EXCEPT !.waiter = "gone"]
  BY <1>1 DEF Abandoned
<1>5. /\ q.kind = c.kind /\ q.src = c.src /\ q.dst = c.dst /\ q.target = c.target
      /\ q.stage = c.stage /\ q.waiter = "gone" /\ q.out = c.out /\ q.via = c.via
      /\ q.ok = c.ok /\ q.back = c.back
      /\ q = [kind |-> q.kind, src |-> q.src, dst |-> q.dst, target |-> q.target,
              stage |-> q.stage, waiter |-> q.waiter, out |-> q.out, via |-> q.via,
              ok |-> q.ok, back |-> q.back]
  BY <1>3, <1>4 DEF IsCall
<1>6. IsCall(q)
  BY <1>3, <1>5 DEF IsCall
<1>7. CallUpTo(q, limit) /\ CallOk(q, u2)
  BY <1>3, <1>5 DEF CallUpTo, CallOk
<1> QED
  BY <1>6, <1>7 DEF GoodCall

\* So is an answer.
LEMMA AnsweredGood ==
  ASSUME NEW r, NEW limit, NEW up, GoodCall(r, limit, up), NEW ok \in BOOLEAN, NEW changes,
         IsMap(changes, ChangeRecord(Node)), ToldUpTo(changes, limit),
         NEW q \in Answered(r, ok, changes)
  PROVE  GoodCall(q, limit, up)
<1>1. /\ r.waiter # "gone"
      /\ q = [r EXCEPT !.stage = "reply", !.ok = ok, !.back = changes, !.via = NoRequest]
  BY DEF Answered
<1>2. /\ q.kind = r.kind /\ q.src = r.src /\ q.dst = r.dst /\ q.target = r.target
      /\ q.stage = "reply" /\ q.waiter = r.waiter /\ q.out = r.out /\ q.via = NoRequest
      /\ q.ok = ok /\ q.back = changes
      /\ q = [kind |-> q.kind, src |-> q.src, dst |-> q.dst, target |-> q.target,
              stage |-> q.stage, waiter |-> q.waiter, out |-> q.out, via |-> q.via,
              ok |-> q.ok, back |-> q.back]
  BY <1>1 DEF GoodCall, IsCall
<1>3. IsRequest(NoRequest) /\ ToldUpTo(NoRequest.changes, limit)
  BY NoRequestFacts
<1>4. IsCall(q)
  BY <1>2, <1>3 DEF GoodCall, IsCall
<1>5. CallUpTo(q, limit) /\ CallOk(q, up)
  BY <1>1, <1>2, <1>3 DEF GoodCall, CallUpTo, CallOk
<1> QED
  BY <1>4, <1>5 DEF GoodCall
-----------------------------------------------------------------------------
(* The inductive invariant                                                 *)

Base ==
  /\ state \in [Node -> {"down", "joining", "ready"}]
  /\ clock \in [Node -> Nat]
  /\ losses \in 0 .. MaxLosses

NodesInv ==
  /\ nodes = [n \in Node |-> nodes[n]]
  /\ \A n \in Node : /\ Healthy(n, nodes[n], clock)
                     /\ n \in Up => Own(n, nodes[n], clock)
                     /\ n \notin Up => nodes[n] = NewNode

PingersInv ==
  /\ pinger = [n \in Node |-> pinger[n]]
  /\ \A n \in Node : /\ IsPinger(pinger[n])
                     /\ pinger[n].phase # "idle" =>
                          /\ n \in Up
                          /\ pinger[n].target \in DOMAIN nodes[n].members \ {n}

CallsInv == \A r \in rpcs : GoodCall(r, clock, Up)

\* The inductive invariant.
Inv == Base /\ NodesInv /\ PingersInv /\ CallsInv

\* The running process n takes a step, and no other.
Evolves(n) ==
  /\ n \in Up /\ state' \in [Node -> {"down", "joining", "ready"}] /\ Up' = Up
  /\ nodes' = [nodes EXCEPT ![n] = nodes'[n]]
  /\ clock' = [clock EXCEPT ![n] = clock'[n]]
  /\ Later(clock, clock')
  /\ Healthy(n, nodes'[n], clock') /\ Own(n, nodes'[n], clock')
  /\ M!Learns(n, nodes[n].members, nodes'[n].members)

-----------------------------------------------------------------------------
(* Steps of one process                                                    *)

\* All nodes keep their invariants when one of them evolves.
LEMMA EvolvesNodes ==
  ASSUME Inv, NEW n \in Node, Evolves(n)
  PROVE  NodesInv'
<1>1. DOMAIN nodes = Node /\ nodes' = [m \in Node |-> nodes'[m]]
  BY DEF Inv, NodesInv, Evolves
<1>2. ASSUME NEW m \in Node
      PROVE  /\ Healthy(m, nodes'[m], clock')
             /\ m \in Up' => Own(m, nodes'[m], clock')
             /\ m \notin Up' => nodes'[m] = NewNode
  <2>1. CASE m = n
    BY <2>1 DEF Evolves
  <2>2. CASE m # n
    <3>1. nodes'[m] = nodes[m] /\ clock'[m] = clock[m] /\ Up' = Up
      BY <1>1, <2>2 DEF Evolves, Inv, Base
    <3>2. Healthy(m, nodes[m], clock')
      BY HealthyLater DEF Evolves, Inv, NodesInv
    <3> QED
      BY <3>1, <3>2 DEF Inv, NodesInv, Own
  <2> QED
    BY <2>1, <2>2
<1> QED
  BY <1>1, <1>2 DEF NodesInv

\* The calls in flight stay good when a process evolves.
LEMMA EvolvesCalls ==
  ASSUME Inv, NEW n \in Node, Evolves(n), NEW r \in rpcs
  PROVE  GoodCall(r, clock', Up')
BY GoodCallLater DEF Inv, CallsInv, Evolves

\* What happens to a process that applies a change list, after it has perhaps raised
\* some piggyback counters.
LEMMA Told ==
  ASSUME Inv, NEW n \in Up, NEW s, Healthy(n, s, clock), s.members = nodes[n].members,
         NEW changes, IsMap(changes, ChangeRecord(Node)), ToldUpTo(changes, clock),
         NEW now \in Now(nodes[n], n, changes), NEW u, u = Update(s, n, changes, now),
         NEW limit, limit = [clock EXCEPT ![n] = now]
  PROVE  /\ now \in Nat /\ Later(clock, limit)
         /\ Healthy(n, u, limit) /\ Own(n, u, limit)
         /\ M!Learns(n, nodes[n].members, u.members)
<1>1. n \in Node /\ clock \in [Node -> Nat]
  BY DEF Up, Inv, Base
<1>2. /\ now \in Nat /\ clock[n] <= now
      /\ Refutes(nodes[n], n, changes) \/ now = clock[n]
  BY <1>1, ParameterAssumption DEF Now, Readings
<1>3. Refutes(s, n, changes) <=> Refutes(nodes[n], n, changes)
  BY DEF Refutes
<1>4. Own(n, s, clock)
  BY <1>1 DEF Inv, NodesInv, Own
<1>5. /\ Later(clock, limit) /\ Healthy(n, u, limit) /\ Own(n, u, limit)
      /\ M!Learns(n, s.members, u.members)
  BY <1>1, <1>2, <1>3, <1>4, UpdateOwn
<1> QED
  BY <1>2, <1>5

\* A process whose state becomes t evolves, if t is healthy.
LEMMA BecomesEvolves ==
  ASSUME Inv, NEW n \in Up, NEW t, NEW now \in Nat, Becomes(n, t, now),
         state' \in [Node -> {"down", "joining", "ready"}], Up' = Up,
         NEW limit, limit = [clock EXCEPT ![n] = now], Later(clock, limit),
         Healthy(n, t, limit), Own(n, t, limit), M!Learns(n, nodes[n].members, t.members)
  PROVE  Evolves(n) /\ nodes'[n] = t /\ clock' = limit
<1>1. n \in Node /\ clock \in [Node -> Nat] /\ DOMAIN nodes = Node
  BY DEF Up, Inv, Base, NodesInv
<1>2. nodes'[n] = t /\ clock' = limit /\ clock'[n] = now
  BY <1>1 DEF Becomes
<1> QED
  BY <1>1, <1>2 DEF Evolves, Becomes

\* A running process that applies a change list evolves.
LEMMA UpdateEvolves ==
  ASSUME Inv, NEW n \in Up, NEW s, Healthy(n, s, clock), s.members = nodes[n].members,
         NEW changes, IsMap(changes, ChangeRecord(Node)), ToldUpTo(changes, clock),
         NEW now \in Now(nodes[n], n, changes), NEW u, u = Update(s, n, changes, now),
         Becomes(n, u, now), state' = state
  PROVE  Evolves(n) /\ nodes'[n] = u
<1>0. PICK limit : limit = [clock EXCEPT ![n] = now]
  OBVIOUS
<1>s. state' \in [Node -> {"down", "joining", "ready"}] /\ Up' = Up
  BY DEF Inv, Base, Up
<1>1. /\ now \in Nat /\ Later(clock, limit)
      /\ Healthy(n, u, limit) /\ Own(n, u, limit)
      /\ M!Learns(n, nodes[n].members, u.members)
  BY <1>0, Told
<1> QED
  BY <1>0, <1>s, <1>1, BecomesEvolves

\* So does one that applies a change list and then answers a request, and the answer
\* tells changes up to the latest incarnations.
LEMMA AnswerEvolves ==
  ASSUME Inv, NEW n \in Up, NEW s, Healthy(n, s, clock), s.members = nodes[n].members,
         NEW changes, IsMap(changes, ChangeRecord(Node)), ToldUpTo(changes, clock),
         NEW now \in Now(nodes[n], n, changes), NEW u, u = Update(s, n, changes, now),
         NEW sender, NEW req, Becomes(n, IssueAsReceiver(u, sender, req), now), state' = state
  PROVE  /\ Evolves(n)
         /\ IsMap(IssuedAsReceiver(u, n, sender, req), ChangeRecord(Node))
         /\ ToldUpTo(IssuedAsReceiver(u, n, sender, req), clock')
<1>0. PICK limit : limit = [clock EXCEPT ![n] = now]
  OBVIOUS
<1>s. state' \in [Node -> {"down", "joining", "ready"}] /\ Up' = Up
  BY DEF Inv, Base, Up
<1>1. /\ now \in Nat /\ Later(clock, limit)
      /\ Healthy(n, u, limit) /\ Own(n, u, limit)
      /\ M!Learns(n, nodes[n].members, u.members)
  BY <1>0, Told
<1>2. PICK t : t = IssueAsReceiver(u, sender, req)
  OBVIOUS
<1>b. Becomes(n, t, now)
  BY <1>2
<1>3. Healthy(n, t, limit) /\ t.members = u.members
  BY <1>1, <1>2, ResponseHealthy
<1>4. Own(n, t, limit) /\ M!Learns(n, nodes[n].members, t.members)
  BY <1>1, <1>3 DEF Own
<1>5. Evolves(n) /\ clock' = limit
  BY <1>0, <1>s, <1>1, <1>b, <1>3, <1>4, BecomesEvolves, ZenonT(60)
<1>6. n \in Node
  BY DEF Up
<1> QED
  BY <1>1, <1>5, <1>6, ResponseFacts

\* A process that only raises piggyback counters evolves.
LEMMA BumpEvolves ==
  ASSUME Inv, NEW n \in Up, NEW t, Healthy(n, t, clock), t.members = nodes[n].members,
         Becomes(n, t, clock[n]), state' = state
  PROVE  Evolves(n) /\ clock' = clock
<1>1. n \in Node /\ clock \in [Node -> Nat] /\ Own(n, nodes[n], clock)
      /\ IsMap(t.members, MemberRecord)
  BY DEF Up, Inv, Base, NodesInv, Healthy, IsNode
<1>2. clock = [clock EXCEPT ![n] = clock[n]] /\ Later(clock, clock) /\ clock[n] \in Nat
  BY <1>1 DEF Later
<1>3. Own(n, t, clock)
  BY <1>1 DEF Own
<1>4. \A a \in DOMAIN t.members : IsEntry(t.members[a])
  BY <1>1 DEF IsMap, MemberRecord, IsEntry
<1>5. M!Learns(n, nodes[n].members, t.members)
  BY <1>4, OverrideIrreflexive, SameOrder DEF M!Learns
<1>6. state' \in [Node -> {"down", "joining", "ready"}] /\ Up' = Up
  BY DEF Inv, Base, Up
<1> QED
  BY <1>2, <1>3, <1>5, <1>6, BecomesEvolves

\* Gossip loops stay well while a process evolves, if none starts.
LEMMA EvolvesPingers ==
  ASSUME Inv, NEW n \in Node, Evolves(n), pinger' = [m \in Node |-> pinger'[m]],
         \A m \in Node :
           /\ IsPinger(pinger'[m])
           /\ pinger'[m].phase # "idle" => /\ pinger[m].phase # "idle"
                                           /\ pinger'[m].target = pinger[m].target
  PROVE  PingersInv'
<1>1. Up' = Up /\ \A m \in Node : DOMAIN nodes[m].members \subseteq DOMAIN nodes'[m].members
  BY DEF Evolves, M!Learns, Inv, NodesInv
<1>2. ASSUME NEW m \in Node, pinger'[m].phase # "idle"
      PROVE  m \in Up' /\ pinger'[m].target \in DOMAIN nodes'[m].members \ {m}
  BY <1>1, <1>2 DEF Inv, PingersInv
<1> QED
  BY <1>2 DEF PingersInv

\* The invariant after a step in which one process evolves.
LEMMA EvolvesInv ==
  ASSUME Inv, NEW n \in Node, Evolves(n), PingersInv', losses' \in 0 .. MaxLosses,
         \A r \in rpcs' : GoodCall(r, clock', Up')
  PROVE  Inv'
<1>1. NodesInv'
  BY EvolvesNodes
<1>2. Base'
  BY DEF Base, Evolves, Later
<1> QED
  BY <1>1, <1>2 DEF Inv, CallsInv

-----------------------------------------------------------------------------
(* The actions                                                             *)

\* A process starts a ping.
LEMMA PingInv ==
  ASSUME Inv, NEW n \in Node, NEW t \in Node, Ping(n, t)
  PROVE  Inv'
<1>1. n \in Up /\ Up' = Up /\ t \in DOMAIN nodes[n].members \ {n}
  <2>1. IsMap(nodes[n].members, MemberRecord)
    BY DEF Inv, NodesInv, Healthy, IsNode
  <2> QED
    BY <2>1, PingableType DEF Ping, Up
<1>2. Base' /\ NodesInv'
  BY <1>1 DEF Ping, Inv, Base, NodesInv
<1>3. PingersInv'
  BY <1>1 DEF Ping, Inv, PingersInv, IsPinger, Idle
<1>4. GoodCall(Call("ping", n, t, t, Request(nodes[n], n)), clock, Up)
  <2>1. IsRequest(Request(nodes[n], n)) /\ ToldUpTo(Request(nodes[n], n).changes, clock)
    BY RequestFacts DEF Inv, NodesInv
  <2> QED
    BY <1>1, <2>1, NewCallGood
<1>5. CallsInv'
  BY <1>1, <1>4 DEF Ping, Inv, CallsInv
<1> QED
  BY <1>2, <1>3, <1>5 DEF Inv

\* Nothing but the calls and perhaps the gossip loop of one process changes.
LEMMA QuietInv ==
  ASSUME Inv, nodes' = nodes, clock' = clock, state' = state, PingersInv',
         losses' \in 0 .. MaxLosses, \A r \in rpcs' : GoodCall(r, clock, Up)
  PROVE  Inv'
<1>1. Up' = Up
  BY DEF Up
<1> QED
  BY <1>1 DEF Inv, Base, NodesInv, CallsInv

\* Fails keeps count.
LEMMA FailsType ==
  ASSUME Inv, NEW d, Fails(d)
  PROVE  losses' \in 0 .. MaxLosses
BY ParameterAssumption DEF Inv, Base, Fails

\* A process gives up on a ping and sends ping-reqs.
LEMMA PingFailedInv ==
  ASSUME Inv, LoopsWait, NEW r \in rpcs, PingFailed(r)
  PROVE  Inv'
<1>1. GoodCall(r, clock, Up) /\ r.waiter = "collecting" /\ r.src \in Up /\ r.src \in Node
      /\ r.dst \in Node
  BY DEF PingFailed, Inv, CallsInv, GoodCall, CallOk, IsCall
<1> DEFINE n == r.src
           req(h) == Call("ping-req", n, h, r.dst, Request(nodes[n], n))
<1>2. PICK P \in SUBSET (Pingable(nodes[n], n) \ {r.dst}) :
        /\ rpcs' = Replace(r, Abandoned(r) \cup {req(h) : h \in P})
        /\ pinger' = [pinger EXCEPT ![n] = [@ EXCEPT !.phase = "ping-req",
                                                     !.helpers = Cardinality(P)]]
  BY DEF PingFailed
<1>3. IsMap(nodes[n].members, MemberRecord)
  BY <1>1 DEF Inv, NodesInv, Healthy, IsNode
<1>4. P \subseteq Node \ {n}
  BY <1>3, PingableType
<1>5. Cardinality(P) \in Nat
  BY <1>4, NodeAssumption, FS_Subset, FS_CardinalityType
<1>6. PingersInv'
  <2>1. pinger[n].phase = "ping"
    BY <1>1 DEF PingFailed, LoopsWait
  <2> QED
    <3>1. /\ nodes' = nodes /\ Up' = Up /\ DOMAIN pinger = Node
          /\ pinger' = [m \in Node |-> pinger'[m]]
      BY <1>2 DEF PingFailed, Inv, PingersInv, Up
    <3>2. /\ IsPinger(pinger'[n]) /\ pinger'[n].target = pinger[n].target
          /\ pinger[n].target \in DOMAIN nodes[n].members \ {n}
      <4>1. pinger'[n] = [pinger[n] EXCEPT !.phase = "ping-req", !.helpers = Cardinality(P)]
        BY <1>1, <1>2, <3>1
      <4>2. IsPinger(pinger[n]) /\ pinger[n].target \in DOMAIN nodes[n].members \ {n}
        BY <1>1, <2>1 DEF Inv, PingersInv
      <4> QED
        BY <1>5, <4>1, <4>2 DEF IsPinger
    <3>3. \A m \in Node \ {n} : pinger'[m] = pinger[m]
      BY <1>2, <3>1
    <3> QED
      BY <1>1, <3>1, <3>2, <3>3 DEF Inv, PingersInv
<1>7. ASSUME NEW q \in rpcs'
      PROVE  GoodCall(q, clock, Up)
  <2>1. CASE q \in rpcs
    BY <2>1 DEF Inv, CallsInv
  <2>2. CASE q \in Abandoned(r)
    BY <1>1, <2>2, AbandonedGood DEF GoodCall, CallOk
  <2>3. CASE \E h \in P : q = req(h)
    <3>1. IsRequest(Request(nodes[n], n)) /\ ToldUpTo(Request(nodes[n], n).changes, clock)
      BY <1>1, RequestFacts DEF Inv, NodesInv
    <3>2. PICK h \in P : q = req(h)
      BY <2>3
    <3>3. h \in Node /\ h # n
      BY <1>4
    <3> QED
      BY <1>1, <3>1, <3>2, <3>3, NewCallGood
  <2> QED
    BY <1>2, <2>1, <2>2, <2>3 DEF Replace
<1> QED
  BY <1>6, <1>7, QuietInv, FailsType DEF PingFailed

\* A request that nobody waits for is lost.
LEMMA LoseRequestInv ==
  ASSUME Inv, NEW r \in rpcs, LoseRequest(r)
  PROVE  Inv'
BY DEF LoseRequest, Replace, Inv, Base, NodesInv, PingersInv, CallsInv, Up

\* A process answers a ping.
LEMMA HandlePingInv ==
  ASSUME Inv, NEW r \in rpcs, HandlePing(r)
  PROVE  Inv' /\ Evolves(r.dst)
<1>1. /\ GoodCall(r, clock, Up) /\ r.dst \in Node
      /\ IsMap(r.out.changes, ChangeRecord(Node)) /\ ToldUpTo(r.out.changes, clock)
  BY DEF Inv, CallsInv, GoodCall, IsCall, IsRequest, CallUpTo
<1>2. r.dst \in Up
  BY <1>1 DEF HandlePing, handlePing, pingResponse, Up
<1>3. PICK now, u :
        /\ now \in Now(nodes[r.dst], r.dst, r.out.changes)
        /\ u = Update(nodes[r.dst], r.dst, r.out.changes, now)
        /\ Becomes(r.dst, IssueAsReceiver(u, r.src, r.out), now)
        /\ rpcs' = Replace(r, Answered(r, TRUE, IssuedAsReceiver(u, r.dst, r.src, r.out)))
  BY DEF HandlePing, handlePing, pingResponse
<1>4. state' = state /\ pinger' = pinger /\ losses' = losses
  BY DEF HandlePing, handlePing, pingResponse
<1>5. /\ Evolves(r.dst)
      /\ IsMap(IssuedAsReceiver(u, r.dst, r.src, r.out), ChangeRecord(Node))
      /\ ToldUpTo(IssuedAsReceiver(u, r.dst, r.src, r.out), clock')
  BY <1>1, <1>2, <1>3, <1>4, AnswerEvolves DEF Inv, NodesInv
<1>6. PingersInv'
  BY <1>1, <1>4, <1>5, EvolvesPingers DEF Inv, PingersInv
<1>7. ASSUME NEW q \in rpcs'
      PROVE  GoodCall(q, clock', Up')
  <2>1. \A p \in rpcs : GoodCall(p, clock', Up')
    BY <1>1, <1>5, EvolvesCalls
  <2>2. CASE q \in rpcs
    BY <2>1, <2>2
  <2>3. CASE q \in Answered(r, TRUE, IssuedAsReceiver(u, r.dst, r.src, r.out))
    BY <1>5, <2>1, <2>3, AnsweredGood
  <2> QED
    BY <1>3, <2>2, <2>3 DEF Replace
<1> QED
  BY <1>1, <1>4, <1>5, <1>6, <1>7, EvolvesInv DEF Inv, Base

\* The answer to a ping arrives.
LEMMA PingOkInv ==
  ASSUME Inv, NEW r \in rpcs, PingOk(r)
  PROVE  Inv' /\ Evolves(r.src)
<1>1. /\ GoodCall(r, clock, Up) /\ r.src \in Node
      /\ IsMap(r.back, ChangeRecord(Node)) /\ ToldUpTo(r.back, clock)
  BY DEF Inv, CallsInv, GoodCall, IsCall, CallUpTo
<1>2. r.src \in Up
  BY <1>1 DEF PingOk, GoodCall, CallOk
<1>3. PICK now, s, u :
        /\ now \in Now(nodes[r.src], r.src, r.back)
        /\ s = bumpPiggybackCounters(nodes[r.src], DOMAIN r.out.changes)
        /\ u = Update(s, r.src, r.back, now)
        /\ Becomes(r.src, u, now)
  BY DEF PingOk
<1>4. Healthy(r.src, s, clock) /\ s.members = nodes[r.src].members
  BY <1>1, <1>3, BumpHealthy DEF Inv, NodesInv
<1>5. /\ state' = state /\ losses' = losses /\ rpcs' \subseteq rpcs
      /\ pinger' = [pinger EXCEPT ![r.src] = Idle]
  BY DEF PingOk, Replace
<1>6. Evolves(r.src)
  BY <1>1, <1>2, <1>3, <1>4, <1>5, UpdateEvolves
<1>7. PingersInv'
  <2>1. pinger' = [m \in Node |-> pinger'[m]]
        /\ \A m \in Node : pinger'[m] = pinger[m] \/ pinger'[m] = Idle
    BY <1>5 DEF Inv, PingersInv
  <2>2. IsPinger(Idle) /\ Idle.phase = "idle"
    BY DEF IsPinger, Idle
  <2> QED
    BY <1>1, <1>6, <2>1, <2>2, EvolvesPingers DEF Inv, PingersInv
<1>8. \A q \in rpcs' : GoodCall(q, clock', Up')
  BY <1>1, <1>5, <1>6, EvolvesCalls
<1> QED
  BY <1>1, <1>5, <1>6, <1>7, <1>8, EvolvesInv DEF Inv, Base

\* A helper receives a ping-req and starts its own ping.
LEMMA HandlePingRequestInv ==
  ASSUME Inv, NEW r \in rpcs, HandlePingRequest(r)
  PROVE  Inv' /\ Evolves(r.dst)
<1>1. /\ GoodCall(r, clock, Up) /\ r.dst \in Node
      /\ IsMap(r.out.changes, ChangeRecord(Node)) /\ ToldUpTo(r.out.changes, clock)
  BY DEF Inv, CallsInv, GoodCall, IsCall, IsRequest, CallUpTo
<1>2. r.dst \in Up
  BY <1>1 DEF HandlePingRequest, Up
<1>3. PICK now, u, q :
        /\ now \in Now(nodes[r.dst], r.dst, r.out.changes)
        /\ u = Update(nodes[r.dst], r.dst, r.out.changes, now)
        /\ Becomes(r.dst, u, now)
        /\ q = [r EXCEPT !.stage = "relay", !.via = Request(u, r.dst)]
        /\ rpcs' = Replace(r, {q})
  BY DEF HandlePingRequest
<1>4. state' = state /\ pinger' = pinger /\ losses' = losses /\ r.kind = "ping-req"
  BY DEF HandlePingRequest
<1>5. Evolves(r.dst) /\ nodes'[r.dst] = u
  <2>1. Healthy(r.dst, nodes[r.dst], clock)
    BY <1>1 DEF Inv, NodesInv
  <2> QED
    BY <1>1, <1>2, <1>3, <1>4, <2>1, UpdateEvolves
<1>6. PingersInv'
  BY <1>1, <1>4, <1>5, EvolvesPingers DEF Inv, PingersInv
<1>7. \A p \in rpcs : GoodCall(p, clock', Up')
  BY <1>1, <1>5, EvolvesCalls
<1>8. IsRequest(Request(u, r.dst)) /\ ToldUpTo(Request(u, r.dst).changes, clock')
  BY <1>1, <1>5, RequestFacts DEF Evolves
<1>9. GoodCall(q, clock', Up')
  <2>1. /\ q.kind = r.kind /\ q.src = r.src /\ q.dst = r.dst /\ q.target = r.target
        /\ q.stage = "relay" /\ q.waiter = r.waiter /\ q.out = r.out
        /\ q.via = Request(u, r.dst) /\ q.ok = r.ok /\ q.back = r.back
        /\ q = [kind |-> q.kind, src |-> q.src, dst |-> q.dst, target |-> q.target,
                stage |-> q.stage, waiter |-> q.waiter, out |-> q.out, via |-> q.via,
                ok |-> q.ok, back |-> q.back]
    BY <1>1, <1>3 DEF GoodCall, IsCall
  <2>2. IsCall(q)
    BY <1>1, <1>8, <2>1 DEF GoodCall, IsCall
  <2>3. CallUpTo(q, clock')
    BY <1>7, <1>8, <2>1 DEF GoodCall, CallUpTo
  <2>4. CallOk(q, Up')
    BY <1>2, <1>4, <1>5, <1>7, <2>1 DEF GoodCall, CallOk, Evolves
  <2> QED
    BY <2>2, <2>3, <2>4 DEF GoodCall
<1>10. \A p \in rpcs' : GoodCall(p, clock', Up')
  BY <1>3, <1>7, <1>9 DEF Replace
<1> QED
  BY <1>1, <1>4, <1>5, <1>6, <1>10, EvolvesInv DEF Inv, Base

\* The target answers the ping of a helper.
LEMMA HandleRelayedPingInv ==
  ASSUME Inv, NEW r \in rpcs, HandleRelayedPing(r)
  PROVE  Inv' /\ Evolves(r.target)
<1>1. /\ GoodCall(r, clock, Up) /\ r.target \in Node
      /\ IsMap(r.via.changes, ChangeRecord(Node)) /\ ToldUpTo(r.via.changes, clock)
  BY DEF Inv, CallsInv, GoodCall, IsCall, IsRequest, CallUpTo
<1>2. r.target \in Up
  BY <1>1 DEF HandleRelayedPing, handlePing, pingResponse, Up
<1>3. PICK now, u, back, q :
        /\ now \in Now(nodes[r.target], r.target, r.via.changes)
        /\ u = Update(nodes[r.target], r.target, r.via.changes, now)
        /\ Becomes(r.target, IssueAsReceiver(u, r.dst, r.via), now)
        /\ back = IssuedAsReceiver(u, r.target, r.dst, r.via)
        /\ q = [r EXCEPT !.stage = "relayed", !.back = back]
        /\ rpcs' = Replace(r, {q})
  BY DEF HandleRelayedPing, handlePing, pingResponse
<1>4. state' = state /\ pinger' = pinger /\ losses' = losses /\ r.stage = "relay"
  BY DEF HandleRelayedPing, handlePing, pingResponse
<1>5. /\ Evolves(r.target)
      /\ IsMap(back, ChangeRecord(Node)) /\ ToldUpTo(back, clock')
  BY <1>1, <1>2, <1>3, <1>4, AnswerEvolves DEF Inv, NodesInv
<1>6. PingersInv'
  BY <1>1, <1>4, <1>5, EvolvesPingers DEF Inv, PingersInv
<1>7. \A p \in rpcs : GoodCall(p, clock', Up')
  BY <1>1, <1>5, EvolvesCalls
<1>8. GoodCall(q, clock', Up')
  <2>1. /\ q.kind = r.kind /\ q.src = r.src /\ q.dst = r.dst /\ q.target = r.target
        /\ q.stage = "relayed" /\ q.waiter = r.waiter /\ q.out = r.out
        /\ q.via = r.via /\ q.ok = r.ok /\ q.back = back
        /\ q = [kind |-> q.kind, src |-> q.src, dst |-> q.dst, target |-> q.target,
                stage |-> q.stage, waiter |-> q.waiter, out |-> q.out, via |-> q.via,
                ok |-> q.ok, back |-> q.back]
    BY <1>1, <1>3 DEF GoodCall, IsCall
  <2>2. IsCall(q)
    BY <1>1, <1>5, <2>1 DEF GoodCall, IsCall
  <2>3. CallUpTo(q, clock')
    BY <1>5, <1>7, <2>1 DEF GoodCall, CallUpTo
  <2>4. CallOk(q, Up')
    BY <1>4, <1>7, <2>1 DEF GoodCall, CallOk
  <2> QED
    BY <2>2, <2>3, <2>4 DEF GoodCall
<1>9. \A p \in rpcs' : GoodCall(p, clock', Up')
  BY <1>3, <1>7, <1>8 DEF Replace
<1> QED
  BY <1>1, <1>4, <1>5, <1>6, <1>9, EvolvesInv DEF Inv, Base

\* A helper has reached the target and answers the ping-req.
LEMMA RelayOkInv ==
  ASSUME Inv, NEW r \in rpcs, RelayOk(r)
  PROVE  Inv' /\ Evolves(r.dst)
<1>1. /\ GoodCall(r, clock, Up) /\ r.dst \in Node
      /\ IsMap(r.back, ChangeRecord(Node)) /\ ToldUpTo(r.back, clock)
  BY DEF Inv, CallsInv, GoodCall, IsCall, CallUpTo
<1>2. r.dst \in Up
  BY <1>1 DEF RelayOk, GoodCall, CallOk
<1>3. PICK now, s, u, back :
        /\ now \in Now(nodes[r.dst], r.dst, r.back)
        /\ s = bumpPiggybackCounters(nodes[r.dst], DOMAIN r.via.changes)
        /\ u = Update(s, r.dst, r.back, now)
        /\ Becomes(r.dst, IssueAsReceiver(u, r.src, r.out), now)
        /\ back = IssuedAsReceiver(u, r.dst, r.src, r.out)
        /\ rpcs' = Replace(r, Answered(r, TRUE, back))
  BY DEF RelayOk
<1>4. state' = state /\ pinger' = pinger /\ losses' = losses
  BY DEF RelayOk
<1>5. Healthy(r.dst, s, clock) /\ s.members = nodes[r.dst].members
  BY <1>1, <1>3, BumpHealthy DEF Inv, NodesInv
<1>6. Evolves(r.dst) /\ IsMap(back, ChangeRecord(Node)) /\ ToldUpTo(back, clock')
  BY <1>1, <1>2, <1>3, <1>4, <1>5, AnswerEvolves
<1>7. PingersInv'
  BY <1>1, <1>4, <1>6, EvolvesPingers DEF Inv, PingersInv
<1>8. \A p \in rpcs : GoodCall(p, clock', Up')
  BY <1>1, <1>6, EvolvesCalls
<1>9. \A q \in Answered(r, TRUE, back) : GoodCall(q, clock', Up')
  BY <1>6, <1>8, AnsweredGood
<1>10. \A q \in rpcs' : GoodCall(q, clock', Up')
  BY <1>3, <1>8, <1>9 DEF Replace
<1> QED
  BY <1>1, <1>4, <1>6, <1>7, <1>10, EvolvesInv DEF Inv, Base

\* A helper has not reached the target and answers the ping-req.
LEMMA RelayFailedInv ==
  ASSUME Inv, NEW r \in rpcs, RelayFailed(r)
  PROVE  Inv' /\ Evolves(r.dst)
<1>1. GoodCall(r, clock, Up) /\ r.dst \in Node
  BY DEF Inv, CallsInv, GoodCall, IsCall
<1>2. r.dst \in Up
  BY <1>1 DEF RelayFailed, GoodCall, CallOk
<1>3. PICK t, back :
        /\ t = IssueAsReceiver(nodes[r.dst], r.src, r.out)
        /\ Becomes(r.dst, t, clock[r.dst])
        /\ back = IssuedAsReceiver(nodes[r.dst], r.dst, r.src, r.out)
        /\ rpcs' = Replace(r, Answered(r, FALSE, back) \cup AbandonedRelay(r))
  BY DEF RelayFailed
<1>4. state' = state /\ pinger' = pinger /\ losses' \in 0 .. MaxLosses
  BY FailsType DEF RelayFailed
<1>5. Healthy(r.dst, nodes[r.dst], clock)
  BY <1>1 DEF Inv, NodesInv
<1>6. Healthy(r.dst, t, clock) /\ t.members = nodes[r.dst].members
  BY <1>3, <1>5, ResponseHealthy
<1>7. IsMap(back, ChangeRecord(Node)) /\ ToldUpTo(back, clock)
  BY <1>1, <1>3, <1>5, ResponseFacts
<1>8. Evolves(r.dst) /\ clock' = clock
  BY <1>2, <1>3, <1>4, <1>6, BumpEvolves
<1>9. PingersInv'
  BY <1>1, <1>4, <1>8, EvolvesPingers DEF Inv, PingersInv
<1>10. \A p \in rpcs : GoodCall(p, clock', Up')
  BY <1>1, <1>8, EvolvesCalls
<1>11. \A q \in Answered(r, FALSE, back) : GoodCall(q, clock', Up')
  BY <1>7, <1>8, <1>10, AnsweredGood
<1>12. \A q \in AbandonedRelay(r) : GoodCall(q, clock', Up')
  BY <1>10, AbandonedRelayGood
<1>13. \A q \in rpcs' : GoodCall(q, clock', Up')
  BY <1>3, <1>10, <1>11, <1>12 DEF Replace
<1> QED
  BY <1>1, <1>4, <1>8, <1>9, <1>13, EvolvesInv

\* A ping-req is answered.
LEMMA PingRequestOkInv ==
  ASSUME Inv, NEW r \in rpcs, PingRequestOk(r)
  PROVE  Inv' /\ Evolves(r.src)
<1>1. /\ GoodCall(r, clock, Up) /\ r.src \in Node
      /\ IsMap(r.back, ChangeRecord(Node)) /\ ToldUpTo(r.back, clock)
      /\ Healthy(r.src, nodes[r.src], clock)
  BY DEF Inv, CallsInv, NodesInv, GoodCall, IsCall, CallUpTo
<1>2. r.src \in Up
  BY <1>1 DEF PingRequestOk, GoodCall, CallOk
<1>3. PICK now, u :
        /\ now \in Now(nodes[r.src], r.src, r.back)
        /\ u = Update(nodes[r.src], r.src, r.back, now) /\ Becomes(r.src, u, now)
  BY DEF PingRequestOk
<1>4. /\ state' = state /\ losses' = losses
      /\ pinger' = pinger \/ pinger' = [pinger EXCEPT ![r.src] = Idle]
      /\ \A q \in rpcs' : \E p \in rpcs :
           q = p \/ (p.waiter = "collecting" /\ q = [p EXCEPT !.waiter = "detached"])
  BY DEF PingRequestOk
<1>5. Evolves(r.src)
  BY <1>1, <1>2, <1>3, <1>4, UpdateEvolves
<1>6. PingersInv'
  <2>1. pinger' = [m \in Node |-> pinger'[m]]
        /\ \A m \in Node : pinger'[m] = pinger[m] \/ pinger'[m] = Idle
    BY <1>4 DEF Inv, PingersInv
  <2>2. IsPinger(Idle) /\ Idle.phase = "idle"
    BY DEF IsPinger, Idle
  <2> QED
    BY <1>1, <1>5, <2>1, <2>2, EvolvesPingers DEF Inv, PingersInv
<1>7. \A p \in rpcs : GoodCall(p, clock', Up')
  BY <1>1, <1>5, EvolvesCalls
<1>8. ASSUME NEW p \in rpcs, p.waiter = "collecting", NEW q,
             q = [p EXCEPT !.waiter = "detached"]
      PROVE  GoodCall(q, clock', Up')
  <2>1. GoodCall(p, clock', Up')
    BY <1>7
  <2>2. /\ q.kind = p.kind /\ q.src = p.src /\ q.dst = p.dst /\ q.target = p.target
        /\ q.stage = p.stage /\ q.waiter = "detached" /\ q.out = p.out
        /\ q.via = p.via /\ q.ok = p.ok /\ q.back = p.back
        /\ q = [kind |-> q.kind, src |-> q.src, dst |-> q.dst, target |-> q.target,
                stage |-> q.stage, waiter |-> q.waiter, out |-> q.out, via |-> q.via,
                ok |-> q.ok, back |-> q.back]
    BY <1>8, <2>1 DEF GoodCall, IsCall
  <2>3. IsCall(q)
    BY <2>1, <2>2 DEF GoodCall, IsCall
  <2>4. CallUpTo(q, clock') /\ CallOk(q, Up')
    BY <1>8, <2>1, <2>2 DEF GoodCall, CallUpTo, CallOk
  <2> QED
    BY <2>3, <2>4 DEF GoodCall
<1>9. \A q \in rpcs' : GoodCall(q, clock', Up')
  BY <1>4, <1>7, <1>8
<1> QED
  BY <1>1, <1>4, <1>5, <1>6, <1>9, EvolvesInv DEF Inv, Base

\* A ping-req fails.
LEMMA PingRequestFailedInv ==
  ASSUME Inv, NEW r \in rpcs, PingRequestFailed(r)
  PROVE  Inv' /\ Evolves(r.src)
<1>1. GoodCall(r, clock, Up) /\ r.src \in Node /\ Healthy(r.src, nodes[r.src], clock)
  BY DEF Inv, CallsInv, NodesInv, GoodCall, IsCall
<1>2. r.src \in Up
  BY <1>1 DEF PingRequestFailed, GoodCall, CallOk
<1>3. PICK t : /\ t = bumpPiggybackCounters(nodes[r.src], DOMAIN r.out.changes)
               /\ Becomes(r.src, t, clock[r.src])
  BY DEF PingRequestFailed
<1>4. /\ state' = state /\ losses' \in 0 .. MaxLosses /\ rpcs' = Replace(r, Abandoned(r))
      /\ pinger' = pinger \/ pinger' = [pinger EXCEPT ![r.src].errs = @ + 1]
  BY FailsType DEF PingRequestFailed
<1>5. Healthy(r.src, t, clock) /\ t.members = nodes[r.src].members
  BY <1>1, <1>3, BumpHealthy
<1>6. Evolves(r.src) /\ clock' = clock
  BY <1>2, <1>3, <1>4, <1>5, BumpEvolves
<1>7. PingersInv'
  <2>1. pinger' = [m \in Node |-> pinger'[m]]
        /\ \A m \in Node : \/ pinger'[m] = pinger[m]
                           \/ pinger'[m] = [pinger[m] EXCEPT !.errs = @ + 1]
    BY <1>4 DEF Inv, PingersInv
  <2>2. \A m \in Node : /\ IsPinger(pinger'[m])
                        /\ pinger'[m].phase = pinger[m].phase
                        /\ pinger'[m].target = pinger[m].target
    BY <2>1 DEF Inv, PingersInv, IsPinger
  <2> QED
    BY <1>1, <1>6, <2>1, <2>2, EvolvesPingers
<1>8. \A p \in rpcs : GoodCall(p, clock', Up')
  BY <1>1, <1>6, EvolvesCalls
<1>9. \A q \in Abandoned(r) : GoodCall(q, clock', Up')
  BY <1>8, AbandonedGood DEF GoodCall, CallOk
<1>10. \A q \in rpcs' : GoodCall(q, clock', Up')
  BY <1>4, <1>8, <1>9 DEF Replace
<1> QED
  BY <1>1, <1>4, <1>6, <1>7, <1>10, EvolvesInv
=============================================================================
