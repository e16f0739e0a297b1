---- MODULE SessionProofs ----
(***************************************************************************)
(* What is proved of Journal and Session for every value of the bounds, any *)
(* number of entries and any file a crash may leave.                       *)
(*                                                                         *)
(* The journal's invariant, JournalOK, says that the committed and the     *)
(* staged entries are one tree under ids never used before, and where the  *)
(* next entry hangs; the operations of Journal keep it, and what is read   *)
(* back along a path (a recursive function) is reasoned about as a table.  *)
(* SessionInv adds the agent's invariant (AgentLoopProofs) and the types    *)
(* of the host.  On these rest DueInv (what is due along a path) and        *)
(* ModeInv (the mode at the leaf).                                          *)
(***************************************************************************)
EXTENDS Session, AgentLoopProofs, SequenceTheorems, WellFoundedInduction, TLAPS

-----------------------------------------------------------------------------
(* Numbers, tables, and the paths of a log *)

\* A set of natural numbers that is not empty has a least element.
LEMMA LeastExists ==
  ASSUME NEW S, S \subseteq Nat, S # {}
  PROVE  \E m \in S : \A n \in S : m <= n
<1>. DEFINE R == {ss \in Nat \X Nat : ss[1] < ss[2]}
<1>1. IsWellFoundedOn(R, Nat)
  BY NatLessThanWellFounded DEF OpToRel
<1>. HIDE DEF R
<1>2. PICK m \in S : \A n \in S : <<n, m>> \notin R
  BY <1>1, WFMin
<1>3. \A n \in S : ~(n < m)
  BY <1>2 DEF R
<1>. QED
  BY <1>3

\* One that has a bound has a greatest element.
LEMMA GreatestExists ==
  ASSUME NEW n \in Nat, NEW S, S \subseteq 0..n, S # {}
  PROVE  \E m \in S : \A k \in S : k <= m
<1>. DEFINE D == {n - k : k \in S}
<1>1. D \subseteq Nat /\ D # {}
  <2>1. \A k \in S : k \in 0..n /\ n - k \in Nat
    OBVIOUS
  <2>2. PICK k \in S : TRUE
    OBVIOUS
  <2>3. n - k \in D
    OBVIOUS
  <2>. QED
    BY <2>1, <2>3
<1>2. PICK d \in D : \A x \in D : d <= x
  <2>. HIDE DEF D
  <2>. QED
    BY <1>1, LeastExists
<1>3. PICK m \in S : d = n - m
  OBVIOUS
<1>4. ASSUME NEW k \in S PROVE k <= m
  <2>1. n - k \in D
    OBVIOUS
  <2>2. d <= n - k
    BY <1>2, <2>1
  <2>. QED
    BY <1>3, <2>2
<1>. QED
  BY <1>4

\* Induction over the numbers up to n, for a set given by its members.
LEMMA UpToInduction ==
  ASSUME NEW n \in Nat, NEW G, 0 \in G,
         \A k \in 1..n : (\A m \in 0..(k - 1) : m \in G) => k \in G
  PROVE  \A k \in 0..n : k \in G
<1>. DEFINE Bad == {k \in 0..n : k \notin G}
<1>. SUFFICES ASSUME Bad # {} PROVE FALSE
  OBVIOUS
<1>1. PICK k \in Bad : \A m \in Bad : k <= m
  <2>1. Bad \subseteq Nat
    OBVIOUS
  <2>. HIDE DEF Bad
  <2>. QED
    BY <2>1, LeastExists
<1>2. k \in 1..n /\ k \notin G
  OBVIOUS
<1>3. \A m \in 0..(k - 1) : m \in G
  BY <1>1, <1>2
<1>. QED
  BY <1>2, <1>3

\* f is the table over 0..n in S that starts with base and makes each entry with g
\* from an earlier one.
IsTable(f, n, S, base, prev, g) ==
  /\ f \in [0..n -> S] /\ f[0] = base
  /\ \A p \in 1..n : f[p] = g[p][f[prev[p]]]

\* A table filled in from 0 to n, each entry from an earlier one.
LEMMA TableExists ==
  ASSUME NEW n \in Nat, NEW S, NEW base \in S, NEW prev \in [1..n -> Nat],
         \A p \in 1..n : prev[p] < p,
         NEW g \in [1..n -> [S -> S]]
  PROVE  \E f : IsTable(f, n, S, base, prev, g)
<1>. DEFINE Filled(k, f) == /\ f \in [0..k -> S] /\ f[0] = base
                            /\ \A p \in 1..k : f[p] = g[p][f[prev[p]]]
            G == {k \in 0..n : \E f : Filled(k, f)}
<1>1. 0 \in G
  <2>. DEFINE f0 == [p \in 0..0 |-> base]
  <2>1. Filled(0, f0)
    OBVIOUS
  <2>2. \E f : Filled(0, f)
    BY <2>1, Zenon
  <2>. QED
    BY <2>2
<1>2. ASSUME NEW k \in 1..n, \A m \in 0..(k - 1) : m \in G PROVE k \in G
  <2>1. k - 1 \in G
    <3>. HIDE DEF G
    <3>1. k - 1 \in 0..(k - 1)
      OBVIOUS
    <3>. QED
      BY <1>2, <3>1
  <2>2. PICK f : Filled(k - 1, f)
    <3>1. \E f : Filled(k - 1, f)
      BY <2>1, Zenon
    <3>. QED
      BY <3>1, Zenon
  <2>. DEFINE h == [p \in 0..k |-> IF p = k THEN g[k][f[prev[k]]] ELSE f[p]]
  <2>3. prev[k] \in 0..(k - 1)
    BY <1>2
  <2>4. g[k][f[prev[k]]] \in S
    BY <2>2, <2>3
  <2>5. h \in [0..k -> S]
    BY <2>2, <2>4
  <2>6. h[0] = base
    BY <2>2
  <2>7. ASSUME NEW p \in 1..k PROVE h[p] = g[p][h[prev[p]]]
    <3>1. p \in 1..n /\ prev[p] \in Nat /\ prev[p] < p
      OBVIOUS
    <3>2. prev[p] \in 0..k /\ prev[p] # k
      BY <3>1
    <3>3. h[prev[p]] = f[prev[p]]
      BY <3>2
    <3>4. CASE p = k
      BY <3>3, <3>4
    <3>5. CASE p # k
      <4>1. p \in 1..(k - 1)
        BY <3>5
      <4>2. h[p] = f[p]
        BY <3>5
      <4>. QED
        BY <4>1, <4>2, <2>2, <3>3
    <3>. QED
      BY <3>4, <3>5
  <2>8. Filled(k, h)
    BY <2>5, <2>6, <2>7, Zenon
  <2>9. \E f2 : Filled(k, f2)
    BY <2>8, Zenon
  <2>10. k \in 0..n
    OBVIOUS
  <2>. QED
    BY <2>9, <2>10, Zenon
<1>3. n \in G
  <2>. HIDE DEF G
  <2>1. \A k \in 0..n : k \in G
    BY <1>1, <1>2, UpToInduction, Zenon
  <2>. QED
    BY <2>1
<1>. QED
  <2>1. PICK f : Filled(n, f)
    BY <1>3
  <2>. QED
    BY <2>1, Zenon DEF IsTable

\* Every entry hangs from one of S or from an earlier one, under an id of its own.
GrowsOn(es, S) ==
  /\ \A p \in 1..Len(es) :
       es[p].parent \in S \/ \E q \in 1..(p - 1) : es[q].id = es[p].parent
  /\ \A p \in 1..Len(es) : es[p].id \notin S
  /\ \A p, q \in 1..Len(es) : es[p].id = es[q].id => p = q

\* An entry is found at its own position, and its parent before it.
LEMMA PositionFacts ==
  ASSUME NEW es \in Seq(Entries), GrowsOn(es, {0})
  PROVE  /\ \A p \in 1..Len(es) : Position(es, es[p].id) = p
         /\ Position(es, 0) = 0
         /\ \A p \in 1..Len(es) : Position(es, es[p].parent) \in 0..(p - 1)
<1>0. ASSUME NEW p \in 1..Len(es) PROVE es[p].id \in Nat \ {0} /\ es[p].parent \in Nat
  <2>1. es[p] \in Entries
    OBVIOUS
  <2>. QED
    BY <2>1 DEF Entries
<1>1. ASSUME NEW p \in 1..Len(es) PROVE Position(es, es[p].id) = p
  BY DEF Position, GrowsOn
<1>2. Position(es, 0) = 0
  BY <1>0 DEF Position
<1>3. ASSUME NEW p \in 1..Len(es) PROVE Position(es, es[p].parent) \in 0..(p - 1)
  <2>1. CASE es[p].parent = 0
    BY <1>2, <2>1
  <2>2. CASE es[p].parent # 0
    <3>1. PICK q \in 1..(p - 1) : es[q].id = es[p].parent
      BY <2>2 DEF GrowsOn
    <3>2. q \in 1..Len(es)
      OBVIOUS
    <3>3. Position(es, es[q].id) = q
      BY <3>2, <1>1
    <3>. QED
      BY <3>1, <3>3
  <2>. QED
    BY <2>1, <2>2
<1>. QED
  BY <1>1, <1>2, <1>3

\* The entries of a log, as a set.
Members(es) == {es[p] : p \in 1..Len(es)}

\* What is known of paths.
LEMMA Paths ==
  ASSUME NEW es \in Seq(Entries), GrowsOn(es, {0})
  PROVE  /\ PathFrom(es, 0) = <<>>
         /\ \A id : PathFrom(es, id) \in Seq(Members(es))
         /\ \A p \in 1..Len(es) :
              PathFrom(es, es[p].id) = Append(PathFrom(es, es[p].parent), es[p])
<1>. DEFINE n == Len(es)
            S == Seq(Members(es))
            prev == [p \in 1..n |-> Position(es, es[p].parent)]
            g == [p \in 1..n |-> [s \in S |-> Append(s, es[p])]]
            Step(f) == [p \in 0..n |-> IF p = 0 THEN <<>>
                          ELSE Append(f[Position(es, es[p].parent)], es[p])]
            path == CHOOSE f : f = Step(f)
<1>1. n \in Nat /\ <<>> \in S
  OBVIOUS
<1>2. prev \in [1..n -> Nat] /\ \A p \in 1..n : prev[p] < p
  BY PositionFacts
<1>3. g \in [1..n -> [S -> S]]
  <2>1. \A p \in 1..n : es[p] \in Members(es)
    BY DEF Members
  <2>. QED
    BY <2>1
<1>4. PICK f : f \in [0..n -> S] /\ f[0] = <<>>
                 /\ \A p \in 1..n : f[p] = g[p][f[prev[p]]]
  <2>. HIDE DEF n, S, prev, g, path
  <2>1. \A p \in 1..n : prev[p] < p
    BY <1>2
  <2>2. prev \in [1..n -> Nat]
    BY <1>2
  <2>3. \E f : IsTable(f, n, S, <<>>, prev, g)
    BY <1>1, <1>3, <2>1, <2>2, TableExists, Zenon
  <2>. QED
    BY <2>3, Zenon DEF IsTable
<1>5. f = Step(f)
  <2>1. ASSUME NEW p \in 1..n PROVE f[p] = Append(f[Position(es, es[p].parent)], es[p])
    <3>1. Position(es, es[p].parent) \in 0..n
      BY PositionFacts
    <3>2. f[Position(es, es[p].parent)] \in S
      BY <1>4, <3>1
    <3>. QED
      BY <1>4, <3>2
  <2>2. \A p \in 0..n : p = 0 \/ p \in 1..n
    OBVIOUS
  <2>. QED
    BY <1>4, <2>1, <2>2
<1>6. path = Step(path)
  BY <1>5, Zenon
<1>7. \A id : PathFrom(es, id) = path[Position(es, id)]
  BY Zenon DEF PathFrom
<1>. HIDE DEF path
<1>8. path[0] = <<>>
  <2>1. 0 \in 0..n
    BY <1>1
  <2>. QED
    BY <1>6, <2>1, Zenon
<1>9. ASSUME NEW p \in 1..n
      PROVE  path[p] = Append(path[Position(es, es[p].parent)], es[p])
  <2>1. p \in 0..n /\ p # 0
    BY <1>1
  <2>. QED
    BY <1>6, <2>1, Zenon
<1>10. \A k \in 0..n : path[k] \in S
  <2>. DEFINE G == {k \in 0..n : path[k] \in S}
  <2>1. 0 \in G
    <3>1. 0 \in 0..n
      BY <1>1
    <3>. QED
      BY <1>1, <1>8, <3>1, Zenon
  <2>2. ASSUME NEW k \in 1..n, \A m \in 0..(k - 1) : m \in G PROVE k \in G
    <3>1. path[Position(es, es[k].parent)] \in S
      BY <2>2, PositionFacts
    <3>2. es[k] \in Members(es)
      BY DEF Members
    <3>3. path[k] \in S
      <4>. HIDE DEF G
      <4>1. Append(path[Position(es, es[k].parent)], es[k]) \in S
        BY <3>1, <3>2
      <4>. QED
        BY <1>9, <4>1, Zenon
    <3>4. k \in 0..n
      OBVIOUS
    <3>. QED
      BY <3>3, <3>4, Zenon
  <2>3. \A k \in 0..n : k \in G
    <3>. HIDE DEF G
    <3>. QED
      BY <1>1, <2>1, <2>2, UpToInduction, Zenon
  <2>. QED
    BY <2>3
<1>11. \A id : Position(es, id) \in 0..n
  BY DEF Position
<1>12. \A p \in 1..n : Position(es, es[p].id) = p
  BY PositionFacts
<1>13. Position(es, 0) = 0
  BY PositionFacts
<1>14. PathFrom(es, 0) = <<>>
  BY <1>7, <1>8, <1>13
<1>15. \A id : PathFrom(es, id) \in Seq(Members(es))
  BY <1>7, <1>10, <1>11
<1>16. \A p \in 1..n :
         PathFrom(es, es[p].id) = Append(PathFrom(es, es[p].parent), es[p])
  BY <1>7, <1>9, <1>12, Zenon
<1>. QED
  BY <1>14, <1>15, <1>16, Zenon

-----------------------------------------------------------------------------
(* Growing a tree of entries *)

\* The ids of the entries of a log.
IdsOf(es) == {es[p].id : p \in 1..Len(es)}

\* The fields of an entry of a log.
LEMMA EntryFields ==
  ASSUME NEW es \in Seq(Entries), NEW p \in 1..Len(es)
  PROVE  /\ es[p] \in Entries /\ es[p].id \in Nat \ {0} /\ es[p].parent \in Nat
         /\ es[p].role \in EntryRoles /\ es[p].n \in Nat /\ es[p].id \in IdsOf(es)
<1>1. es[p] \in Entries
  OBVIOUS
<1>. QED
  BY <1>1 DEF Entries, IdsOf

\* A log may hang from more entries than it does.
LEMMA GrowsMore ==
  ASSUME NEW b \in Seq(Entries), NEW S, NEW T, GrowsOn(b, S), S \subseteq T,
         T \cap IdsOf(b) = {}
  PROVE  GrowsOn(b, T)
BY DEF GrowsOn, IdsOf

\* The entries of two logs, one after the other.
LEMMA IdsOfConcat ==
  ASSUME NEW a \in Seq(Entries), NEW b \in Seq(Entries)
  PROVE  /\ a \o b \in Seq(Entries) /\ Len(a \o b) = Len(a) + Len(b)
         /\ IdsOf(a \o b) = IdsOf(a) \cup IdsOf(b)
         /\ \A p \in 1..Len(a) : (a \o b)[p] = a[p]
         /\ \A p \in 1..Len(b) : (a \o b)[Len(a) + p] = b[p]
<1>1. /\ a \o b \in Seq(Entries) /\ Len(a \o b) = Len(a) + Len(b)
      /\ \A p \in 1..Len(a) : (a \o b)[p] = a[p]
      /\ \A p \in 1..Len(b) : (a \o b)[Len(a) + p] = b[p]
  OBVIOUS
<1>2. ASSUME NEW id \in IdsOf(a \o b) PROVE id \in IdsOf(a) \cup IdsOf(b)
  <2>1. PICK p \in 1..Len(a \o b) : id = (a \o b)[p].id
    BY DEF IdsOf
  <2>2. CASE p \in 1..Len(a)
    BY <1>1, <2>1, <2>2 DEF IdsOf
  <2>3. CASE p \notin 1..Len(a)
    <3>1. p - Len(a) \in 1..Len(b)
      BY <1>1, <2>3
    <3>2. (a \o b)[p] = b[p - Len(a)]
      BY <1>1, <3>1
    <3>. QED
      BY <2>1, <3>1, <3>2 DEF IdsOf
  <2>. QED
    BY <2>2, <2>3
<1>3. ASSUME NEW id \in IdsOf(a) \cup IdsOf(b) PROVE id \in IdsOf(a \o b)
  <2>1. CASE id \in IdsOf(a)
    <3>1. PICK p \in 1..Len(a) : id = a[p].id
      BY <2>1 DEF IdsOf
    <3>2. p \in 1..Len(a \o b) /\ (a \o b)[p] = a[p]
      BY <1>1
    <3>. QED
      BY <3>1, <3>2 DEF IdsOf
  <2>2. CASE id \in IdsOf(b)
    <3>1. PICK p \in 1..Len(b) : id = b[p].id
      BY <2>2 DEF IdsOf
    <3>2. Len(a) + p \in 1..Len(a \o b) /\ (a \o b)[Len(a) + p] = b[p]
      BY <1>1
    <3>. QED
      BY <3>1, <3>2 DEF IdsOf
  <2>. QED
    BY <2>1, <2>2
<1>. QED
  BY <1>1, <1>2, <1>3

\* ... and what they hang from.
LEMMA GrowsByConcat ==
  ASSUME NEW a \in Seq(Entries), NEW b \in Seq(Entries), NEW S,
         GrowsOn(a, S), GrowsOn(b, S \cup IdsOf(a))
  PROVE  GrowsOn(a \o b, S)
<1>. DEFINE c == a \o b
<1>1. /\ c \in Seq(Entries) /\ Len(c) = Len(a) + Len(b)
      /\ \A p \in 1..Len(a) : c[p] = a[p]
      /\ \A p \in 1..Len(b) : c[Len(a) + p] = b[p]
  BY IdsOfConcat
<1>. HIDE DEF c
<1>2. \A p \in 1..Len(c) : p \in 1..Len(a) \/ \E q \in 1..Len(b) : p = Len(a) + q
  <2>1. \A p \in 1..Len(c) : p \in 1..Len(a) \/ p - Len(a) \in 1..Len(b)
    BY <1>1
  <2>2. \A p \in 1..Len(c) : p = Len(a) + (p - Len(a))
    BY <1>1
  <2>. QED
    BY <2>1, <2>2, Zenon
<1>3. ASSUME NEW p \in 1..Len(c)
      PROVE  c[p].parent \in S \/ \E q \in 1..(p - 1) : c[q].id = c[p].parent
  <2>1. CASE p \in 1..Len(a)
    <3>1. c[p] = a[p]
      BY <1>1, <2>1
    <3>2. a[p].parent \in S \/ \E q \in 1..(p - 1) : a[q].id = a[p].parent
      BY <2>1 DEF GrowsOn
    <3>3. \A q \in 1..(p - 1) : c[q] = a[q]
      BY <1>1, <2>1
    <3>. QED
      BY <3>1, <3>2, <3>3
  <2>2. ASSUME NEW k \in 1..Len(b), p = Len(a) + k
        PROVE  c[p].parent \in S \/ \E q \in 1..(p - 1) : c[q].id = c[p].parent
    <3>1. c[p] = b[k]
      BY <1>1, <2>2
    <3>2. \/ b[k].parent \in S \/ b[k].parent \in IdsOf(a)
          \/ \E q \in 1..(k - 1) : b[q].id = b[k].parent
      BY DEF GrowsOn
    <3>3. CASE b[k].parent \in IdsOf(a)
      <4>1. PICK q \in 1..Len(a) : a[q].id = b[k].parent
        BY <3>3 DEF IdsOf
      <4>2. q \in 1..(p - 1) /\ c[q] = a[q]
        BY <1>1, <2>2
      <4>. QED
        BY <3>1, <4>1, <4>2
    <3>4. CASE \E q \in 1..(k - 1) : b[q].id = b[k].parent
      <4>1. PICK q \in 1..(k - 1) : b[q].id = b[k].parent
        BY <3>4
      <4>2. Len(a) + q \in 1..(p - 1) /\ c[Len(a) + q] = b[q]
        BY <1>1, <2>2
      <4>. QED
        BY <3>1, <4>1, <4>2
    <3>. QED
      BY <3>1, <3>2, <3>3, <3>4
  <2>. QED
    BY <1>2, <2>1, <2>2
<1>4. ASSUME NEW p \in 1..Len(c) PROVE c[p].id \notin S
  <2>1. CASE p \in 1..Len(a)
    BY <1>1, <2>1 DEF GrowsOn
  <2>2. ASSUME NEW k \in 1..Len(b), p = Len(a) + k PROVE c[p].id \notin S
    BY <1>1, <2>2 DEF GrowsOn
  <2>. QED
    BY <1>2, <2>1, <2>2
<1>5. ASSUME NEW p \in 1..Len(c), NEW q \in 1..Len(c), c[p].id = c[q].id PROVE p = q
  <2>1. \A i \in 1..Len(a) : \A k \in 1..Len(b) : a[i].id # b[k].id
    BY DEF GrowsOn, IdsOf
  <2>2. CASE p \in 1..Len(a) /\ q \in 1..Len(a)
    BY <1>1, <1>5, <2>2 DEF GrowsOn
  <2>3. ASSUME p \in 1..Len(a), NEW k \in 1..Len(b), q = Len(a) + k PROVE FALSE
    BY <1>1, <1>5, <2>1, <2>3
  <2>4. ASSUME q \in 1..Len(a), NEW k \in 1..Len(b), p = Len(a) + k PROVE FALSE
    BY <1>1, <1>5, <2>1, <2>4
  <2>5. ASSUME NEW k \in 1..Len(b), p = Len(a) + k, NEW m \in 1..Len(b), q = Len(a) + m
        PROVE  p = q
    <3>1. b[k].id = b[m].id
      BY <1>1, <1>5, <2>5
    <3>2. k = m
      BY <3>1 DEF GrowsOn
    <3>. QED
      BY <2>5, <3>2
  <2>. QED
    BY <1>2, <2>2, <2>3, <2>4, <2>5, Zenon
<1>. QED
  BY <1>3, <1>4, <1>5, Zenon DEF GrowsOn, c

\* A log of one entry.
LEMMA GrowsByOne ==
  ASSUME NEW e \in Entries, NEW S, e.parent \in S, e.id \notin S
  PROVE  /\ <<e>> \in Seq(Entries) /\ GrowsOn(<<e>>, S) /\ IdsOf(<<e>>) = {e.id}
<1>1. <<e>> \in Seq(Entries) /\ Len(<<e>>) = 1 /\ <<e>>[1] = e
  OBVIOUS
<1>2. 1..1 = {1}
  OBVIOUS
<1>. QED
  BY <1>1, <1>2 DEF GrowsOn, IdsOf

\* What a file holds of a log grows like the log.
LEMMA GrowsPrefix ==
  ASSUME NEW es \in Seq(Entries), NEW S, GrowsOn(es, S), NEW k \in 0..Len(es)
  PROVE  /\ SubSeq(es, 1, k) \in Seq(Entries) /\ Len(SubSeq(es, 1, k)) = k
         /\ GrowsOn(SubSeq(es, 1, k), S)
<1>1. /\ SubSeq(es, 1, k) \in Seq(Entries) /\ Len(SubSeq(es, 1, k)) = k
      /\ \A p \in 1..k : SubSeq(es, 1, k)[p] = es[p]
  OBVIOUS
<1>. DEFINE f == SubSeq(es, 1, k)
<1>. HIDE DEF f
<1>2. \A p \in 1..k : p \in 1..Len(es) /\ \A q \in 1..(p - 1) : q \in 1..k
  OBVIOUS
<1>. QED
  BY <1>1, <1>2 DEF GrowsOn

\* An empty log.
LEMMA GrowsNothing == \A S : GrowsOn(<<>>, S) /\ IdsOf(<<>>) = {}
BY DEF GrowsOn, IdsOf

\* Hanging the first entry from another one changes nothing else.
LEMMA RehungGrows ==
  ASSUME NEW es \in Seq(Entries), NEW S, GrowsOn(es, S), NEW x \in S \cap Nat
  PROVE  /\ Rehung(es, x) \in Seq(Entries) /\ Len(Rehung(es, x)) = Len(es)
         /\ GrowsOn(Rehung(es, x), S) /\ IdsOf(Rehung(es, x)) = IdsOf(es)
         /\ \A p \in 1..Len(es) :
              /\ Rehung(es, x)[p].id = es[p].id /\ Rehung(es, x)[p].role = es[p].role
              /\ Rehung(es, x)[p].parent = IF p = 1 THEN x ELSE es[p].parent
<1>. DEFINE r == Rehung(es, x)
<1>1. \A p \in 1..Len(es) : es[p] \in Entries
  OBVIOUS
<1>2. \A p \in 1..Len(es) : [es[p] EXCEPT !.parent = x] \in Entries
  BY <1>1 DEF Entries
<1>3. r \in [1..Len(es) -> Entries]
  BY <1>1, <1>2 DEF Rehung
<1>4. Len(es) \in Nat
  OBVIOUS
<1>5. r \in Seq(Entries) /\ Len(r) = Len(es)
  <2>. HIDE DEF r
  <2>. QED
    BY <1>3, <1>4, SeqDef
<1>6. ASSUME NEW p \in 1..Len(es)
      PROVE  /\ r[p].id = es[p].id /\ r[p].role = es[p].role
             /\ r[p].parent = IF p = 1 THEN x ELSE es[p].parent
  <2>1. r[p] = IF p = 1 THEN [es[p] EXCEPT !.parent = x] ELSE es[p]
    BY DEF Rehung
  <2>. HIDE DEF r
  <2>. QED
    BY <1>1, <2>1 DEF Entries
<1>. HIDE DEF r
<1>7. IdsOf(r) = IdsOf(es)
  BY <1>5, <1>6 DEF IdsOf
<1>8. GrowsOn(r, S)
  <2>1. ASSUME NEW p \in 1..Len(es)
        PROVE  r[p].parent \in S \/ \E q \in 1..(p - 1) : r[q].id = r[p].parent
    <3>1. CASE p = 1
      BY <1>6, <3>1
    <3>2. CASE p # 1
      <4>1. r[p].parent = es[p].parent
        BY <1>6, <3>2
      <4>2. \A q \in 1..(p - 1) : r[q].id = es[q].id
        BY <1>6
      <4>. QED
        BY <4>1, <4>2 DEF GrowsOn
    <3>. QED
      BY <3>1, <3>2
  <2>. QED
    BY <1>5, <1>6, <2>1 DEF GrowsOn
<1>. QED
  BY <1>5, <1>6, <1>7, <1>8, Zenon DEF r

\* A message that a journal can hold.
Kept == [role : MessageRoles, n : Nat]

\* The entries of a chain,
LEMMA ChainIs ==
  ASSUME NEW ms \in Seq(Kept), NEW parent \in Nat, NEW next \in Nat \ {0}
  PROVE  /\ Chain(ms, parent, next) \in Seq(Entries)
         /\ Len(Chain(ms, parent, next)) = Len(ms)
         /\ \A p \in 1..Len(ms) :
              /\ Chain(ms, parent, next)[p].id = next + p - 1
              /\ Chain(ms, parent, next)[p].parent
                   = IF p = 1 THEN parent ELSE next + p - 2
<1>. DEFINE c == Chain(ms, parent, next)
<1>1. Len(ms) \in Nat /\ \A p \in 1..Len(ms) : ms[p] \in Kept
  OBVIOUS
<1>2. ASSUME NEW p \in 1..Len(ms)
      PROVE  /\ c[p] \in Entries /\ c[p].id = next + p - 1
             /\ c[p].parent = IF p = 1 THEN parent ELSE next + p - 2
  <2>1. /\ ms[p].role \in EntryRoles /\ ms[p].n \in Nat
    BY <1>1 DEF Kept, EntryRoles
  <2>2. /\ next + p - 1 \in Nat \ {0}
        /\ (IF p = 1 THEN parent ELSE next + p - 2) \in Nat
    OBVIOUS
  <2>3. c[p] = [id |-> next + p - 1, parent |-> IF p = 1 THEN parent ELSE next + p - 2,
                role |-> ms[p].role, n |-> ms[p].n]
    BY DEF Chain
  <2>. HIDE DEF c
  <2>. QED
    BY <2>1, <2>2, <2>3 DEF Entries
<1>3. c \in [1..Len(ms) -> Entries]
  <2>1. c = [p \in 1..Len(ms) |-> c[p]]
    BY DEF Chain
  <2>. HIDE DEF c
  <2>. QED
    BY <1>2, <2>1
<1>. HIDE DEF c
<1>4. c \in Seq(Entries) /\ Len(c) = Len(ms)
  BY <1>1, <1>3, SeqDef
<1>. QED
  BY <1>2, <1>4, Zenon DEF c

\* ... what they hang from,
LEMMA ChainGrows ==
  ASSUME NEW ms \in Seq(Kept), NEW parent \in Nat, NEW next \in Nat \ {0}, NEW S,
         parent \in S, \A id \in S : id \in Nat /\ id < next
  PROVE  GrowsOn(Chain(ms, parent, next), S)
<1>. DEFINE c == Chain(ms, parent, next)
<1>1. /\ c \in Seq(Entries) /\ Len(c) = Len(ms)
      /\ \A p \in 1..Len(ms) :
           /\ c[p].id = next + p - 1
           /\ c[p].parent = IF p = 1 THEN parent ELSE next + p - 2
  <2>1. c \in Seq(Entries) /\ Len(c) = Len(ms)
    BY ChainIs
  <2>2. ASSUME NEW p \in 1..Len(ms)
        PROVE  /\ c[p].id = next + p - 1
               /\ c[p].parent = IF p = 1 THEN parent ELSE next + p - 2
    BY ChainIs
  <2>. QED
    BY <2>1, <2>2, Zenon
<1>. HIDE DEF c
<1>2. ASSUME NEW p \in 1..Len(ms)
      PROVE  c[p].parent \in S \/ \E q \in 1..(p - 1) : c[q].id = c[p].parent
  <2>1. CASE p = 1
    BY <1>1, <2>1
  <2>2. CASE p # 1
    <3>1. p - 1 \in 1..(p - 1) /\ p - 1 \in 1..Len(ms)
      BY <2>2
    <3>2. c[p - 1].id = next + (p - 1) - 1
      BY <1>1, <3>1
    <3>3. c[p].parent = next + p - 2
      BY <1>1, <2>2
    <3>. QED
      BY <3>1, <3>2, <3>3
  <2>. QED
    BY <2>1, <2>2
<1>3. \A p \in 1..Len(ms) : c[p].id \notin S
  BY <1>1
<1>4. \A p, q \in 1..Len(ms) : c[p].id = c[q].id => p = q
  BY <1>1
<1>. QED
  BY <1>1, <1>2, <1>3, <1>4 DEF GrowsOn, c

\* ... and their ids.
LEMMA ChainIds ==
  ASSUME NEW ms \in Seq(Kept), NEW parent \in Nat, NEW next \in Nat \ {0}
  PROVE  /\ \A id \in IdsOf(Chain(ms, parent, next)) :
              id \in Nat /\ next <= id /\ id < next + Len(ms)
         /\ ms # <<>> =>
              /\ Chain(ms, parent, next) # <<>>
              /\ LeafId(Chain(ms, parent, next)) = next + Len(ms) - 1
              /\ next + Len(ms) - 1 \in IdsOf(Chain(ms, parent, next))
         /\ ms = <<>> => Chain(ms, parent, next) = <<>>
<1>. DEFINE c == Chain(ms, parent, next)
<1>1. /\ c \in Seq(Entries) /\ Len(c) = Len(ms)
      /\ \A p \in 1..Len(ms) : c[p].id = next + p - 1
  BY ChainIs
<1>. HIDE DEF c
<1>2. Len(ms) \in Nat
  OBVIOUS
<1>3. \A id \in IdsOf(c) : id \in Nat /\ next <= id /\ id < next + Len(ms)
  BY <1>1, <1>2 DEF IdsOf
<1>4. ASSUME ms # <<>>
      PROVE  /\ c # <<>> /\ LeafId(c) = next + Len(ms) - 1
             /\ next + Len(ms) - 1 \in IdsOf(c)
  <2>1. Len(ms) \in 1..Len(ms)
    BY <1>2, <1>4, EmptySeq
  <2>2. c # <<>>
    BY <1>1, <2>1
  <2>. QED
    BY <1>1, <2>1, <2>2 DEF LeafId, IdsOf
<1>5. ASSUME ms = <<>> PROVE c = <<>>
  BY <1>1, <1>5, EmptySeq
<1>. QED
  BY <1>3, <1>4, <1>5, Zenon DEF c

-----------------------------------------------------------------------------
(* The operations of a journal *)

\* A journal is a tree under fresh ids: the committed entries hang from each other,
\* the staged ones from those too, and the leaf is the last one staged.
JournalOK(j) ==
  /\ j \in Journals
  /\ GrowsOn(j.entries, {0})
  /\ GrowsOn(j.staged, {0} \cup IdsOf(j.entries))
  /\ \A id \in IdsOf(j.entries) \cup IdsOf(j.staged) : id < j.nextId
  /\ j.leaf \in {0} \cup IdsOf(j.entries) \cup IdsOf(j.staged)
  /\ j.staged # <<>> => j.leaf = LeafId(j.staged)

\* The fields of a journal.
LEMMA JournalFields ==
  ASSUME NEW j \in Journals
  PROVE  /\ j.entries \in Seq(Entries) /\ j.staged \in Seq(Entries)
         /\ j.leaf \in Nat /\ j.nextId \in Nat \ {0}
         /\ j = [entries |-> j.entries, staged |-> j.staged, leaf |-> j.leaf,
                 nextId |-> j.nextId]
BY DEF Journals

\* Ids are numbers, and none is 0.
LEMMA IdsAreNumbers ==
  ASSUME NEW es \in Seq(Entries) PROVE IdsOf(es) \subseteq Nat \ {0}
BY EntryFields DEF IdsOf

\* The leaf of a log is its last entry, 0 of an empty one.
LEMMA LeafIdIs ==
  ASSUME NEW es \in Seq(Entries)
  PROVE  /\ LeafId(es) \in {0} \cup IdsOf(es)
         /\ es # <<>> => Len(es) \in 1..Len(es) /\ LeafId(es) = es[Len(es)].id
<1>1. CASE es = <<>>
  BY <1>1 DEF LeafId
<1>2. CASE es # <<>>
  <2>1. Len(es) \in 1..Len(es)
    BY <1>2, EmptySeq
  <2>. QED
    BY <1>2, <2>1 DEF LeafId, IdsOf
<1>. QED
  BY <1>1, <1>2

\* Entries are not among those they grow on.
LEMMA FreshDisjoint ==
  ASSUME NEW es \in Seq(Entries), NEW S, GrowsOn(es, S)
  PROVE  S \cap IdsOf(es) = {}
BY DEF GrowsOn, IdsOf

\* k is journal j with these entries and this leaf and next id.
Has(k, entries, staged, leaf, next) ==
  /\ k \in Journals
  /\ k.entries = entries /\ k.staged = staged /\ k.leaf = leaf /\ k.nextId = next

\* A journal after an update of its staged entries, leaf and next id,
LEMMA Updated ==
  ASSUME NEW j \in Journals, NEW x \in Seq(Entries), NEW y \in Nat, NEW z \in Nat \ {0}
  PROVE  Has([j EXCEPT !.staged = x, !.leaf = y, !.nextId = z], j.entries, x, y, z)
<1>1. [j EXCEPT !.staged = x, !.leaf = y, !.nextId = z] \in Journals
  BY Zenon DEF Journals
<1>2. /\ [j EXCEPT !.staged = x, !.leaf = y, !.nextId = z].entries = j.entries
      /\ [j EXCEPT !.staged = x, !.leaf = y, !.nextId = z].staged = x
      /\ [j EXCEPT !.staged = x, !.leaf = y, !.nextId = z].leaf = y
      /\ [j EXCEPT !.staged = x, !.leaf = y, !.nextId = z].nextId = z
  BY DEF Journals
<1>. QED
  BY <1>1, <1>2, Zenon DEF Has

\* What Stage makes of a journal.
LEMMA StageIs ==
  ASSUME NEW j \in Journals, NEW ms \in Seq(Kept)
  PROVE  Has(Stage(j, ms), j.entries, j.staged \o Chain(ms, j.leaf, j.nextId),
             IF ms = <<>> THEN j.leaf ELSE j.nextId + Len(ms) - 1, j.nextId + Len(ms))
<1>. DEFINE x == j.staged \o Chain(ms, j.leaf, j.nextId)
            y == IF ms = <<>> THEN j.leaf ELSE j.nextId + Len(ms) - 1
            z == j.nextId + Len(ms)
<1>1. /\ j.staged \in Seq(Entries) /\ j.leaf \in Nat /\ j.nextId \in Nat \ {0}
      /\ Len(ms) \in Nat /\ (ms # <<>> => Len(ms) > 0)
  BY JournalFields, EmptySeq
<1>2. Chain(ms, j.leaf, j.nextId) \in Seq(Entries)
  BY <1>1, ChainIs
<1>3. x \in Seq(Entries)
  BY <1>1, <1>2, IdsOfConcat
<1>4. y \in Nat /\ z \in Nat \ {0}
  BY <1>1
<1>5. Stage(j, ms) = [j EXCEPT !.staged = x, !.leaf = y, !.nextId = z]
  BY Zenon DEF Stage
<1>. HIDE DEF x, y, z
<1>6. Has(Stage(j, ms), j.entries, x, y, z)
  <2>1. y \in Nat
    BY <1>4
  <2>2. z \in Nat \ {0}
    BY <1>4
  <2>3. Has([j EXCEPT !.staged = x, !.leaf = y, !.nextId = z], j.entries, x, y, z)
    BY <1>3, <2>1, <2>2, Updated, Zenon
  <2>. QED
    BY <1>5, <2>3, Zenon
<1>. QED
  BY <1>6 DEF x, y, z

\* A journal with such entries, leaf and next id is a tree under fresh ids.
LEMMA JournalMade ==
  ASSUME NEW a \in Seq(Entries), NEW b \in Seq(Entries), NEW leaf, NEW next \in Nat \ {0},
         NEW j, Has(j, a, b, leaf, next),
         GrowsOn(a, {0}), GrowsOn(b, {0} \cup IdsOf(a)),
         \A id \in IdsOf(a) \cup IdsOf(b) : id < next,
         leaf \in {0} \cup IdsOf(a) \cup IdsOf(b),
         b # <<>> => leaf = LeafId(b)
  PROVE  JournalOK(j)
BY Zenon DEF JournalOK, Has

\* The leaf of two logs, one after the other.
LEMMA LeafOfConcat ==
  ASSUME NEW a \in Seq(Entries), NEW b \in Seq(Entries)
  PROVE  LeafId(a \o b) = IF b = <<>> THEN LeafId(a) ELSE LeafId(b)
<1>1. CASE b = <<>>
  <2>1. a \o b = a
    BY <1>1
  <2>. QED
    BY <1>1, <2>1
<1>2. CASE b # <<>>
  <2>1. Len(b) \in 1..Len(b)
    BY <1>2, EmptySeq
  <2>2. Len(a \o b) = Len(a) + Len(b) /\ (a \o b)[Len(a) + Len(b)] = b[Len(b)]
    BY <2>1, IdsOfConcat
  <2>3. a \o b # <<>>
    BY <2>1, <2>2
  <2>. QED
    BY <1>2, <2>2, <2>3 DEF LeafId
<1>. QED
  BY <1>1, <1>2

\* Staging messages keeps a journal a tree.
LEMMA StageKeeps ==
  ASSUME NEW j, JournalOK(j), NEW ms \in Seq(Kept) PROVE JournalOK(Stage(j, ms))
<1>. DEFINE c == Chain(ms, j.leaf, j.nextId)
            S == {0} \cup IdsOf(j.entries)
            T == S \cup IdsOf(j.staged)
            leaf == IF ms = <<>> THEN j.leaf ELSE j.nextId + Len(ms) - 1
            next == j.nextId + Len(ms)
            staged == j.staged \o c
<1>1. /\ j \in Journals /\ GrowsOn(j.entries, {0}) /\ GrowsOn(j.staged, S)
      /\ \A id \in IdsOf(j.entries) \cup IdsOf(j.staged) : id < j.nextId
      /\ j.leaf \in T /\ (j.staged # <<>> => j.leaf = LeafId(j.staged))
  BY Zenon DEF JournalOK
<1>2. /\ j.entries \in Seq(Entries) /\ j.staged \in Seq(Entries)
      /\ j.leaf \in Nat /\ j.nextId \in Nat \ {0} /\ Len(ms) \in Nat
  BY <1>1, JournalFields
<1>3. \A id \in T : id \in Nat /\ id < j.nextId
  BY <1>1, <1>2, IdsAreNumbers
<1>4. c \in Seq(Entries) /\ GrowsOn(c, T)
  <2>1. c \in Seq(Entries)
    BY <1>2, ChainIs
  <2>2. GrowsOn(c, T)
    <3>. HIDE DEF T
    <3>. QED
      BY <1>1, <1>2, <1>3, ChainGrows
  <2>. QED
    BY <2>1, <2>2
<1>5. /\ \A id \in IdsOf(c) : id \in Nat /\ id < next
      /\ ms # <<>> => c # <<>> /\ LeafId(c) = leaf /\ leaf \in IdsOf(c)
      /\ ms = <<>> => c = <<>>
  BY <1>2, ChainIds
<1>. HIDE DEF c
<1>6. staged \in Seq(Entries) /\ IdsOf(staged) = IdsOf(j.staged) \cup IdsOf(c)
  BY <1>2, <1>4, IdsOfConcat
<1>7. GrowsOn(staged, S)
  <2>. HIDE DEF S
  <2>. QED
    BY <1>1, <1>2, <1>4, GrowsByConcat
<1>8. LeafId(staged) = IF c = <<>> THEN LeafId(j.staged) ELSE LeafId(c)
  BY <1>2, <1>4, LeafOfConcat
<1>9. next \in Nat \ {0} /\ j.nextId <= next
  BY <1>2
<1>10. \A id \in IdsOf(j.entries) \cup IdsOf(staged) : id < next
  <2>1. ASSUME NEW id \in T PROVE id < next
    <3>1. id \in Nat /\ id < j.nextId
      BY <1>3, <2>1, Zenon
    <3>. QED
      BY <1>2, <1>9, <3>1
  <2>2. IdsOf(j.entries) \cup IdsOf(staged) \subseteq T \cup IdsOf(c)
    BY <1>6
  <2>. QED
    BY <1>5, <2>1, <2>2
<1>11. leaf \in {0} \cup IdsOf(j.entries) \cup IdsOf(staged)
  <2>1. CASE ms = <<>>
    BY <1>1, <1>6, <2>1
  <2>2. CASE ms # <<>>
    BY <1>5, <1>6, <2>2
  <2>. QED
    BY <2>1, <2>2
<1>12. ASSUME staged # <<>> PROVE leaf = LeafId(staged)
  <2>1. CASE ms = <<>>
    <3>1. staged = j.staged
      BY <1>2, <1>5, <2>1
    <3>. QED
      BY <1>1, <1>12, <2>1, <3>1
  <2>2. CASE ms # <<>>
    BY <1>5, <1>8, <2>2
  <2>. QED
    BY <2>1, <2>2
<1>13. Has(Stage(j, ms), j.entries, staged, leaf, next)
  BY <1>1, StageIs DEF c
<1>. HIDE DEF staged, leaf, next, S, T
<1>14. GrowsOn(staged, {0} \cup IdsOf(j.entries))
  BY <1>7 DEF S
<1>. QED
  BY <1>1, <1>2, <1>6, <1>9, <1>10, <1>11, <1>12, <1>13, <1>14, JournalMade, Zenon

\* Entries that hang from the committed ones are put at their end.
LEMMA CommitKeeps ==
  ASSUME NEW j, JournalOK(j), NEW new \in Seq(Entries), NEW next \in Nat,
         GrowsOn(new, {0} \cup IdsOf(j.entries)), j.nextId <= next,
         \A id \in IdsOf(new) : j.nextId <= id /\ id < next,
         NEW k, Has(k, j.entries \o new, j.staged, j.leaf, next)
  PROVE  JournalOK(k)
<1>. DEFINE S == {0} \cup IdsOf(j.entries)
            a == j.entries \o new
            T == {0} \cup IdsOf(a)
<1>1. /\ j \in Journals /\ GrowsOn(j.entries, {0}) /\ GrowsOn(j.staged, S)
      /\ \A id \in IdsOf(j.entries) \cup IdsOf(j.staged) : id < j.nextId
      /\ j.leaf \in S \cup IdsOf(j.staged)
      /\ (j.staged # <<>> => j.leaf = LeafId(j.staged))
  BY Zenon DEF JournalOK
<1>2. /\ j.entries \in Seq(Entries) /\ j.staged \in Seq(Entries)
      /\ j.leaf \in Nat /\ j.nextId \in Nat \ {0}
  BY <1>1, JournalFields
<1>3. a \in Seq(Entries) /\ IdsOf(a) = IdsOf(j.entries) \cup IdsOf(new)
  BY <1>2, IdsOfConcat
<1>4. GrowsOn(a, {0})
  BY <1>1, <1>2, GrowsByConcat
<1>5. IdsOf(j.staged) \subseteq Nat /\ IdsOf(new) \subseteq Nat /\ IdsOf(j.entries) \subseteq Nat
  BY <1>2, IdsAreNumbers
<1>6. T \cap IdsOf(j.staged) = {}
  <2>1. \A id \in IdsOf(new) : id \notin IdsOf(j.staged)
    BY <1>1, <1>2, <1>5
  <2>2. S \cap IdsOf(j.staged) = {}
    <3>. HIDE DEF S
    <3>. QED
      BY <1>1, <1>2, FreshDisjoint
  <2>. QED
    BY <1>3, <2>1, <2>2
<1>7. GrowsOn(j.staged, T)
  <2>1. S \subseteq T
    BY <1>3
  <2>. HIDE DEF S, T
  <2>. QED
    BY <1>1, <1>2, <1>6, <2>1, GrowsMore
<1>8. \A id \in IdsOf(a) \cup IdsOf(j.staged) : id < next
  BY <1>1, <1>2, <1>3, <1>5
<1>9. j.leaf \in {0} \cup IdsOf(a) \cup IdsOf(j.staged)
  BY <1>1, <1>3
<1>10. next \in Nat \ {0}
  BY <1>2
<1>11. GrowsOn(j.staged, {0} \cup IdsOf(a))
  BY <1>7
<1>. HIDE DEF a, S, T
<1>12. Has(k, a, j.staged, j.leaf, next)
  BY DEF a
<1>. QED
  BY <1>1, <1>2, <1>3, <1>4, <1>8, <1>9, <1>10, <1>11, <1>12, JournalMade, Zenon

\* ... and after the other updates.
LEMMA UpdatedOtherwise ==
  ASSUME NEW j \in Journals, NEW a \in Seq(Entries), NEW x \in Seq(Entries),
         NEW y \in Nat, NEW z \in Nat \ {0}
  PROVE  /\ Has([j EXCEPT !.entries = a, !.staged = x], a, x, j.leaf, j.nextId)
         /\ Has([j EXCEPT !.entries = a, !.nextId = z], a, j.staged, j.leaf, z)
         /\ Has([j EXCEPT !.staged = x, !.leaf = y], j.entries, x, y, j.nextId)
<1>1. Has([j EXCEPT !.entries = a, !.staged = x], a, x, j.leaf, j.nextId)
  <2>1. [j EXCEPT !.entries = a, !.staged = x] \in Journals
    BY Zenon DEF Journals
  <2>2. /\ [j EXCEPT !.entries = a, !.staged = x].entries = a
        /\ [j EXCEPT !.entries = a, !.staged = x].staged = x
        /\ [j EXCEPT !.entries = a, !.staged = x].leaf = j.leaf
        /\ [j EXCEPT !.entries = a, !.staged = x].nextId = j.nextId
    BY DEF Journals
  <2>. QED
    BY <2>1, <2>2, Zenon DEF Has
<1>2. Has([j EXCEPT !.entries = a, !.nextId = z], a, j.staged, j.leaf, z)
  <2>1. [j EXCEPT !.entries = a, !.nextId = z] \in Journals
    BY Zenon DEF Journals
  <2>2. /\ [j EXCEPT !.entries = a, !.nextId = z].entries = a
        /\ [j EXCEPT !.entries = a, !.nextId = z].staged = j.staged
        /\ [j EXCEPT !.entries = a, !.nextId = z].leaf = j.leaf
        /\ [j EXCEPT !.entries = a, !.nextId = z].nextId = z
    BY DEF Journals
  <2>. QED
    BY <2>1, <2>2, Zenon DEF Has
<1>3. Has([j EXCEPT !.staged = x, !.leaf = y], j.entries, x, y, j.nextId)
  <2>1. [j EXCEPT !.staged = x, !.leaf = y] \in Journals
    BY Zenon DEF Journals
  <2>2. /\ [j EXCEPT !.staged = x, !.leaf = y].entries = j.entries
        /\ [j EXCEPT !.staged = x, !.leaf = y].staged = x
        /\ [j EXCEPT !.staged = x, !.leaf = y].leaf = y
        /\ [j EXCEPT !.staged = x, !.leaf = y].nextId = j.nextId
    BY DEF Journals
  <2>. QED
    BY <2>1, <2>2, Zenon DEF Has
<1>. QED
  BY <1>1, <1>2, <1>3, Zenon

\* What JournalOK says, with the types it implies.
LEMMA JournalParts ==
  ASSUME NEW j, JournalOK(j)
  PROVE  /\ j \in Journals
         /\ j.entries \in Seq(Entries) /\ j.staged \in Seq(Entries)
         /\ j.leaf \in Nat /\ j.nextId \in Nat /\ j.nextId \in Nat \ {0}
         /\ GrowsOn(j.entries, {0}) /\ GrowsOn(j.staged, {0} \cup IdsOf(j.entries))
         /\ IdsOf(j.entries) \subseteq Nat /\ IdsOf(j.staged) \subseteq Nat
         /\ \A id \in IdsOf(j.entries) \cup IdsOf(j.staged) : id < j.nextId
         /\ j.leaf \in {0} \cup IdsOf(j.entries) \cup IdsOf(j.staged)
         /\ j.staged # <<>> => j.leaf = LeafId(j.staged)
<1>1. /\ j \in Journals
      /\ GrowsOn(j.entries, {0}) /\ GrowsOn(j.staged, {0} \cup IdsOf(j.entries))
      /\ \A id \in IdsOf(j.entries) \cup IdsOf(j.staged) : id < j.nextId
      /\ j.leaf \in {0} \cup IdsOf(j.entries) \cup IdsOf(j.staged)
      /\ (j.staged # <<>> => j.leaf = LeafId(j.staged))
  BY Zenon DEF JournalOK
<1>2. /\ j.entries \in Seq(Entries) /\ j.staged \in Seq(Entries)
      /\ j.leaf \in Nat /\ j.nextId \in Nat \ {0} /\ j.nextId \in Nat
  BY <1>1, JournalFields
<1>3. IdsOf(j.entries) \subseteq Nat /\ IdsOf(j.staged) \subseteq Nat
  BY <1>2, IdsAreNumbers
<1>. QED
  BY <1>1, <1>2, <1>3, Zenon

\* What Flush makes of a journal,
LEMMA FlushIs ==
  ASSUME NEW j \in Journals
  PROVE  Has(Flush(j), j.entries \o j.staged, <<>>, j.leaf, j.nextId)
<1>. DEFINE a == j.entries \o j.staged
<1>1. a \in Seq(Entries) /\ <<>> \in Seq(Entries)
  BY JournalFields, IdsOfConcat
<1>2. Flush(j) = [j EXCEPT !.entries = a, !.staged = <<>>]
  BY Zenon DEF Flush
<1>. HIDE DEF a
<1>3. Has([j EXCEPT !.entries = a, !.staged = <<>>], a, <<>>, j.leaf, j.nextId)
  <2>1. 0 \in Nat /\ 1 \in Nat \ {0}
    OBVIOUS
  <2>. QED
    BY <1>1, <2>1, UpdatedOtherwise, Zenon
<1>. QED
  BY <1>2, <1>3, Zenon DEF a

\* ... which stays a tree.
LEMMA FlushKeeps ==
  ASSUME NEW j, JournalOK(j) PROVE JournalOK(Flush(j))
<1>. DEFINE a == j.entries \o j.staged
<1>0. /\ j \in Journals
      /\ j.entries \in Seq(Entries) /\ j.staged \in Seq(Entries)
      /\ j.nextId \in Nat \ {0}
      /\ GrowsOn(j.entries, {0}) /\ GrowsOn(j.staged, {0} \cup IdsOf(j.entries))
      /\ \A id \in IdsOf(j.entries) \cup IdsOf(j.staged) : id < j.nextId
      /\ j.leaf \in {0} \cup IdsOf(j.entries) \cup IdsOf(j.staged)
  BY JournalParts, Zenon
<1>1. a \in Seq(Entries) /\ IdsOf(a) = IdsOf(j.entries) \cup IdsOf(j.staged)
  BY <1>0, IdsOfConcat
<1>2. GrowsOn(a, {0})
  BY <1>0, GrowsByConcat
<1>3. Has(Flush(j), a, <<>>, j.leaf, j.nextId)
  BY <1>0, FlushIs
<1>4. /\ \A id \in IdsOf(a) \cup IdsOf(<<>>) : id < j.nextId
      /\ j.leaf \in {0} \cup IdsOf(a) \cup IdsOf(<<>>)
  BY <1>0, <1>1, GrowsNothing
<1>5. <<>> \in Seq(Entries) /\ GrowsOn(<<>>, {0} \cup IdsOf(a))
  BY GrowsNothing
<1>. HIDE DEF a
<1>6. \A id \in IdsOf(a) \cup IdsOf(<<>>) : id < j.nextId
  BY <1>4
<1>7. j.leaf \in {0} \cup IdsOf(a) \cup IdsOf(<<>>)
  BY <1>4
<1>8. j.nextId \in Nat \ {0}
  BY <1>0
<1>9. a \in Seq(Entries)
  BY <1>1
<1>10. <<>> \in Seq(Entries)
  BY <1>5
<1>11. GrowsOn(<<>>, {0} \cup IdsOf(a))
  BY <1>5
<1>. QED
  BY <1>2, <1>3, <1>6, <1>7, <1>8, <1>9, <1>10, <1>11, JournalMade, Zenon

\* What AppendCommitted makes of a journal,
LEMMA AppendIs ==
  ASSUME NEW j \in Journals, NEW role \in EntryRoles, NEW n \in Nat
  PROVE  LET e == [id |-> j.nextId, parent |-> LeafId(j.entries), role |-> role, n |-> n]
         IN  /\ e \in Entries
             /\ Has(AppendCommitted(j, role, n), j.entries \o <<e>>, j.staged, j.leaf,
                    j.nextId + 1)
<1>. DEFINE e == [id |-> j.nextId, parent |-> LeafId(j.entries), role |-> role, n |-> n]
            a == j.entries \o <<e>>
            z == j.nextId + 1
<1>1. j.entries \in Seq(Entries) /\ j.nextId \in Nat \ {0}
  BY JournalFields
<1>2. LeafId(j.entries) \in Nat
  BY <1>1, LeafIdIs, IdsAreNumbers
<1>3. e \in Entries
  <2>. DEFINE l == LeafId(j.entries)
  <2>. HIDE DEF l
  <2>. SUFFICES [id |-> j.nextId, parent |-> l, role |-> role, n |-> n] \in Entries
    BY DEF l
  <2>1. l \in Nat
    BY <1>2 DEF l
  <2>. QED
    BY <1>1, <2>1, Zenon DEF Entries
<1>4. a \in Seq(Entries) /\ z \in Nat \ {0} /\ a = Append(j.entries, e)
  <2>. HIDE DEF e
  <2>. QED
    BY <1>1, <1>3
<1>5. AppendCommitted(j, role, n) = [j EXCEPT !.entries = a, !.nextId = z]
  BY <1>4, Zenon DEF AppendCommitted
<1>. HIDE DEF a, z
<1>6. Has([j EXCEPT !.entries = a, !.nextId = z], a, j.staged, j.leaf, z)
  <2>1. a \in Seq(Entries)
    BY <1>4
  <2>2. z \in Nat \ {0}
    BY <1>4
  <2>3. 0 \in Nat
    OBVIOUS
  <2>. QED
    BY <2>1, <2>2, <2>3, UpdatedOtherwise, Zenon
<1>. QED
  BY <1>3, <1>5, <1>6, Zenon DEF a, z

\* ... which stays a tree.
LEMMA AppendKeeps ==
  ASSUME NEW j, JournalOK(j), NEW role \in EntryRoles, NEW n \in Nat
  PROVE  JournalOK(AppendCommitted(j, role, n))
<1>. DEFINE e == [id |-> j.nextId, parent |-> LeafId(j.entries), role |-> role, n |-> n]
            S == {0} \cup IdsOf(j.entries)
<1>0. /\ j \in Journals
      /\ j.entries \in Seq(Entries) /\ j.nextId \in Nat /\ j.nextId \in Nat \ {0}
      /\ \A id \in IdsOf(j.entries) \cup IdsOf(j.staged) : id < j.nextId
      /\ IdsOf(j.entries) \subseteq Nat
  BY JournalParts, Zenon
<1>1. /\ e \in Entries
      /\ Has(AppendCommitted(j, role, n), j.entries \o <<e>>, j.staged, j.leaf,
             j.nextId + 1)
  BY <1>0, AppendIs
<1>2. e.parent \in S /\ e.id \notin S /\ e.id = j.nextId
  <2>1. LeafId(j.entries) \in S
    BY <1>0, LeafIdIs
  <2>2. j.nextId \notin S
    BY <1>0
  <2>. QED
    BY <2>1, <2>2
<1>. HIDE DEF e
<1>3. <<e>> \in Seq(Entries) /\ GrowsOn(<<e>>, S) /\ IdsOf(<<e>>) = {j.nextId}
  <2>. HIDE DEF S
  <2>. QED
    BY <1>1, <1>2, GrowsByOne
<1>4. /\ j.nextId + 1 \in Nat /\ j.nextId <= j.nextId + 1
      /\ \A id \in IdsOf(<<e>>) : j.nextId <= id /\ id < j.nextId + 1
  BY <1>0, <1>3
<1>. QED
  BY <1>1, <1>3, <1>4, CommitKeeps, Zenon

\* What StageCompaction makes of a journal,
LEMMA CompactionIs ==
  ASSUME NEW j, JournalOK(j), NEW native \in Nat
  PROVE  LET base == IF j.staged = <<>> THEN j.leaf ELSE j.staged[1].parent
             e == CompactionEntry(j.nextId, base, native)
         IN  /\ e \in Entries /\ base \in {0} \cup IdsOf(j.entries)
             /\ Rehung(j.staged, j.nextId) \in Seq(Entries)
             /\ Has(StageCompaction(j, native), j.entries,
                    <<e>> \o Rehung(j.staged, j.nextId),
                    IF j.staged = <<>> THEN j.nextId ELSE j.leaf, j.nextId + 1)
<1>. DEFINE base == IF j.staged = <<>> THEN j.leaf ELSE j.staged[1].parent
            e == CompactionEntry(j.nextId, base, native)
            S == {0} \cup IdsOf(j.entries)
            x == <<e>> \o Rehung(j.staged, j.nextId)
            y == IF j.staged = <<>> THEN j.nextId ELSE j.leaf
            z == j.nextId + 1
<1>0. /\ j \in Journals
      /\ j.entries \in Seq(Entries) /\ j.staged \in Seq(Entries)
      /\ j.leaf \in Nat /\ j.nextId \in Nat /\ j.nextId \in Nat \ {0}
      /\ GrowsOn(j.staged, S) /\ IdsOf(j.entries) \subseteq Nat
      /\ j.leaf \in S \cup IdsOf(j.staged)
  BY JournalParts, Zenon
<1>1. base \in S
  <2>1. CASE j.staged = <<>>
    <3>1. IdsOf(j.staged) = {}
      BY <2>1, GrowsNothing, Zenon
    <3>. QED
      BY <1>0, <2>1, <3>1
  <2>2. CASE j.staged # <<>>
    <3>1. 1 \in 1..Len(j.staged) /\ 1..(1 - 1) = {}
      BY <1>0, <2>2, EmptySeq
    <3>2. j.staged[1].parent \in S
      BY <1>0, <3>1 DEF GrowsOn
    <3>. QED
      BY <2>2, <3>2
  <2>. QED
    BY <2>1, <2>2
<1>2. base \in Nat
  BY <1>0, <1>1
<1>3. e \in Entries
  <2>. HIDE DEF base
  <2>1. "compaction" \in EntryRoles
    BY DEF EntryRoles
  <2>. QED
    BY <1>0, <1>2, <2>1, Zenon DEF Entries, CompactionEntry
<1>4. Rehung(j.staged, j.nextId) \in Seq(Entries)
  <2>1. \A p \in 1..Len(j.staged) : j.staged[p] \in Entries
    BY <1>0
  <2>2. \A p \in 1..Len(j.staged) : [j.staged[p] EXCEPT !.parent = j.nextId] \in Entries
    BY <1>0, <2>1 DEF Entries
  <2>3. Rehung(j.staged, j.nextId) \in [1..Len(j.staged) -> Entries]
    BY <2>1, <2>2 DEF Rehung
  <2>4. Len(j.staged) \in Nat
    BY <1>0
  <2>. DEFINE r == Rehung(j.staged, j.nextId)
  <2>. HIDE DEF r
  <2>. SUFFICES r \in Seq(Entries)
    BY DEF r
  <2>5. r \in [1..Len(j.staged) -> Entries]
    BY <2>3 DEF r
  <2>. QED
    BY <2>4, <2>5, SeqDef
<1>5. x \in Seq(Entries)
  <2>. HIDE DEF e
  <2>1. <<e>> \in Seq(Entries)
    BY <1>3
  <2>. QED
    BY <1>4, <2>1, IdsOfConcat
<1>6. y \in Nat
  BY <1>0
<1>7. z \in Nat \ {0}
  BY <1>0
<1>8. StageCompaction(j, native) = [j EXCEPT !.staged = x, !.leaf = y, !.nextId = z]
  BY Zenon DEF StageCompaction
<1>. HIDE DEF x, y, z
<1>9. Has([j EXCEPT !.staged = x, !.leaf = y, !.nextId = z], j.entries, x, y, z)
  <2>1. j \in Journals
    BY <1>0
  <2>. QED
    BY <1>5, <1>6, <1>7, <2>1, Updated, Zenon
<1>10. Has(StageCompaction(j, native), j.entries, x, y, z)
  BY <1>8, <1>9, Zenon
<1>11. base \in {0} \cup IdsOf(j.entries)
  BY <1>1
<1>12. Has(StageCompaction(j, native), j.entries,
           <<e>> \o Rehung(j.staged, j.nextId),
           IF j.staged = <<>> THEN j.nextId ELSE j.leaf, j.nextId + 1)
  BY <1>10, Zenon DEF x, y, z
<1>. QED
  BY <1>3, <1>4, <1>11, <1>12, Zenon

\* ... which stays a tree: the checkpoint comes between the committed entries and
\* the pending ones, under an id above theirs.
LEMMA CompactionKeeps ==
  ASSUME NEW j, JournalOK(j), NEW native \in Nat
  PROVE  JournalOK(StageCompaction(j, native))
<1>. DEFINE base == IF j.staged = <<>> THEN j.leaf ELSE j.staged[1].parent
            e == CompactionEntry(j.nextId, base, native)
            S == {0} \cup IdsOf(j.entries)
            T == S \cup {j.nextId}
            r == Rehung(j.staged, j.nextId)
            x == <<e>> \o r
            y == IF j.staged = <<>> THEN j.nextId ELSE j.leaf
            z == j.nextId + 1
<1>0. /\ j \in Journals
      /\ j.entries \in Seq(Entries) /\ j.staged \in Seq(Entries)
      /\ j.leaf \in Nat /\ j.nextId \in Nat /\ j.nextId \in Nat \ {0}
      /\ GrowsOn(j.entries, {0}) /\ GrowsOn(j.staged, S)
      /\ IdsOf(j.entries) \subseteq Nat /\ IdsOf(j.staged) \subseteq Nat
      /\ \A id \in IdsOf(j.entries) \cup IdsOf(j.staged) : id < j.nextId
      /\ j.leaf \in S \cup IdsOf(j.staged)
      /\ (j.staged # <<>> => j.leaf = LeafId(j.staged))
  BY JournalParts, Zenon
<1>1. /\ e \in Entries /\ base \in S
      /\ r \in Seq(Entries)
      /\ Has(StageCompaction(j, native), j.entries, x, y, z)
  BY CompactionIs, Zenon
<1>2. e.id = j.nextId /\ e.parent = base
  <2>. HIDE DEF base
  <2>. QED
    BY DEF CompactionEntry
<1>. HIDE DEF e, base
<1>3. <<e>> \in Seq(Entries) /\ GrowsOn(<<e>>, S) /\ IdsOf(<<e>>) = {j.nextId}
  <2>1. j.nextId \notin S
    BY <1>0
  <2>. HIDE DEF S
  <2>. QED
    BY <1>1, <1>2, <2>1, GrowsByOne
<1>4. GrowsOn(j.staged, T)
  <2>1. S \subseteq T
    OBVIOUS
  <2>2. T \cap IdsOf(j.staged) = {}
    <3>1. S \cap IdsOf(j.staged) = {}
      <4>. HIDE DEF S
      <4>. QED
        BY <1>0, FreshDisjoint
    <3>. QED
      BY <1>0, <3>1
  <2>. HIDE DEF S, T
  <2>. QED
    BY <1>0, <2>1, <2>2, GrowsMore
<1>5. /\ r \in Seq(Entries) /\ Len(r) = Len(j.staged) /\ GrowsOn(r, T)
      /\ IdsOf(r) = IdsOf(j.staged)
      /\ \A p \in 1..Len(j.staged) : r[p].id = j.staged[p].id
  <2>1. j.nextId \in T \cap Nat
    BY <1>0
  <2>. HIDE DEF T
  <2>. QED
    BY <1>0, <1>4, <2>1, RehungGrows
<1>. HIDE DEF r
<1>6. /\ x \in Seq(Entries) /\ IdsOf(x) = {j.nextId} \cup IdsOf(j.staged)
  <2>1. <<e>> \in Seq(Entries)
    BY <1>3
  <2>2. x \in Seq(Entries) /\ IdsOf(x) = IdsOf(<<e>>) \cup IdsOf(r)
    BY <1>5, <2>1, IdsOfConcat
  <2>. HIDE DEF x
  <2>. QED
    BY <1>3, <1>5, <2>2
<1>7. GrowsOn(x, S)
  <2>1. S \cup IdsOf(<<e>>) = T
    BY <1>3
  <2>. HIDE DEF S, T
  <2>. QED
    BY <1>3, <1>5, <2>1, GrowsByConcat
<1>8. LeafId(x) = y
  <2>1. LeafId(x) = IF r = <<>> THEN LeafId(<<e>>) ELSE LeafId(r)
    BY <1>3, <1>5, LeafOfConcat
  <2>2. LeafId(<<e>>) = j.nextId
    BY <1>2, <1>3 DEF LeafId
  <2>3. r = <<>> <=> j.staged = <<>>
    BY <1>0, <1>5, EmptySeq
  <2>4. CASE j.staged = <<>>
    BY <2>1, <2>2, <2>3, <2>4
  <2>5. CASE j.staged # <<>>
    <3>1. Len(j.staged) \in 1..Len(j.staged)
      BY <1>0, <2>5, EmptySeq
    <3>2. LeafId(r) = LeafId(j.staged)
      BY <1>5, <2>3, <2>5, <3>1 DEF LeafId
    <3>. QED
      BY <1>0, <2>1, <2>3, <2>5, <3>2
  <2>. QED
    BY <2>4, <2>5
<1>9. \A id \in IdsOf(j.entries) \cup IdsOf(x) : id < z
  BY <1>0, <1>6
<1>10. y \in {0} \cup IdsOf(j.entries) \cup IdsOf(x)
  BY <1>0, <1>6
<1>11. z \in Nat \ {0}
  BY <1>0
<1>12. GrowsOn(x, {0} \cup IdsOf(j.entries))
  BY <1>7
<1>. HIDE DEF x, y, z, S, T
<1>13. /\ x \in Seq(Entries) /\ j.entries \in Seq(Entries) /\ GrowsOn(j.entries, {0})
  BY <1>0, <1>6
<1>14. Has(StageCompaction(j, native), j.entries, x, y, z)
  BY <1>1
<1>15. x # <<>> => y = LeafId(x)
  BY <1>8
<1>. QED
  BY <1>9, <1>10, <1>11, <1>12, <1>13, <1>14, <1>15, JournalMade, Zenon

\* A new turn drops what was staged, and the journal stays a tree.
LEMMA NewTurnKeeps ==
  ASSUME NEW j, JournalOK(j), NEW message \in Kept
  PROVE  JournalOK(NewTurn(j, message))
<1>. DEFINE leaf == LeafId(j.entries)
            k == [j EXCEPT !.staged = <<>>, !.leaf = leaf]
<1>0. /\ j \in Journals
      /\ j.entries \in Seq(Entries) /\ j.nextId \in Nat \ {0}
      /\ GrowsOn(j.entries, {0}) /\ IdsOf(j.entries) \subseteq Nat
      /\ \A id \in IdsOf(j.entries) \cup IdsOf(j.staged) : id < j.nextId
  BY JournalParts, Zenon
<1>1. leaf \in {0} \cup IdsOf(j.entries)
  BY <1>0, LeafIdIs
<1>2. leaf \in Nat
  BY <1>0, <1>1
<1>3. <<>> \in Seq(Entries) /\ GrowsOn(<<>>, {0} \cup IdsOf(j.entries)) /\ IdsOf(<<>>) = {}
  BY GrowsNothing
<1>4. Has(k, j.entries, <<>>, leaf, j.nextId)
  <2>. HIDE DEF leaf
  <2>1. <<>> \in Seq(Entries)
    BY <1>3
  <2>2. j \in Journals
    BY <1>0
  <2>3. 1 \in Nat \ {0}
    OBVIOUS
  <2>. QED
    BY <1>2, <2>1, <2>2, <2>3, UpdatedOtherwise, Zenon
<1>5. JournalOK(k)
  <2>1. \A id \in IdsOf(j.entries) \cup IdsOf(<<>>) : id < j.nextId
    BY <1>0, <1>3
  <2>2. leaf \in {0} \cup IdsOf(j.entries) \cup IdsOf(<<>>)
    BY <1>1
  <2>3. <<>> # <<>> => leaf = LeafId(<<>>)
    OBVIOUS
  <2>4. /\ j.entries \in Seq(Entries) /\ <<>> \in Seq(Entries)
        /\ j.nextId \in Nat \ {0} /\ GrowsOn(j.entries, {0})
        /\ GrowsOn(<<>>, {0} \cup IdsOf(j.entries))
    BY <1>0, <1>3
  <2>. HIDE DEF leaf, k
  <2>. QED
    BY <1>4, <2>1, <2>2, <2>3, <2>4, JournalMade, Zenon
<1>6. <<message>> \in Seq(Kept)
  OBVIOUS
<1>. QED
  BY <1>5, <1>6, StageKeeps, Zenon DEF NewTurn

\* What is read of a file is a tree, with a next id above all of its ids.
LEMMA LoadKeeps ==
  ASSUME NEW es \in Seq(Entries), GrowsOn(es, {0})
  PROVE  JournalOK(Load(es)) /\ Load(es).entries = es
<1>. DEFINE ids == {0} \cup {es[p].id : p \in 1..Len(es)}
            m == CHOOSE m \in ids : \A id \in ids : id <= m
            z == 1 + m
<1>1. ids = {0} \cup IdsOf(es) /\ ids \subseteq Nat
  BY IdsAreNumbers DEF IdsOf
<1>2. \E top \in ids : \A id \in ids : id <= top
  <2>. DEFINE Bound(k, top) == \A p \in 1..k : es[p].id <= top
              G == {k \in 0..Len(es) : \E top \in ids : Bound(k, top)}
  <2>1. Len(es) \in Nat
    OBVIOUS
  <2>2. 0 \in G
    OBVIOUS
  <2>3. ASSUME NEW k \in 1..Len(es), \A i \in 0..(k - 1) : i \in G PROVE k \in G
    <3>1. k - 1 \in G
      <4>1. k - 1 \in 0..(k - 1)
        OBVIOUS
      <4>. HIDE DEF G
      <4>. QED
        BY <2>3, <4>1
    <3>2. PICK top \in ids : Bound(k - 1, top)
      BY <3>1
    <3>3. es[k].id \in ids /\ es[k].id \in Nat /\ top \in Nat
      BY <1>1, EntryFields
    <3>4. \A p \in 1..(k - 1) : es[p].id \in Nat
      BY EntryFields
    <3>5. CASE es[k].id <= top
      <4>1. Bound(k, top)
        BY <3>2, <3>5
      <4>2. k \in 0..Len(es)
        OBVIOUS
      <4>. HIDE DEF Bound
      <4>. QED
        BY <4>1, <4>2
    <3>6. CASE ~(es[k].id <= top)
      <4>0. top < es[k].id /\ k - 1 \in Nat /\ k \in Nat
        BY <3>3, <3>6
      <4>1. Bound(k, es[k].id)
        <5>1. ASSUME NEW p \in 1..k PROVE es[p].id <= es[k].id
          <6>1. CASE p = k
            BY <3>3, <6>1
          <6>2. CASE p # k
            <7>1. p \in 1..(k - 1)
              BY <4>0, <6>2
            <7>. QED
              BY <3>2, <3>3, <3>4, <4>0, <7>1
          <6>. QED
            BY <6>1, <6>2
        <5>. QED
          BY <5>1
      <4>2. k \in 0..Len(es)
        OBVIOUS
      <4>. HIDE DEF Bound
      <4>. QED
        BY <3>3, <4>1, <4>2
    <3>. QED
      BY <3>5, <3>6
  <2>4. \A k \in 0..Len(es) : k \in G
    <3>. HIDE DEF G
    <3>. QED
      BY <2>1, <2>2, <2>3, UpToInduction, Zenon
  <2>5. Len(es) \in G
    <3>1. Len(es) \in 0..Len(es)
      BY <2>1
    <3>. HIDE DEF G
    <3>. QED
      BY <2>4, <3>1, Zenon
  <2>6. PICK top \in ids : Bound(Len(es), top)
    BY <2>5
  <2>7. \A id \in ids : id <= top
    <3>1. \A id \in IdsOf(es) : id <= top
      BY <2>6 DEF IdsOf
    <3>. HIDE DEF ids
    <3>. QED
      BY <1>1, <3>1
  <2>. QED
    BY <2>7
<1>3. m \in ids /\ \A id \in ids : id <= m
  <2>. HIDE DEF ids
  <2>. QED
    BY <1>2
<1>. HIDE DEF m
<1>4. z \in Nat \ {0} /\ \A id \in IdsOf(es) : id < z
  <2>. HIDE DEF ids
  <2>1. m \in Nat /\ \A id \in IdsOf(es) : id \in Nat /\ id <= m
    BY <1>1, <1>3
  <2>. QED
    BY <2>1
<1>5. Load(es) = [EmptyJournal EXCEPT !.entries = es, !.nextId = z]
  BY Zenon DEF Load, m
<1>6. /\ EmptyJournal \in Journals /\ EmptyJournal.staged = <<>> /\ EmptyJournal.leaf = 0
      /\ <<>> \in Seq(Entries)
  BY DEF EmptyJournal, Journals
<1>. HIDE DEF z
<1>7. Has([EmptyJournal EXCEPT !.entries = es, !.nextId = z], es, EmptyJournal.staged,
          EmptyJournal.leaf, z)
  <2>1. EmptyJournal \in Journals
    BY <1>6
  <2>2. z \in Nat \ {0}
    BY <1>4
  <2>3. 0 \in Nat
    OBVIOUS
  <2>. QED
    BY <2>1, <2>2, <2>3, UpdatedOtherwise, Zenon
<1>8. Has(Load(es), es, <<>>, 0, z)
  BY <1>5, <1>6, <1>7, Zenon
<1>9. JournalOK(Load(es))
  <2>1. <<>> \in Seq(Entries) /\ GrowsOn(<<>>, {0} \cup IdsOf(es)) /\ IdsOf(<<>>) = {}
    BY GrowsNothing
  <2>2. \A id \in IdsOf(es) \cup IdsOf(<<>>) : id < z
    BY <1>4, <2>1
  <2>3. 0 \in {0} \cup IdsOf(es) \cup IdsOf(<<>>)
    OBVIOUS
  <2>4. <<>> # <<>> => 0 = LeafId(<<>>)
    OBVIOUS
  <2>5. /\ <<>> \in Seq(Entries) /\ z \in Nat \ {0}
        /\ GrowsOn(<<>>, {0} \cup IdsOf(es))
    BY <1>4, <2>1
  <2>. QED
    BY <1>8, <2>2, <2>3, <2>4, <2>5, JournalMade, Zenon
<1>. QED
  BY <1>8, <1>9, Zenon DEF Has

\* What is known of the members of a path.
LEMMA PathMembers ==
  ASSUME NEW es \in Seq(Entries), GrowsOn(es, {0}), NEW id
  PROVE  /\ PathFrom(es, id) \in Seq(Entries)
         /\ \A k \in 1..Len(PathFrom(es, id)) : PathFrom(es, id)[k].id \in IdsOf(es)
<1>1. PathFrom(es, id) \in Seq(Members(es))
  BY Paths, Zenon
<1>. DEFINE path == PathFrom(es, id)
<1>. HIDE DEF path
<1>2. path \in Seq(Members(es))
  BY <1>1 DEF path
<1>3. \A e \in Members(es) : e \in Entries /\ e.id \in IdsOf(es)
  BY EntryFields DEF Members
<1>4. \A k \in 1..Len(path) : path[k] \in Members(es)
  BY <1>2
<1>5. Len(path) \in Nat /\ path \in [1..Len(path) -> Entries]
  BY <1>2, <1>3, <1>4
<1>6. path \in Seq(Entries)
  BY <1>5, SeqDef
<1>. QED
  BY <1>3, <1>4, <1>6 DEF path

\* The results that stand right after an entry of a path.
LEMMA ResultsAfterIs ==
  ASSUME NEW path \in Seq(Entries), NEW i \in 1..Len(path)
  PROVE  /\ ResultsAfter(path, i) \in 0..(Len(path) - i)
         /\ \A k \in 1..ResultsAfter(path, i) : path[i + k].role = "result"
         /\ i + ResultsAfter(path, i) < Len(path) =>
              path[i + ResultsAfter(path, i) + 1].role # "result"
<1>. DEFINE L == Len(path) - i
            Stops == {m \in 0..L : i + m < Len(path) => path[i + m + 1].role # "result"}
            Is(m) == /\ \A k \in 1..m : path[i + k].role = "result"
                     /\ i + m < Len(path) => path[i + m + 1].role # "result"
<1>1. L \in Stops
  OBVIOUS
<1>2. PICK m \in Stops : \A k \in Stops : m <= k
  <2>1. Stops \subseteq Nat
    OBVIOUS
  <2>. HIDE DEF Stops
  <2>. QED
    BY <1>1, <2>1, LeastExists
<1>3. ASSUME NEW k \in 1..m PROVE path[i + k].role = "result"
  <2>1. k - 1 \in 0..L /\ k - 1 \notin Stops
    <3>1. m \in 0..L /\ ~(m <= k - 1)
      OBVIOUS
    <3>. HIDE DEF Stops
    <3>. QED
      BY <1>2, <3>1
  <2>2. i + (k - 1) + 1 = i + k
    OBVIOUS
  <2>. QED
    BY <2>1, <2>2
<1>4. m \in 0..L /\ Is(m)
  BY <1>2, <1>3
<1>. DEFINE c == CHOOSE k \in 0..L : Is(k)
<1>5. c \in 0..L /\ Is(c)
  <2>. HIDE DEF Is, L
  <2>. QED
    BY <1>4
<1>6. ResultsAfter(path, i) = c
  BY Zenon DEF ResultsAfter
<1>. HIDE DEF c
<1>. QED
  BY <1>5, <1>6

\* The calls whose results stand right after entry i of a path, and the table of
\* those up to each call without one.
AnsweredAt(path, i) == {path[i + k].n : k \in 1..ResultsAfter(path, i)}
Missing(f, path, i) ==
  /\ f \in [0..path[i].n -> Seq(Nat)] /\ f[0] = <<>>
  /\ \A k \in 1..path[i].n :
       f[k] = IF k \in AnsweredAt(path, i) THEN f[k - 1] ELSE Append(f[k - 1], k)
  /\ Unanswered(path, i) = IF path[i].role = "assistant" THEN f[path[i].n] ELSE <<>>

\* There is such a table.
LEMMA UnansweredSteps ==
  ASSUME NEW path \in Seq(Entries), NEW i \in 1..Len(path)
  PROVE  \E f : Missing(f, path, i)
<1>. DEFINE n == path[i].n
            seen == {path[i + k].n : k \in 1..ResultsAfter(path, i)}
            S == Seq(Nat)
            prev == [k \in 1..n |-> k - 1]
            g == [k \in 1..n |-> [s \in S |-> IF k \in seen THEN s ELSE Append(s, k)]]
            Step(f) == [k \in 0..n |->
                          IF k = 0 THEN <<>>
                          ELSE IF k \in seen THEN f[k - 1] ELSE Append(f[k - 1], k)]
            missing == CHOOSE f : f = Step(f)
<1>1. n \in Nat /\ <<>> \in S
  BY EntryFields
<1>. HIDE DEF n, seen
<1>2. prev \in [1..n -> Nat] /\ \A k \in 1..n : prev[k] < k
  BY <1>1
<1>3. g \in [1..n -> [S -> S]]
  BY <1>1
<1>4. PICK f : f \in [0..n -> S] /\ f[0] = <<>>
                 /\ \A k \in 1..n : f[k] = g[k][f[prev[k]]]
  <2>. HIDE DEF S, prev, g, missing
  <2>1. \A k \in 1..n : prev[k] < k
    BY <1>2
  <2>2. prev \in [1..n -> Nat]
    BY <1>2
  <2>3. n \in Nat
    BY <1>1
  <2>4. <<>> \in S
    BY <1>1
  <2>5. \E f : IsTable(f, n, S, <<>>, prev, g)
    BY <1>3, <2>1, <2>2, <2>3, <2>4, TableExists, Zenon
  <2>. QED
    BY <2>5, Zenon DEF IsTable
<1>5. f = Step(f)
  <2>1. ASSUME NEW k \in 1..n
        PROVE  f[k] = IF k \in seen THEN f[k - 1] ELSE Append(f[k - 1], k)
    <3>1. k - 1 \in 0..n
      BY <1>1
    <3>2. f[k - 1] \in S
      BY <1>4, <3>1
    <3>. QED
      BY <1>4, <3>2
  <2>2. \A k \in 0..n : k = 0 \/ k \in 1..n
    BY <1>1
  <2>. QED
    BY <1>4, <2>1, <2>2
<1>6. missing = Step(missing)
  BY <1>5, Zenon
<1>. HIDE DEF missing
<1>7. \A k \in 0..n : missing[k] \in S
  <2>. DEFINE G == {k \in 0..n : missing[k] \in S}
  <2>1. 0 \in G
    <3>1. 0 \in 0..n
      BY <1>1
    <3>2. missing[0] = <<>>
      BY <1>6, <3>1, Zenon
    <3>. QED
      BY <1>1, <3>1, <3>2, Zenon
  <2>2. ASSUME NEW k \in 1..n, \A m \in 0..(k - 1) : m \in G PROVE k \in G
    <3>1. k \in 0..n /\ k # 0 /\ k - 1 \in 0..(k - 1)
      BY <1>1
    <3>2. missing[k - 1] \in S
      BY <2>2, <3>1
    <3>3. missing[k] = IF k \in seen THEN missing[k - 1] ELSE Append(missing[k - 1], k)
      BY <1>6, <3>1, Zenon
    <3>4. missing[k] \in S
      <4>. HIDE DEF G
      <4>. QED
        BY <3>2, <3>3
    <3>. QED
      BY <3>1, <3>4, Zenon
  <2>3. \A k \in 0..n : k \in G
    <3>. HIDE DEF G
    <3>. QED
      BY <1>1, <2>1, <2>2, UpToInduction, Zenon
  <2>. QED
    BY <2>3
<1>8. missing \in [0..n -> S]
  <2>1. missing = [k \in 0..n |-> missing[k]]
    BY <1>6, Zenon
  <2>. QED
    BY <1>7, <2>1
<1>9. Unanswered(path, i) = IF path[i].role = "assistant" THEN missing[n] ELSE <<>>
  BY Zenon DEF Unanswered, missing, n, seen
<1>10. missing[0] = <<>>
  <2>1. 0 \in 0..n
    BY <1>1
  <2>. QED
    BY <1>6, <2>1, Zenon
<1>11. ASSUME NEW k \in 1..n
       PROVE  missing[k] = IF k \in seen THEN missing[k - 1] ELSE Append(missing[k - 1], k)
  <2>1. k \in 0..n /\ k # 0
    BY <1>1
  <2>. QED
    BY <1>6, <2>1, Zenon
<1>12. seen = AnsweredAt(path, i)
  BY DEF seen, AnsweredAt
<1>. HIDE DEF S
<1>13. Missing(missing, path, i)
  BY <1>8, <1>9, <1>10, <1>11, <1>12 DEF Missing, n, S
<1>. QED
  BY <1>13

\* The calls without a result are numbers.
LEMMA UnansweredTyped ==
  ASSUME NEW path \in Seq(Entries), NEW i \in 1..Len(path)
  PROVE  Unanswered(path, i) \in Seq(Nat)
<1>1. PICK f : Missing(f, path, i)
  BY UnansweredSteps
<1>2. path[i].n \in Nat
  BY EntryFields
<1>3. path[i].n \in 0..path[i].n
  BY <1>2
<1>4. f[path[i].n] \in Seq(Nat)
  BY <1>1, <1>3 DEF Missing
<1>5. <<>> \in Seq(Nat)
  OBVIOUS
<1>. QED
  BY <1>1, <1>4, <1>5 DEF Missing

\* A repair commits cancelled results, or nothing.
Commits(k, j, new) ==
  /\ new \in Seq(Entries)
  /\ GrowsOn(new, {0} \cup IdsOf(j.entries))
  /\ \E next \in Nat :
       /\ j.nextId <= next
       /\ \A id \in IdsOf(new) : j.nextId <= id /\ id < next
       /\ Has(k, j.entries \o new, j.staged, j.leaf, next)

\* What Repair makes of a journal,
LEMMA RepairIs ==
  ASSUME NEW j, JournalOK(j) PROVE \E new : Commits(Repair(j), j, new)
<1>. DEFINE path == Path(j.entries)
            broken == {i \in 1..Len(path) : Unanswered(path, i) # <<>>}
            i == CHOOSE i \in broken : \A k \in broken : i <= k
            calls == Unanswered(path, i)
            results == [k \in 1..Len(calls) |-> [role |-> "result", n |-> calls[k]]]
            hook == path[i + ResultsAfter(path, i)].id
            c == Chain(results, hook, j.nextId)
            z == j.nextId + Len(calls)
            S == {0} \cup IdsOf(j.entries)
<1>0. /\ j \in Journals
      /\ j.entries \in Seq(Entries) /\ j.nextId \in Nat /\ j.nextId \in Nat \ {0}
      /\ GrowsOn(j.entries, {0}) /\ IdsOf(j.entries) \subseteq Nat
      /\ \A id \in IdsOf(j.entries) \cup IdsOf(j.staged) : id < j.nextId
  BY JournalParts, Zenon
<1>1. path \in Seq(Entries) /\ \A k \in 1..Len(path) : path[k].id \in IdsOf(j.entries)
  BY <1>0, PathMembers DEF Path
<1>2. Repair(j) = IF broken = {} THEN j
                  ELSE [j EXCEPT !.entries = @ \o c, !.nextId = @ + Len(calls)]
  BY Zenon DEF Repair
<1>. HIDE DEF path
<1>3. ASSUME broken = {} PROVE Commits(Repair(j), j, <<>>)
  <2>1. <<>> \in Seq(Entries) /\ j.entries \o <<>> = j.entries
    BY <1>0
  <2>2. GrowsOn(<<>>, {0} \cup IdsOf(j.entries)) /\ IdsOf(<<>>) = {}
    BY GrowsNothing
  <2>3. j.nextId \in Nat /\ j.nextId <= j.nextId
    BY <1>0
  <2>4. Has(j, j.entries, j.staged, j.leaf, j.nextId)
    BY <1>0, Zenon DEF Has
  <2>5. \A id \in IdsOf(<<>>) : j.nextId <= id /\ id < j.nextId
    BY <2>2, Zenon
  <2>6. Repair(j) = j
    BY <1>2, <1>3
  <2>. QED
    BY <2>1, <2>2, <2>3, <2>4, <2>5, <2>6, Zenon DEF Commits
<1>4. ASSUME broken # {} PROVE Commits(Repair(j), j, c)
  <2>1. i \in 1..Len(path)
    <3>1. broken \subseteq Nat
      OBVIOUS
    <3>2. \E k \in broken : \A m \in broken : k <= m
      <4>. HIDE DEF broken
      <4>. QED
        BY <1>4, <3>1, LeastExists
    <3>3. i \in broken
      <4>. HIDE DEF broken
      <4>. QED
        BY <3>2
    <3>. QED
      BY <3>3, Zenon
  <2>. HIDE DEF i, broken
  <2>2. calls \in Seq(Nat)
    BY <1>1, <2>1, UnansweredTyped
  <2>3. hook \in IdsOf(j.entries)
    <3>1. i + ResultsAfter(path, i) \in 1..Len(path)
      BY <1>1, <2>1, ResultsAfterIs
    <3>. QED
      BY <1>1, <3>1
  <2>. HIDE DEF calls, hook
  <2>4. results \in Seq(Kept) /\ Len(results) = Len(calls)
    <3>1. Len(calls) \in Nat
      BY <2>2
    <3>2. ASSUME NEW k \in 1..Len(calls)
          PROVE  [role |-> "result", n |-> calls[k]] \in Kept
      <4>1. calls[k] \in Nat
        BY <2>2
      <4>. QED
        BY <4>1 DEF Kept, MessageRoles
    <3>3. results \in [1..Len(calls) -> Kept]
      BY <3>2
    <3>. HIDE DEF results
    <3>. QED
      BY <3>1, <3>3, SeqDef
  <2>. HIDE DEF results
  <2>5. hook \in Nat /\ hook \in S /\ \A id \in S : id \in Nat /\ id < j.nextId
    BY <1>0, <2>3
  <2>6. c \in Seq(Entries)
    BY <1>0, <2>4, <2>5, ChainIs
  <2>7. GrowsOn(c, S)
    <3>. HIDE DEF S
    <3>. QED
      BY <1>0, <2>4, <2>5, ChainGrows
  <2>8. \A id \in IdsOf(c) : j.nextId <= id /\ id < z
    BY <1>0, <2>4, <2>5, ChainIds
  <2>. HIDE DEF c
  <2>9. z \in Nat /\ z \in Nat \ {0} /\ j.nextId <= z
    BY <1>0, <2>2
  <2>10. j.entries \o c \in Seq(Entries)
    BY <1>0, <2>6, IdsOfConcat
  <2>. DEFINE a == j.entries \o c
  <2>11. Repair(j) = [j EXCEPT !.entries = a, !.nextId = z]
    BY <1>2, <1>4
  <2>. HIDE DEF z
  <2>12. Has([j EXCEPT !.entries = a, !.nextId = z], a, j.staged, j.leaf, z)
    <3>1. 0 \in Nat
      OBVIOUS
    <3>2. z \in Nat \ {0} /\ a \in Seq(Entries) /\ j \in Journals
      BY <1>0, <2>9, <2>10
    <3>3. z \in Nat \ {0}
      BY <3>2
    <3>4. a \in Seq(Entries)
      BY <3>2
    <3>5. j \in Journals
      BY <3>2
    <3>. HIDE DEF a
    <3>. QED
      BY <3>1, <3>3, <3>4, <3>5, UpdatedOtherwise, Zenon
  <2>13. Has(Repair(j), j.entries \o c, j.staged, j.leaf, z)
    BY <2>11, <2>12, Zenon
  <2>14. GrowsOn(c, {0} \cup IdsOf(j.entries))
    BY <2>7
  <2>. QED
    BY <2>6, <2>8, <2>9, <2>13, <2>14, Zenon DEF Commits
<1>. QED
  BY <1>3, <1>4, Zenon

\* ... which stays a tree that only grew.
LEMMA RepairKeeps ==
  ASSUME NEW j, JournalOK(j)
  PROVE  /\ JournalOK(Repair(j))
         /\ \E new \in Seq(Entries) : Repair(j).entries = j.entries \o new
<1>1. PICK new : Commits(Repair(j), j, new)
  BY RepairIs, Zenon
<1>2. PICK next \in Nat :
        /\ j.nextId <= next
        /\ \A id \in IdsOf(new) : j.nextId <= id /\ id < next
        /\ Has(Repair(j), j.entries \o new, j.staged, j.leaf, next)
  BY <1>1 DEF Commits
<1>3. new \in Seq(Entries) /\ GrowsOn(new, {0} \cup IdsOf(j.entries))
  BY <1>1 DEF Commits
<1>4. JournalOK(Repair(j))
  BY <1>2, <1>3, CommitKeeps, Zenon
<1>. QED
  BY <1>2, <1>3, <1>4, Zenon DEF Has

-----------------------------------------------------------------------------
(* What is read back *)

\* The last entry of a path with one of these roles.
LEMMA LastOfIs ==
  ASSUME NEW path \in Seq(Entries), NEW roles
  PROVE  /\ LastOf(path, roles) \in 0..Len(path)
         /\ LastOf(path, roles) # 0 => path[LastOf(path, roles)].role \in roles
         /\ \A q \in (LastOf(path, roles) + 1)..Len(path) : path[q].role \notin roles
<1>. DEFINE D == {p \in 1..Len(path) : path[p].role \in roles}
            Is(p) == /\ path[p].role \in roles
                     /\ \A q \in (p + 1)..Len(path) : path[q].role \notin roles
            c == CHOOSE p \in 1..Len(path) : Is(p)
<1>1. Len(path) \in Nat
  OBVIOUS
<1>2. CASE D = {}
  <2>1. LastOf(path, roles) = 0
    BY <1>2 DEF LastOf
  <2>. QED
    BY <1>1, <1>2, <2>1
<1>3. CASE D # {}
  <2>1. D \subseteq 0..Len(path)
    OBVIOUS
  <2>2. PICK p \in D : \A q \in D : q <= p
    <3>. HIDE DEF D
    <3>. QED
      BY <1>1, <1>3, <2>1, GreatestExists
  <2>3. p \in 1..Len(path) /\ Is(p)
    <3>1. ASSUME NEW q \in (p + 1)..Len(path) PROVE q \notin D
      <4>1. ~(q <= p)
        OBVIOUS
      <4>. HIDE DEF D
      <4>. QED
        BY <2>2, <4>1
    <3>. QED
      BY <1>1, <3>1
  <2>4. c \in 1..Len(path) /\ Is(c)
    <3>. HIDE DEF Is
    <3>. QED
      BY <2>3
  <2>5. LastOf(path, roles) = c
    BY <2>3, Zenon DEF LastOf
  <2>. HIDE DEF c
  <2>. QED
    BY <2>4, <2>5
<1>. QED
  BY <1>2, <1>3

\* The settings and the summary a resume restores are numbers.
LEMMA SettingsTyped ==
  ASSUME NEW es \in Seq(Entries), GrowsOn(es, {0})
  PROVE  ContextMode(es) \in Nat /\ ContextEffort(es) \in Nat /\ ContextSummary(es) \in Nat
<1>. DEFINE path == Path(es)
            m == LastOf(path, {"mode"})
            e == LastOf(path, {"effort"})
            c == LastOf(path, {"compaction"})
<1>1. path \in Seq(Entries)
  BY PathMembers DEF Path
<1>2. /\ ContextMode(es) = IF m = 0 THEN 0 ELSE path[m].n
      /\ ContextEffort(es) = IF e <= c THEN 0 ELSE path[e].n
      /\ ContextSummary(es) = IF c # 0 /\ path[c].n = 1 THEN path[c].id ELSE 0
  BY Zenon DEF ContextMode, ContextEffort, ContextSummary
<1>. HIDE DEF path
<1>3. m \in 0..Len(path) /\ e \in 0..Len(path) /\ c \in 0..Len(path)
  BY <1>1, LastOfIs
<1>. HIDE DEF m, e, c
<1>4. \A k \in 1..Len(path) : path[k].n \in Nat /\ path[k].id \in Nat
  BY <1>1, EntryFields
<1>5. /\ m # 0 => m \in 1..Len(path)
      /\ ~(e <= c) => e \in 1..Len(path)
      /\ c # 0 => c \in 1..Len(path)
  BY <1>3
<1>. QED
  BY <1>2, <1>4, <1>5

\* The table of the messages of a path up to each entry, in a set that has those of
\* its message entries.
Readings(f, path, M) ==
  /\ f \in [0..Len(path) -> Seq(M)] /\ f[0] = <<>>
  /\ \A k \in 1..Len(path) :
       f[k] = IF IsMessage(path[k]) THEN Append(f[k - 1], MessageOf(path[k]))
              ELSE f[k - 1]
  /\ MessagesOf(path) = f[Len(path)]

\* There is such a table.
LEMMA MessagesSteps ==
  ASSUME NEW path \in Seq(Entries), NEW M, Kept \subseteq M
  PROVE  \E f : Readings(f, path, M)
<1>. DEFINE n == Len(path)
            S == Seq(M)
            prev == [k \in 1..n |-> k - 1]
            g == [k \in 1..n |->
                    [s \in S |-> IF IsMessage(path[k]) THEN Append(s, MessageOf(path[k]))
                                 ELSE s]]
            Step(f) == [k \in 0..n |->
                          IF k = 0 THEN <<>>
                          ELSE IF IsMessage(path[k])
                          THEN Append(f[k - 1], MessageOf(path[k])) ELSE f[k - 1]]
            upTo == CHOOSE f : f = Step(f)
<1>1. n \in Nat /\ <<>> \in S
  OBVIOUS
<1>2. \A k \in 1..n : IsMessage(path[k]) => MessageOf(path[k]) \in M
  <2>1. \A k \in 1..n : path[k].role \in EntryRoles /\ path[k].n \in Nat
    BY EntryFields
  <2>. QED
    BY <2>1 DEF IsMessage, MessageOf, Kept
<1>. HIDE DEF n
<1>3. prev \in [1..n -> Nat] /\ \A k \in 1..n : prev[k] < k
  BY <1>1
<1>4. g \in [1..n -> [S -> S]]
  BY <1>1, <1>2
<1>5. PICK f : f \in [0..n -> S] /\ f[0] = <<>>
                 /\ \A k \in 1..n : f[k] = g[k][f[prev[k]]]
  <2>. HIDE DEF S, prev, g, upTo
  <2>1. \A k \in 1..n : prev[k] < k
    BY <1>3
  <2>2. prev \in [1..n -> Nat]
    BY <1>3
  <2>3. n \in Nat
    BY <1>1
  <2>4. <<>> \in S
    BY <1>1
  <2>5. \E f : IsTable(f, n, S, <<>>, prev, g)
    BY <1>4, <2>1, <2>2, <2>3, <2>4, TableExists, Zenon
  <2>. QED
    BY <2>5, Zenon DEF IsTable
<1>6. f = Step(f)
  <2>1. ASSUME NEW k \in 1..n
        PROVE  f[k] = IF IsMessage(path[k]) THEN Append(f[k - 1], MessageOf(path[k]))
                      ELSE f[k - 1]
    <3>1. k - 1 \in 0..n
      BY <1>1
    <3>2. f[k - 1] \in S
      BY <1>5, <3>1
    <3>. QED
      BY <1>5, <3>2
  <2>2. \A k \in 0..n : k = 0 \/ k \in 1..n
    BY <1>1
  <2>. QED
    BY <1>5, <2>1, <2>2
<1>7. upTo = Step(upTo)
  BY <1>6, Zenon
<1>. HIDE DEF upTo
<1>8. \A k \in 0..n : upTo[k] \in S
  <2>. DEFINE G == {k \in 0..n : upTo[k] \in S}
  <2>1. 0 \in G
    <3>1. 0 \in 0..n
      BY <1>1
    <3>2. upTo[0] = <<>>
      BY <1>7, <3>1, Zenon
    <3>. QED
      BY <1>1, <3>1, <3>2, Zenon
  <2>2. ASSUME NEW k \in 1..n, \A m \in 0..(k - 1) : m \in G PROVE k \in G
    <3>1. k \in 0..n /\ k # 0 /\ k - 1 \in 0..(k - 1)
      BY <1>1
    <3>2. upTo[k - 1] \in S
      BY <2>2, <3>1
    <3>3. upTo[k] = IF IsMessage(path[k]) THEN Append(upTo[k - 1], MessageOf(path[k]))
                    ELSE upTo[k - 1]
      BY <1>7, <3>1, Zenon
    <3>4. upTo[k] \in S
      <4>. HIDE DEF G
      <4>. QED
        BY <1>2, <3>2, <3>3
    <3>. QED
      BY <3>1, <3>4, Zenon
  <2>3. \A k \in 0..n : k \in G
    <3>. HIDE DEF G
    <3>. QED
      BY <1>1, <2>1, <2>2, UpToInduction, Zenon
  <2>. QED
    BY <2>3
<1>9. upTo \in [0..n -> S]
  <2>1. upTo = [k \in 0..n |-> upTo[k]]
    BY <1>7, Zenon
  <2>. QED
    BY <1>8, <2>1
<1>10. MessagesOf(path) = upTo[n]
  BY Zenon DEF MessagesOf, upTo, n
<1>11. upTo[0] = <<>>
  <2>1. 0 \in 0..n
    BY <1>1
  <2>. QED
    BY <1>7, <2>1, Zenon
<1>12. ASSUME NEW k \in 1..n
       PROVE  upTo[k] = IF IsMessage(path[k]) THEN Append(upTo[k - 1], MessageOf(path[k]))
                        ELSE upTo[k - 1]
  <2>1. k \in 0..n /\ k # 0
    BY <1>1
  <2>. QED
    BY <1>7, <2>1, Zenon
<1>. HIDE DEF S
<1>13. Readings(upTo, path, M)
  BY <1>9, <1>10, <1>11, <1>12 DEF Readings, n, S
<1>. QED
  BY <1>13

\* The messages of a path, in a set that has those of its message entries.
LEMMA MessagesOfTyped ==
  ASSUME NEW path \in Seq(Entries), NEW M, Kept \subseteq M
  PROVE  MessagesOf(path) \in Seq(M)
<1>1. PICK f : Readings(f, path, M)
  BY MessagesSteps
<1>2. Len(path) \in 0..Len(path)
  OBVIOUS
<1>. QED
  BY <1>1, <1>2 DEF Readings

\* The context a resume restores is made of messages.
LEMMA ContextTyped ==
  ASSUME NEW es \in Seq(Entries), GrowsOn(es, {0}), NEW M, Kept \subseteq M,
         Checkpoint \in M
  PROVE  ContextMessages(es) \in Seq(M)
<1>. DEFINE path == Path(es)
            c == LastOf(path, {"compaction"})
            tail == SubSeq(path, c + 1, Len(path))
            head == IF c = 0 THEN <<>> ELSE <<Checkpoint>>
<1>1. path \in Seq(Entries)
  BY PathMembers DEF Path
<1>2. ContextMessages(es) = head \o MessagesOf(tail)
  BY Zenon DEF ContextMessages
<1>. HIDE DEF path
<1>3. c \in 0..Len(path)
  BY <1>1, LastOfIs
<1>. HIDE DEF c
<1>4. tail \in Seq(Entries)
  BY <1>1, <1>3
<1>5. head \in Seq(M)
  OBVIOUS
<1>6. MessagesOf(tail) \in Seq(M)
  <2>. HIDE DEF tail
  <2>. QED
    BY <1>4, MessagesOfTyped
<1>. QED
  BY <1>2, <1>5, <1>6

-----------------------------------------------------------------------------
(* What a reader of the journal sees *)

\* The messages on the path to an entry.
Seen(es, id) ==
  LET path == PathFrom(es, id)
  IN  {path[k].id : k \in {i \in 1..Len(path) : IsMessage(path[i])}}

\* An entry adds itself to what its parent sees.
LEMMA SeenSteps ==
  ASSUME NEW es \in Seq(Entries), GrowsOn(es, {0})
  PROVE  /\ Seen(es, 0) = {}
         /\ \A p \in 1..Len(es) :
              Seen(es, es[p].id) = Seen(es, es[p].parent)
                                   \cup (IF IsMessage(es[p]) THEN {es[p].id} ELSE {})
<1>1. PathFrom(es, 0) = <<>>
  BY Paths, Zenon
<1>2. Seen(es, 0) = {}
  BY <1>1 DEF Seen
<1>3. ASSUME NEW p \in 1..Len(es)
      PROVE  Seen(es, es[p].id) = Seen(es, es[p].parent)
                                   \cup (IF IsMessage(es[p]) THEN {es[p].id} ELSE {})
  <2>. DEFINE s == PathFrom(es, es[p].parent)
              t == PathFrom(es, es[p].id)
              e == es[p]
  <2>1. s \in Seq(Entries) /\ t = Append(s, e)
    BY Paths, PathMembers
  <2>2. /\ Seen(es, es[p].id) = {t[k].id : k \in {i \in 1..Len(t) : IsMessage(t[i])}}
        /\ Seen(es, es[p].parent) = {s[k].id : k \in {i \in 1..Len(s) : IsMessage(s[i])}}
    BY Zenon DEF Seen
  <2>3. e \in Entries
    OBVIOUS
  <2>. HIDE DEF s, t, e
  <2>4. /\ Len(t) = Len(s) + 1 /\ t[Len(s) + 1] = e
        /\ \A k \in 1..Len(s) : t[k] = s[k]
        /\ 1..Len(t) = (1..Len(s)) \cup {Len(s) + 1}
    BY <2>1, <2>3
  <2>. DEFINE T == {t[k].id : k \in {i \in 1..Len(t) : IsMessage(t[i])}}
              U == {s[k].id : k \in {i \in 1..Len(s) : IsMessage(s[i])}}
              V == IF IsMessage(e) THEN {e.id} ELSE {}
  <2>5. ASSUME NEW x \in T PROVE x \in U \cup V
    <3>1. PICK k \in 1..Len(t) : IsMessage(t[k]) /\ x = t[k].id
      OBVIOUS
    <3>2. CASE k \in 1..Len(s)
      BY <2>4, <3>1, <3>2
    <3>3. CASE k = Len(s) + 1
      BY <2>4, <3>1, <3>3
    <3>. QED
      BY <2>4, <3>2, <3>3
  <2>6. ASSUME NEW x \in U \cup V PROVE x \in T
    <3>1. CASE x \in U
      <4>1. PICK k \in 1..Len(s) : IsMessage(s[k]) /\ x = s[k].id
        BY <3>1
      <4>2. k \in 1..Len(t) /\ t[k] = s[k]
        BY <2>4
      <4>. QED
        BY <4>1, <4>2
    <3>2. CASE x \in V
      <4>1. IsMessage(e) /\ x = e.id
        BY <3>2
      <4>2. Len(s) + 1 \in 1..Len(t)
        BY <2>4
      <4>. QED
        BY <2>4, <4>1, <4>2
    <3>. QED
      BY <3>1, <3>2
  <2>7. T = U \cup V
    BY <2>5, <2>6
  <2>. QED
    BY <2>2, <2>7 DEF e
<1>. QED
  BY <1>2, <1>3

\* Every entry of a is in b, under its own parent or one put in between.
Carries(a, b) ==
  \A p \in 1..Len(a) : \E q \in 1..Len(b) :
    /\ b[q].id = a[p].id /\ b[q].role = a[p].role
    /\ \/ b[q].parent = a[p].parent
       \/ \E r \in 1..Len(b) : b[r].id = b[q].parent /\ b[r].parent = a[p].parent

\* ... and so are the messages seen from each of them.
LEMMA CarriedIsSeen ==
  ASSUME NEW a \in Seq(Entries), GrowsOn(a, {0}), NEW b \in Seq(Entries), GrowsOn(b, {0}),
         Carries(a, b)
  PROVE  \A id \in {0} \cup IdsOf(a) : Seen(a, id) \subseteq Seen(b, id)
<1>. DEFINE n == Len(a)
            G == {k \in 0..n : k = 0 \/ Seen(a, a[k].id) \subseteq Seen(b, a[k].id)}
<1>1. n \in Nat /\ 0 \in G
  OBVIOUS
<1>2. ASSUME NEW k \in 1..n, \A m \in 0..(k - 1) : m \in G PROVE k \in G
  <2>1. Seen(a, a[k].parent) \subseteq Seen(b, a[k].parent)
    <3>1. CASE a[k].parent = 0
      BY <3>1, SeenSteps
    <3>2. CASE a[k].parent # 0
      <4>1. PICK q \in 1..(k - 1) : a[q].id = a[k].parent
        BY <3>2 DEF GrowsOn
      <4>2. q \in 0..(k - 1) /\ q # 0
        OBVIOUS
      <4>3. q \in G
        <5>. HIDE DEF G
        <5>. QED
          BY <1>2, <4>2
      <4>. QED
        BY <4>1, <4>2, <4>3
    <3>. QED
      BY <3>1, <3>2
  <2>2. PICK q \in 1..Len(b) :
          /\ b[q].id = a[k].id /\ b[q].role = a[k].role
          /\ \/ b[q].parent = a[k].parent
             \/ \E r \in 1..Len(b) : b[r].id = b[q].parent /\ b[r].parent = a[k].parent
    BY DEF Carries
  <2>3. Seen(b, a[k].parent) \subseteq Seen(b, b[q].parent)
    <3>1. CASE b[q].parent = a[k].parent
      BY <3>1
    <3>2. CASE \E r \in 1..Len(b) : b[r].id = b[q].parent /\ b[r].parent = a[k].parent
      <4>1. PICK r \in 1..Len(b) : b[r].id = b[q].parent /\ b[r].parent = a[k].parent
        BY <3>2
      <4>. QED
        BY <4>1, SeenSteps
    <3>. QED
      BY <2>2, <3>1, <3>2
  <2>4. /\ Seen(a, a[k].id) = Seen(a, a[k].parent)
                              \cup (IF IsMessage(a[k]) THEN {a[k].id} ELSE {})
        /\ Seen(b, b[q].id) = Seen(b, b[q].parent)
                              \cup (IF IsMessage(b[q]) THEN {b[q].id} ELSE {})
    BY SeenSteps
  <2>5. IsMessage(a[k]) = IsMessage(b[q])
    BY <2>2 DEF IsMessage
  <2>6. Seen(a, a[k].id) \subseteq Seen(b, a[k].id)
    BY <2>1, <2>2, <2>3, <2>4, <2>5
  <2>7. k \in 0..n
    OBVIOUS
  <2>. QED
    BY <2>6, <2>7, Zenon
<1>3. \A k \in 0..n : k \in G
  <2>. HIDE DEF G
  <2>. QED
    BY <1>1, <1>2, UpToInduction, Zenon
<1>4. ASSUME NEW p \in 1..n PROVE Seen(a, a[p].id) \subseteq Seen(b, a[p].id)
  <2>1. p \in 0..n /\ p # 0
    OBVIOUS
  <2>. QED
    BY <1>3, <2>1, Zenon
<1>5. Seen(a, 0) = {}
  BY SeenSteps
<1>. QED
  BY <1>4, <1>5 DEF IdsOf

\* More entries at the end change nothing of what is seen from those before.
LEMMA SeenBefore ==
  ASSUME NEW a \in Seq(Entries), GrowsOn(a, {0}), NEW c \in Seq(Entries),
         GrowsOn(a \o c, {0})
  PROVE  \A id \in {0} \cup IdsOf(a) : Seen(a \o c, id) = Seen(a, id)
<1>. DEFINE n == Len(a)
            b == a \o c
            G == {k \in 0..n : k = 0 \/ Seen(b, a[k].id) = Seen(a, a[k].id)}
<1>1. n \in Nat /\ 0 \in G
  OBVIOUS
<1>2. /\ b \in Seq(Entries) /\ GrowsOn(b, {0})
      /\ \A p \in 1..n : b[p] = a[p] /\ p \in 1..Len(b)
  BY IdsOfConcat
<1>. HIDE DEF b
<1>3. ASSUME NEW k \in 1..n, \A m \in 0..(k - 1) : m \in G PROVE k \in G
  <2>1. Seen(b, a[k].parent) = Seen(a, a[k].parent)
    <3>1. CASE a[k].parent = 0
      BY <1>2, <3>1, SeenSteps
    <3>2. CASE a[k].parent # 0
      <4>1. PICK q \in 1..(k - 1) : a[q].id = a[k].parent
        BY <3>2 DEF GrowsOn
      <4>2. q \in 0..(k - 1) /\ q # 0
        OBVIOUS
      <4>3. q \in G
        <5>. HIDE DEF G
        <5>. QED
          BY <1>3, <4>2
      <4>. QED
        BY <4>1, <4>2, <4>3
    <3>. QED
      BY <3>1, <3>2
  <2>2. /\ Seen(a, a[k].id) = Seen(a, a[k].parent)
                              \cup (IF IsMessage(a[k]) THEN {a[k].id} ELSE {})
        /\ Seen(b, b[k].id) = Seen(b, b[k].parent)
                              \cup (IF IsMessage(b[k]) THEN {b[k].id} ELSE {})
    BY <1>2, SeenSteps
  <2>3. Seen(b, a[k].id) = Seen(a, a[k].id)
    BY <1>2, <2>1, <2>2
  <2>4. k \in 0..n
    OBVIOUS
  <2>. QED
    BY <2>3, <2>4, Zenon
<1>4. \A k \in 0..n : k \in G
  <2>. HIDE DEF G
  <2>. QED
    BY <1>1, <1>3, UpToInduction, Zenon
<1>5. ASSUME NEW p \in 1..n PROVE Seen(b, a[p].id) = Seen(a, a[p].id)
  <2>1. p \in 0..n /\ p # 0
    OBVIOUS
  <2>. QED
    BY <1>4, <2>1, Zenon
<1>6. Seen(a, 0) = {} /\ Seen(b, 0) = {}
  BY <1>2, SeenSteps
<1>. QED
  BY <1>5, <1>6 DEF IdsOf, b

\* Concatenation is associative.
LEMMA ConcatTwice ==
  \A s, t, u \in Seq(Entries) : (s \o t) \o u = s \o (t \o u)
OBVIOUS

\* Everything a reader of the thread is shown, and where that reader starts.
All(j) == j.entries \o j.staged
Tip(j) == IF j.staged = <<>> THEN LeafId(j.entries) ELSE j.leaf
Shown(j) == Seen(All(j), Tip(j))

\* The entry the next one hangs from is below everything shown.
LeafSeesAll(j) == Shown(j) \subseteq Seen(All(j), j.leaf)

\* All the entries of a journal are a tree, with its tip and its leaf.
LEMMA AllIs ==
  ASSUME NEW j, JournalOK(j)
  PROVE  /\ All(j) \in Seq(Entries) /\ GrowsOn(All(j), {0})
         /\ IdsOf(All(j)) = IdsOf(j.entries) \cup IdsOf(j.staged)
         /\ Tip(j) \in {0} \cup IdsOf(All(j)) /\ j.leaf \in {0} \cup IdsOf(All(j))
         /\ j.staged # <<>> => Tip(j) = j.leaf
<1>1. /\ j.entries \in Seq(Entries) /\ j.staged \in Seq(Entries)
      /\ GrowsOn(j.entries, {0}) /\ GrowsOn(j.staged, {0} \cup IdsOf(j.entries))
      /\ j.leaf \in {0} \cup IdsOf(j.entries) \cup IdsOf(j.staged)
  BY JournalParts, Zenon
<1>2. All(j) \in Seq(Entries) /\ IdsOf(All(j)) = IdsOf(j.entries) \cup IdsOf(j.staged)
  BY <1>1, IdsOfConcat, Zenon DEF All
<1>3. GrowsOn(All(j), {0})
  BY <1>1, GrowsByConcat, Zenon DEF All
<1>4. LeafId(j.entries) \in {0} \cup IdsOf(j.entries)
  BY <1>1, LeafIdIs, Zenon
<1>5. Tip(j) \in {LeafId(j.entries), j.leaf} /\ (j.staged # <<>> => Tip(j) = j.leaf)
  BY DEF Tip
<1>. QED
  BY <1>1, <1>2, <1>3, <1>4, <1>5

\* A new entry at the end shows what its parent shows.
LEMMA ParentIsSeen ==
  ASSUME NEW a \in Seq(Entries), GrowsOn(a, {0}), NEW e \in Entries,
         NEW b, b = a \o <<e>>, GrowsOn(b, {0})
  PROVE  /\ \A id \in {0} \cup IdsOf(a) : Seen(b, id) = Seen(a, id)
         /\ Seen(b, e.id)
              = Seen(b, e.parent) \cup (IF IsMessage(e) THEN {e.id} ELSE {})
<1>1. <<e>> \in Seq(Entries)
  OBVIOUS
<1>2. GrowsOn(a \o <<e>>, {0})
  OBVIOUS
<1>3. \A id \in {0} \cup IdsOf(a) : Seen(a \o <<e>>, id) = Seen(a, id)
  BY <1>1, <1>2, SeenBefore, Zenon
<1>4. /\ b \in Seq(Entries) /\ Len(a) + 1 \in 1..Len(b) /\ b[Len(a) + 1] = e
  OBVIOUS
<1>5. \A p \in 1..Len(b) : Seen(b, b[p].id) = Seen(b, b[p].parent)
                                   \cup (IF IsMessage(b[p]) THEN {b[p].id} ELSE {})
  BY <1>4, SeenSteps, Zenon
<1>6. Seen(b, b[Len(a) + 1].id) = Seen(b, b[Len(a) + 1].parent)
            \cup (IF IsMessage(b[Len(a) + 1]) THEN {b[Len(a) + 1].id} ELSE {})
  BY <1>4, <1>5, Zenon
<1>. QED
  BY <1>3, <1>4, <1>6, Zenon

\* The end of a chain shows what the entry it hangs from shows.
LEMMA ChainIsSeen ==
  ASSUME NEW a \in Seq(Entries), GrowsOn(a, {0}), NEW ms \in Seq(Kept), ms # <<>>,
         NEW parent \in {0} \cup IdsOf(a), parent \in Nat, NEW next \in Nat \ {0},
         GrowsOn(a \o Chain(ms, parent, next), {0})
  PROVE  Seen(a, parent)
           \subseteq Seen(a \o Chain(ms, parent, next), next + Len(ms) - 1)
<1>. DEFINE c == Chain(ms, parent, next)
            b == a \o c
            n == Len(ms)
            G == {k \in 0..n : k = 0 \/ Seen(a, parent) \subseteq Seen(b, next + k - 1)}
<1>1. /\ c \in Seq(Entries) /\ Len(c) = n /\ n \in Nat /\ n # 0
      /\ \A p \in 1..n : /\ c[p].id = next + p - 1
                         /\ c[p].parent = IF p = 1 THEN parent ELSE next + p - 2
  <2>1. n \in Nat /\ n # 0
    BY EmptySeq
  <2>. QED
    BY <2>1, ChainIs
<1>. HIDE DEF c
<1>2. /\ b \in Seq(Entries) /\ \A p \in 1..n : Len(a) + p \in 1..Len(b) /\ b[Len(a) + p] = c[p]
  BY <1>1
<1>3. GrowsOn(b, {0})
  BY DEF c
<1>4. Seen(b, parent) = Seen(a, parent)
  BY <1>1, <1>3, SeenBefore
<1>. HIDE DEF b
<1>5. ASSUME NEW p \in 1..n
      PROVE  Seen(b, c[p].parent) \subseteq Seen(b, c[p].id)
  BY <1>2, <1>3, SeenSteps
<1>6. 0 \in G
  BY <1>1
<1>7. ASSUME NEW k \in 1..n, \A m \in 0..(k - 1) : m \in G PROVE k \in G
  <2>0. k \in 0..n /\ k \in Nat /\ k # 0
    BY <1>1
  <2>1. CASE k = 1
    <3>1. c[1].id = next + 1 - 1 /\ c[1].parent = parent
      BY <1>1, <2>1
    <3>2. Seen(a, parent) \subseteq Seen(b, next + k - 1)
      BY <1>4, <1>5, <2>1, <3>1
    <3>. QED
      BY <2>0, <3>2
  <2>2. CASE k # 1
    <3>1. k - 1 \in 0..(k - 1) /\ k - 1 # 0
      BY <2>0, <2>2
    <3>2. k - 1 \in G
      <4>. HIDE DEF G
      <4>. QED
        BY <1>7, <3>1
    <3>3. Seen(a, parent) \subseteq Seen(b, next + (k - 1) - 1)
      BY <3>1, <3>2
    <3>4. c[k].id = next + k - 1 /\ c[k].parent = next + (k - 1) - 1
      BY <1>1, <2>0, <2>2
    <3>5. Seen(a, parent) \subseteq Seen(b, next + k - 1)
      BY <1>5, <3>3, <3>4
    <3>. QED
      BY <2>0, <3>5
  <2>. QED
    BY <2>1, <2>2
<1>8. n \in G
  <2>1. \A k \in 0..n : k \in G
    <3>. HIDE DEF G
    <3>. QED
      BY <1>1, <1>6, <1>7, UpToInduction, Zenon
  <2>2. n \in 0..n
    BY <1>1
  <2>. QED
    BY <2>1, <2>2, Zenon
<1>. QED
  BY <1>1, <1>8 DEF b, c

\* Staging messages, a flush, an entry that is no message and a checkpoint take
\* nothing away of what is shown.
LEMMA StageShows ==
  ASSUME NEW j, JournalOK(j), LeafSeesAll(j), NEW ms \in Seq(Kept)
  PROVE  LeafSeesAll(Stage(j, ms)) /\ Shown(j) \subseteq Shown(Stage(j, ms))
<1>. DEFINE k == Stage(j, ms)
            c == Chain(ms, j.leaf, j.nextId)
<1>1. /\ j \in Journals /\ j.entries \in Seq(Entries) /\ j.staged \in Seq(Entries)
      /\ j.leaf \in Nat /\ j.nextId \in Nat \ {0}
  BY JournalParts, Zenon
<1>2. /\ k.entries = j.entries /\ k.staged = j.staged \o c
      /\ k.leaf = IF ms = <<>> THEN j.leaf ELSE j.nextId + Len(ms) - 1
  BY <1>1, StageIs, Zenon DEF Has
<1>3. c \in Seq(Entries) /\ Len(c) = Len(ms)
  BY <1>1, ChainIs
<1>4. JournalOK(k)
  BY StageKeeps
<1>5. /\ All(j) \in Seq(Entries) /\ GrowsOn(All(j), {0}) /\ j.leaf \in {0} \cup IdsOf(All(j))
  BY AllIs, Zenon
<1>6. GrowsOn(All(k), {0}) /\ (k.staged # <<>> => Tip(k) = k.leaf)
  BY <1>4, AllIs, Zenon
<1>. HIDE DEF k
<1>7. All(k) = All(j) \o c
  <2>. HIDE DEF c
  <2>1. All(k) = j.entries \o (j.staged \o c) /\ All(j) = j.entries \o j.staged
    BY <1>2, Zenon DEF All
  <2>2. (j.entries \o j.staged) \o c = j.entries \o (j.staged \o c)
    BY <1>1, <1>3, ConcatTwice, Zenon
  <2>. QED
    BY <2>1, <2>2, Zenon
<1>8. CASE ms = <<>>
  <2>1. c = <<>>
    BY <1>3, <1>8, EmptySeq
  <2>2. k.staged = j.staged /\ All(k) = All(j) /\ k.leaf = j.leaf
    <3>. HIDE DEF c
    <3>. QED
      BY <1>1, <1>2, <1>5, <1>7, <1>8, <2>1
  <2>3. Tip(k) = Tip(j)
    BY <1>2, <2>2 DEF Tip
  <2>. QED
    BY <2>2, <2>3 DEF LeafSeesAll, Shown, k
<1>9. CASE ms # <<>>
  <2>1. k.staged # <<>>
    <3>1. Len(c) > 0
      BY <1>3, <1>9, EmptySeq
    <3>. HIDE DEF c
    <3>2. Len(j.staged \o c) > 0
      BY <1>1, <1>3, <3>1
    <3>. QED
      BY <1>2, <3>2, EmptySeq
  <2>2. Tip(k) = j.nextId + Len(ms) - 1 /\ k.leaf = Tip(k)
    BY <1>2, <1>6, <1>9, <2>1
  <2>3. Seen(All(j), j.leaf) \subseteq Seen(All(k), Tip(k))
    <3>1. GrowsOn(All(j) \o c, {0})
      BY <1>6, <1>7
    <3>2. Seen(All(j), j.leaf) \subseteq Seen(All(j) \o c, j.nextId + Len(ms) - 1)
      BY <1>1, <1>5, <1>9, <3>1, ChainIsSeen
    <3>. QED
      BY <1>7, <2>2, <3>2
  <2>. QED
    BY <2>2, <2>3 DEF LeafSeesAll, Shown, k
<1>. QED
  BY <1>8, <1>9

\* ... a flush,
LEMMA FlushShows ==
  ASSUME NEW j, JournalOK(j), LeafSeesAll(j)
  PROVE  LeafSeesAll(Flush(j)) /\ Shown(j) = Shown(Flush(j))
<1>. DEFINE k == Flush(j)
<1>1. j \in Journals /\ j.entries \in Seq(Entries) /\ j.staged \in Seq(Entries)
      /\ (j.staged # <<>> => j.leaf = LeafId(j.staged))
  BY JournalParts, Zenon
<1>2. k.entries = All(j) /\ k.staged = <<>> /\ k.leaf = j.leaf
  BY <1>1, FlushIs, Zenon DEF Has, All
<1>. HIDE DEF k
<1>3. All(k) = All(j)
  <2>1. All(j) \in Seq(Entries)
    BY AllIs, Zenon
  <2>. QED
    BY <1>2, <2>1 DEF All
<1>4. Tip(k) = Tip(j)
  <2>1. Tip(k) = LeafId(j.entries \o j.staged)
    BY <1>2 DEF Tip, All
  <2>2. LeafId(j.entries \o j.staged)
          = IF j.staged = <<>> THEN LeafId(j.entries) ELSE LeafId(j.staged)
    BY <1>1, LeafOfConcat, Zenon
  <2>. QED
    BY <1>1, <2>1, <2>2 DEF Tip
<1>. QED
  BY <1>2, <1>3, <1>4 DEF LeafSeesAll, Shown, k

\* ... what is appended to the committed leaf,
LEMMA AppendShows ==
  ASSUME NEW j, JournalOK(j), NEW role \in EntryRoles \ MessageRoles, NEW n \in Nat
  PROVE  /\ Shown(j) \subseteq Shown(AppendCommitted(j, role, n))
         /\ LeafSeesAll(j) => LeafSeesAll(AppendCommitted(j, role, n))
<1>. DEFINE k == AppendCommitted(j, role, n)
            e == [id |-> j.nextId, parent |-> LeafId(j.entries), role |-> role, n |-> n]
<1>1. /\ j \in Journals /\ j.entries \in Seq(Entries) /\ j.staged \in Seq(Entries)
      /\ role \in EntryRoles
  BY JournalParts
<1>2. e \in Entries
  BY <1>1, AppendIs
<1>3. /\ k.entries = j.entries \o <<e>> /\ k.staged = j.staged /\ k.leaf = j.leaf
  BY <1>1, AppendIs, Zenon DEF Has
<1>4. JournalOK(k)
  BY <1>1, AppendKeeps
<1>5. ~IsMessage(e) /\ e.parent = LeafId(j.entries)
  BY DEF IsMessage
<1>6. /\ All(j) \in Seq(Entries) /\ GrowsOn(All(j), {0})
      /\ Tip(j) \in {0} \cup IdsOf(All(j)) /\ j.leaf \in {0} \cup IdsOf(All(j))
  BY AllIs, Zenon
<1>7. All(k) \in Seq(Entries) /\ GrowsOn(All(k), {0})
  BY <1>4, AllIs, Zenon
<1>. HIDE DEF k, e
<1>8. CASE j.staged = <<>>
  <2>1. /\ All(j) = j.entries /\ All(k) = j.entries \o <<e>>
        /\ Tip(j) = LeafId(j.entries) /\ Tip(k) = LeafId(j.entries \o <<e>>)
    BY <1>1, <1>2, <1>3, <1>8 DEF All, Tip
  <2>2. LeafId(j.entries \o <<e>>) = e.id
    BY <1>1, <1>2 DEF LeafId
  <2>3. /\ \A id \in {0} \cup IdsOf(All(j)) : Seen(All(k), id) = Seen(All(j), id)
        /\ Seen(All(k), e.id)
              = Seen(All(k), e.parent) \cup (IF IsMessage(e) THEN {e.id} ELSE {})
    <3>1. All(k) = All(j) \o <<e>>
      BY <2>1
    <3>2. /\ All(j) \in Seq(Entries) /\ GrowsOn(All(j), {0}) /\ GrowsOn(All(k), {0})
      BY <1>6, <1>7, Zenon
    <3>. QED
      BY <1>2, <1>6, <3>1, <3>2, ParentIsSeen
  <2>4. Seen(All(k), Tip(k)) = Seen(All(j), Tip(j))
    BY <1>5, <1>6, <2>1, <2>2, <2>3
  <2>5. Seen(All(k), k.leaf) = Seen(All(j), j.leaf)
    BY <1>3, <1>6, <2>3
  <2>. QED
    BY <2>4, <2>5 DEF LeafSeesAll, Shown, k
<1>9. CASE j.staged # <<>>
  <2>1. Tip(k) = j.leaf /\ k.leaf = j.leaf /\ Tip(j) = j.leaf
    BY <1>3, <1>9 DEF Tip
  <2>2. Carries(All(j), All(k))
    <3>. DEFINE a == j.entries
                s == j.staged
    <3>0. All(j) = a \o s /\ All(k) = (a \o <<e>>) \o s
      BY <1>3, Zenon DEF All
    <3>. HIDE DEF a, s
    <3>1. a \in Seq(Entries) /\ s \in Seq(Entries) /\ e \in Entries
      BY <1>1, <1>2 DEF a, s
    <3>2. ASSUME NEW p \in 1..Len(a \o s)
          PROVE  \E q \in 1..Len((a \o <<e>>) \o s) : ((a \o <<e>>) \o s)[q] = (a \o s)[p]
      <4>1. CASE p <= Len(a)
        <5>1. p \in 1..Len((a \o <<e>>) \o s) /\ ((a \o <<e>>) \o s)[p] = (a \o s)[p]
          BY <3>1, <4>1
        <5>. QED
          BY <5>1
      <4>2. CASE p > Len(a)
        <5>1. /\ p + 1 \in 1..Len((a \o <<e>>) \o s)
              /\ ((a \o <<e>>) \o s)[p + 1] = (a \o s)[p]
          BY <3>1, <4>2
        <5>. QED
          BY <5>1
      <4>3. p \in Int /\ Len(a) \in Int
        BY <3>1
      <4>. QED
        BY <4>1, <4>2, <4>3
    <3>. QED
      BY <3>0, <3>2 DEF Carries
  <2>3. Seen(All(j), j.leaf) \subseteq Seen(All(k), j.leaf)
    BY <1>6, <1>7, <2>2, CarriedIsSeen
  <2>. QED
    BY <2>1, <2>3 DEF LeafSeesAll, Shown, k
<1>. QED
  BY <1>8, <1>9 DEF k

\* ... and a checkpoint put before what is staged.
LEMMA CompactionShows ==
  ASSUME NEW j, JournalOK(j), LeafSeesAll(j), NEW native \in Nat
  PROVE  /\ LeafSeesAll(StageCompaction(j, native))
         /\ Shown(j) \subseteq Shown(StageCompaction(j, native))
<1>. DEFINE k == StageCompaction(j, native)
            base == IF j.staged = <<>> THEN j.leaf ELSE j.staged[1].parent
            e == CompactionEntry(j.nextId, base, native)
            r == Rehung(j.staged, j.nextId)
<1>1. /\ j.entries \in Seq(Entries) /\ j.staged \in Seq(Entries) /\ j.nextId \in Nat
      /\ GrowsOn(j.staged, {0} \cup IdsOf(j.entries))
  BY JournalParts, Zenon
<1>2. e \in Entries /\ r \in Seq(Entries)
  BY CompactionIs, Zenon
<1>3. /\ k.entries = j.entries /\ k.staged = <<e>> \o r
      /\ k.leaf = IF j.staged = <<>> THEN j.nextId ELSE j.leaf
  BY CompactionIs, Zenon DEF Has
<1>4. JournalOK(k)
  BY CompactionKeeps
<1>5. e.id = j.nextId /\ e.parent = base
  BY DEF CompactionEntry
<1>6. /\ All(j) \in Seq(Entries) /\ GrowsOn(All(j), {0})
      /\ Tip(j) \in {0} \cup IdsOf(All(j)) /\ j.leaf \in {0} \cup IdsOf(All(j))
      /\ (j.staged # <<>> => Tip(j) = j.leaf)
  BY AllIs, Zenon
<1>7. /\ All(k) \in Seq(Entries) /\ GrowsOn(All(k), {0})
      /\ (k.staged # <<>> => Tip(k) = k.leaf)
  BY <1>4, AllIs, Zenon
<1>8. Len(r) = Len(j.staged)
  BY DEF Rehung
<1>. HIDE DEF k, e, r
<1>9. k.staged # <<>>
  BY <1>2, <1>3
<1>10. Tip(k) = k.leaf
  BY <1>7, <1>9
<1>11. CASE j.staged = <<>>
  <2>1. All(j) = j.entries /\ All(k) = j.entries \o <<e>>
    <3>1. r = <<>>
      BY <1>2, <1>8, <1>11, EmptySeq
    <3>. QED
      BY <1>1, <1>2, <1>3, <1>11, <3>1 DEF All
  <2>2. e.id = k.leaf /\ e.parent = j.leaf
    BY <1>3, <1>5, <1>11
  <2>3. Seen(All(j), j.leaf) \subseteq Seen(All(k), k.leaf)
    <3>1. All(k) = All(j) \o <<e>>
      BY <2>1
    <3>2. /\ All(j) \in Seq(Entries) /\ GrowsOn(All(j), {0}) /\ GrowsOn(All(k), {0})
      BY <1>6, <1>7, Zenon
    <3>3. /\ \A id \in {0} \cup IdsOf(All(j)) : Seen(All(k), id) = Seen(All(j), id)
          /\ Seen(All(k), e.id)
               = Seen(All(k), e.parent) \cup (IF IsMessage(e) THEN {e.id} ELSE {})
      <4>1. e \in Entries
        BY <1>2
      <4>. QED
        BY <1>6, <3>1, <3>2, <4>1, ParentIsSeen, Zenon
    <3>4. Seen(All(k), j.leaf) = Seen(All(j), j.leaf)
      BY <1>6, <3>3, Zenon
    <3>. QED
      BY <2>2, <3>3, <3>4
  <2>. QED
    BY <1>10, <2>3 DEF LeafSeesAll, Shown, k
<1>12. CASE j.staged # <<>>
  <2>. DEFINE a == j.entries
              s == j.staged
              b == a \o (<<e>> \o r)
  <2>0. All(j) = a \o s /\ All(k) = b
    BY <1>3, Zenon DEF All
  <2>1. /\ Len(s) > 0 /\ a \in Seq(Entries) /\ s \in Seq(Entries)
    BY <1>1, <1>12, EmptySeq
  <2>2. \A i \in 1..Len(s) : /\ r[i].id = s[i].id /\ r[i].role = s[i].role
                             /\ r[i].parent = IF i = 1 THEN j.nextId ELSE s[i].parent
    <3>1. \A i \in 1..Len(s) : s[i] \in Entries
      BY <2>1
    <3>2. \A i \in 1..Len(s) :
            r[i] = IF i = 1 THEN [s[i] EXCEPT !.parent = j.nextId] ELSE s[i]
      BY DEF r, Rehung
    <3>. QED
      BY <3>1, <3>2 DEF Entries
  <2>3. e.id = j.nextId /\ e.parent = s[1].parent /\ Len(r) = Len(s)
    BY <1>5, <1>8, <1>12
  <2>. HIDE DEF a, s
  <2>4. /\ Len(a) + 1 \in 1..Len(b) /\ b[Len(a) + 1] = e
        /\ \A p \in 1..Len(a) : p \in 1..Len(b) /\ b[p] = a[p] /\ (a \o s)[p] = a[p]
        /\ \A i \in 1..Len(s) : /\ Len(a) + 1 + i \in 1..Len(b)
                                /\ b[Len(a) + 1 + i] = r[i]
                                /\ (a \o s)[Len(a) + i] = s[i]
        /\ Len(a \o s) = Len(a) + Len(s) /\ Len(a) \in Nat /\ Len(s) \in Nat
    BY <1>2, <2>1, <2>3
  <2>. HIDE DEF b
  <2>5. Carries(a \o s, b)
    <3>. DEFINE Told(x, q) ==
           /\ b[q].id = x.id /\ b[q].role = x.role
           /\ \/ b[q].parent = x.parent
              \/ \E t \in 1..Len(b) : b[t].id = b[q].parent /\ b[t].parent = x.parent
    <3>1. ASSUME NEW p \in 1..Len(a) PROVE p \in 1..Len(b) /\ Told((a \o s)[p], p)
      BY <2>4
    <3>2. ASSUME NEW i \in 1..Len(s)
          PROVE  Len(a) + 1 + i \in 1..Len(b) /\ Told((a \o s)[Len(a) + i], Len(a) + 1 + i)
      <4>1. Len(a) + 1 + i \in 1..Len(b)
        BY <2>4
      <4>2. b[Len(a) + 1 + i] = r[i] /\ (a \o s)[Len(a) + i] = s[i]
        BY <2>4
      <4>3. r[i].id = s[i].id /\ r[i].role = s[i].role
        BY <2>2
      <4>4. CASE i = 1
        <5>1. r[i].parent = j.nextId
          BY <2>2, <4>4
        <5>2. /\ b[Len(a) + 1].id = b[Len(a) + 1 + i].parent
              /\ b[Len(a) + 1].parent = s[i].parent
          BY <2>3, <2>4, <4>2, <4>4, <5>1
        <5>. QED
          BY <2>4, <4>1, <4>2, <4>3, <5>2
      <4>5. CASE i # 1
        BY <2>2, <4>1, <4>2, <4>3, <4>5
      <4>. QED
        BY <4>4, <4>5
    <3>3. ASSUME NEW p \in 1..Len(a \o s)
          PROVE  \E q \in 1..Len(b) : Told((a \o s)[p], q)
      <4>. HIDE DEF Told
      <4>1. CASE p <= Len(a)
        <5>1. p \in 1..Len(a)
          BY <2>4, <4>1
        <5>. QED
          BY <3>1, <5>1
      <4>2. CASE p > Len(a)
        <5>. DEFINE i == p - Len(a)
        <5>1. i \in 1..Len(s) /\ Len(a) + i = p
          BY <2>4, <4>2
        <5>. HIDE DEF i
        <5>. QED
          BY <3>2, <5>1
      <4>. QED
        BY <2>4, <4>1, <4>2
    <3>. QED
      BY <3>3, Zenon DEF Carries
  <2>6. Seen(All(j), j.leaf) \subseteq Seen(All(k), j.leaf)
    BY <1>6, <1>7, <2>0, <2>5, CarriedIsSeen
  <2>7. k.leaf = j.leaf
    BY <1>3, <1>12
  <2>. QED
    BY <1>10, <2>6, <2>7 DEF LeafSeesAll, Shown, k
<1>. QED
  BY <1>11, <1>12

-----------------------------------------------------------------------------
(* The session *)

\* The messages an agent sends are messages a journal can hold.
LEMMA KeptMessages ==
  /\ \A c \in Nat : Prompt(c) \in Kept /\ Assistant(c) \in Kept
  /\ Notes \subseteq Seq(Kept)
  /\ \A ids \in Seq(Nat) : Steers(ids) \in Seq(Kept) /\ Results(ids) \in Seq(Kept)
  /\ Kept \subseteq Message /\ Checkpoint \in Message
<1>1. /\ \A c \in Nat : /\ Prompt(c) \in Kept /\ Assistant(c) \in Kept
                        /\ Steer(c) \in Kept /\ Result(c) \in Kept
      /\ Note \in Kept
  BY DEF Kept, MessageRoles, Prompt, Assistant, Steer, Result, Note
<1>2. Notes \subseteq Seq(Kept)
  <2>1. << >> \in Seq(Kept)
    OBVIOUS
  <2>2. <<Note>> \in Seq(Kept)
    BY <1>1
  <2>. QED
    BY <2>1, <2>2, Zenon DEF Notes
<1>3. ASSUME NEW ids \in Seq(Nat)
      PROVE  Steers(ids) \in Seq(Kept) /\ Results(ids) \in Seq(Kept)
  <2>1. \A j \in 1..Len(ids) : ids[j] \in Nat
    OBVIOUS
  <2>2. /\ Steers(ids) \in [1..Len(ids) -> Kept]
        /\ Results(ids) \in [1..Len(ids) -> Kept]
    BY <1>1, <2>1 DEF Steers, Results
  <2>3. Len(ids) \in Nat
    OBVIOUS
  <2>4. ASSUME NEW m \in Nat, NEW f \in [1..m -> Kept] PROVE f \in Seq(Kept)
    BY SeqDef
  <2>. QED
    BY <2>2, <2>3, <2>4, Zenon
<1>4. Kept \subseteq Message /\ Checkpoint \in Message
  BY DEF Kept, MessageRoles, Message, Roles, Checkpoint
<1>. QED
  BY <1>1, <1>2, <1>3, <1>4

\* The types of the orchestrator's variables and of the settings.
HostOK ==
  /\ job \in {"none", "run", "compact", "resume"}
  /\ phase \in {"none", "building", "refreshing", "ready", "running", "flushing",
                "aborted"}
  /\ {runtimeAgent, resolving, currentAgent, initializedAgent} \subseteq 0..3
  /\ {compactionSummary, requestSummary, mode, effort, settings, faults}
       \subseteq Nat
  /\ overflowed \subseteq Nat /\ changedMidRun \in BOOLEAN

\* The inductive invariant: the types, the agent's own invariant, and the journal a
\* tree of which the file holds a part.
SessionInv ==
  /\ TypeOK /\ FirstTurn /\ HostOK /\ JournalOK(journal)
  /\ durable \in 0..Len(journal.entries)

\* What the agent's own steps do to its variables.
LEMMA AgentMoves == SessionInv /\ [SessionNext]_allVars => TypeOK' /\ FirstTurn'
<1>. SUFFICES ASSUME SessionInv, [SessionNext]_allVars PROVE TypeOK' /\ FirstTurn'
  OBVIOUS
<1>0. TypeOK /\ FirstTurn /\ JournalOK(journal)
  BY DEF SessionInv
<1>1. ASSUME [Next]_vars PROVE TypeOK' /\ FirstTurn'
  BY <1>0, <1>1, TypeInductive, FirstTurnInductive
<1>2. ASSUME Restore PROVE messages' \in Seq(Message)
  <2>1. journal.entries \in Seq(Entries) /\ GrowsOn(journal.entries, {0})
    BY <1>0, JournalParts, Zenon
  <2>2. Kept \subseteq Message /\ Checkpoint \in Message
    BY KeptMessages
  <2>3. ContextMessages(journal.entries) \in Seq(Message)
    BY <2>1, <2>2, ContextTyped, Zenon
  <2>. QED
    BY <1>2, <2>3 DEF Restore
<1>3. CASE AttachAgent
  <2>1. messages' \in Seq(Message)
    BY <1>0, <1>2, <1>3 DEF AttachAgent, TypeOK
  <2>2. pendingSteering' \in Seq(Nat)
    BY <1>0, <1>3 DEF AttachAgent, TypeOK
  <2>3. UNCHANGED <<nextSteeringId, toolInterruptRequested, abortActiveToolBatch,
                    loopVars, historyVars>>
    BY <1>3 DEF AttachAgent
  <2>. QED
    BY <1>0, <2>1, <2>2, <2>3 DEF TypeOK, FirstTurn, loopVars, historyVars
<1>4. CASE RestoreForCompaction
  <2>1. messages' \in Seq(Message)
    BY <1>2, <1>4 DEF RestoreForCompaction
  <2>2. UNCHANGED <<pendingSteering, nextSteeringId, toolInterruptRequested,
                    abortActiveToolBatch, loopVars, historyVars>>
    BY <1>4 DEF RestoreForCompaction
  <2>. QED
    BY <1>0, <2>1, <2>2 DEF TypeOK, FirstTurn, loopVars, historyVars
<1>5. CASE CrashAndResume
  <2>1. NoBatch \in Batches
    BY DEF NoBatch, Batches, Modes, States
  <2>2. << >> \in Seq(Message) /\ << >> \in Seq(Nat)
    OBVIOUS
  <2>3. /\ messages' = <<>> /\ pendingSteering' = <<>>
        /\ toolInterruptRequested' = FALSE /\ abortActiveToolBatch' = FALSE
        /\ pc' = "idle" /\ conversation' = <<>> /\ freshUserIndex' = 0
        /\ turnNumber' = 0 /\ proactiveCompactionFailed' = FALSE
        /\ batch' = NoBatch /\ batchAborted' = FALSE /\ tracked' = 0
        /\ userAborted' = FALSE /\ toolAborted' = FALSE /\ stopReason' = "completed"
        /\ interrupted' = FALSE
        /\ UNCHANGED <<nextSteeringId, run, delivered, runStart, lost, late>>
    BY <1>5 DEF CrashAndResume
  <2>4. TypeOK'
    BY <1>0, <2>1, <2>2, <2>3 DEF TypeOK, PCs
  <2>5. FirstTurn'
    BY <2>3 DEF FirstTurn
  <2>. QED
    BY <2>4, <2>5
<1>6. CASE \/ PrepareRun \/ ResolveFails \/ PrepareCompaction \/ JobReturns
           \/ ModeSet \/ EffortSet \/ UNCHANGED allVars
  <2>1. UNCHANGED vars
    BY <1>6 DEF PrepareRun, ResolveFails, PrepareCompaction, JobReturns, ModeSet,
                EffortSet, ChangeSetting, allVars
  <2>. QED
    BY <1>1, <2>1
<1>7. CASE \/ StartAgent \/ StartCompaction \/ QuietStep \/ FirstTurnStep
           \/ NextTurnStep \/ OverflowStep \/ AssistantStep \/ ToolStep
           \/ FinishRunStep \/ FinishCompactionStep
  <2>1. Next
    BY <1>7 DEF StartAgent, StartCompaction, QuietStep, FirstTurnStep, NextTurnStep,
                OverflowStep, AssistantStep, ToolStep, FinishRunStep,
                FinishCompactionStep, Next, LoopStep, Environment
  <2>. QED
    BY <1>1, <2>1
<1>. QED
  BY <1>3, <1>4, <1>5, <1>6, <1>7 DEF SessionNext

\* What an operation keeps, and it takes nothing that is committed away.
GrowsTo(j, k) ==
  /\ JournalOK(k)
  /\ \E new \in Seq(Entries) : k.entries = j.entries \o new

\* A journal grows to itself, and step by step.
LEMMA GrowsToItself == \A j : JournalOK(j) => GrowsTo(j, j)
<1>. SUFFICES ASSUME NEW j, JournalOK(j) PROVE GrowsTo(j, j)
  OBVIOUS
<1>1. j.entries \in Seq(Entries)
  BY JournalParts, Zenon
<1>2. <<>> \in Seq(Entries) /\ j.entries \o <<>> = j.entries
  BY <1>1
<1>. QED
  BY <1>2, Zenon DEF GrowsTo

\* Growing twice is growing.
LEMMA GrowsToTwice ==
  ASSUME NEW j, NEW k, NEW l, JournalOK(j), GrowsTo(j, k), GrowsTo(k, l)
  PROVE  GrowsTo(j, l)
<1>1. j.entries \in Seq(Entries)
  BY JournalParts, Zenon
<1>2. PICK a \in Seq(Entries) : k.entries = j.entries \o a
  BY DEF GrowsTo
<1>3. PICK b \in Seq(Entries) : l.entries = k.entries \o b
  BY DEF GrowsTo
<1>4. (j.entries \o a) \o b = j.entries \o (a \o b)
  BY <1>1, ConcatTwice, Zenon
<1>6. a \o b \in Seq(Entries)
  OBVIOUS
<1>5. l.entries = j.entries \o (a \o b)
  BY <1>2, <1>3, <1>4
<1>. QED
  BY <1>5, <1>6, Zenon DEF GrowsTo

\* Every operation keeps the journal a tree and what is committed in it.
LEMMA OperationsGrow ==
  ASSUME NEW j, JournalOK(j)
  PROVE  /\ \A ms \in Seq(Kept) : GrowsTo(j, Stage(j, ms))
         /\ \A native \in Nat : GrowsTo(j, StageCompaction(j, native))
         /\ GrowsTo(j, Flush(j))
         /\ \A role \in EntryRoles, n \in Nat : GrowsTo(j, AppendCommitted(j, role, n))
         /\ \A m \in Kept : GrowsTo(j, NewTurn(j, m))
         /\ GrowsTo(j, Repair(j))
<1>0. /\ j \in Journals /\ j.entries \in Seq(Entries) /\ j.staged \in Seq(Entries)
      /\ j.nextId \in Nat \ {0}
  BY JournalParts, Zenon
<1>1. <<>> \in Seq(Entries) /\ j.entries \o <<>> = j.entries
  BY <1>0
<1>2. ASSUME NEW ms \in Seq(Kept) PROVE GrowsTo(j, Stage(j, ms))
  <2>1. Stage(j, ms).entries = j.entries
    BY <1>0, StageIs, Zenon DEF Has
  <2>2. JournalOK(Stage(j, ms))
    BY StageKeeps
  <2>. QED
    BY <1>1, <2>1, <2>2, Zenon DEF GrowsTo
<1>3. ASSUME NEW native \in Nat PROVE GrowsTo(j, StageCompaction(j, native))
  <2>1. StageCompaction(j, native).entries = j.entries
    BY CompactionIs, Zenon DEF Has
  <2>2. JournalOK(StageCompaction(j, native))
    BY CompactionKeeps
  <2>. QED
    BY <1>1, <2>1, <2>2, Zenon DEF GrowsTo
<1>4. GrowsTo(j, Flush(j))
  <2>1. Flush(j).entries = j.entries \o j.staged
    BY <1>0, FlushIs, Zenon DEF Has
  <2>2. JournalOK(Flush(j))
    BY FlushKeeps
  <2>. QED
    BY <1>0, <2>1, <2>2, Zenon DEF GrowsTo
<1>5. ASSUME NEW role \in EntryRoles, NEW n \in Nat
      PROVE  GrowsTo(j, AppendCommitted(j, role, n))
  <2>. DEFINE e == [id |-> j.nextId, parent |-> LeafId(j.entries), role |-> role, n |-> n]
  <2>1. /\ e \in Entries
        /\ AppendCommitted(j, role, n).entries = j.entries \o <<e>>
    BY <1>0, AppendIs, Zenon DEF Has
  <2>. HIDE DEF e
  <2>2. <<e>> \in Seq(Entries)
    BY <2>1
  <2>3. JournalOK(AppendCommitted(j, role, n))
    BY AppendKeeps
  <2>. QED
    BY <2>1, <2>2, <2>3, Zenon DEF GrowsTo
<1>6. ASSUME NEW m \in Kept PROVE GrowsTo(j, NewTurn(j, m))
  <2>. DEFINE leaf == LeafId(j.entries)
              k == [j EXCEPT !.staged = <<>>, !.leaf = leaf]
  <2>1. leaf \in Nat
    BY <1>0, LeafIdIs, IdsAreNumbers
  <2>2. Has(k, j.entries, <<>>, leaf, j.nextId)
    <3>. HIDE DEF leaf
    <3>1. <<>> \in Seq(Entries)
      BY <1>1
    <3>2. j \in Journals
      BY <1>0
    <3>3. 1 \in Nat \ {0}
      OBVIOUS
    <3>. QED
      BY <2>1, <3>1, <3>2, <3>3, UpdatedOtherwise, Zenon
  <2>3. k.entries = j.entries /\ k \in Journals
    BY <2>2, Zenon DEF Has
  <2>4. <<m>> \in Seq(Kept)
    OBVIOUS
  <2>5. NewTurn(j, m) = Stage(k, <<m>>)
    BY Zenon DEF NewTurn
  <2>. HIDE DEF k
  <2>6. NewTurn(j, m).entries = j.entries
    <3>1. k \in Journals
      BY <2>3
    <3>2. Stage(k, <<m>>).entries = k.entries
      BY <2>4, <3>1, StageIs, Zenon DEF Has
    <3>. QED
      BY <2>3, <2>5, <3>2, Zenon
  <2>7. JournalOK(NewTurn(j, m))
    BY NewTurnKeeps
  <2>. QED
    BY <1>1, <2>6, <2>7, Zenon DEF GrowsTo
<1>7. GrowsTo(j, Repair(j))
  BY RepairKeeps, Zenon DEF GrowsTo
<1>. QED
  BY <1>2, <1>3, <1>4, <1>5, <1>6, <1>7, Zenon

\* What an operation on a run's journal keeps besides: what it shows.
Follows(j, k) ==
  /\ GrowsTo(j, k)
  /\ LeafSeesAll(j) => LeafSeesAll(k) /\ Shown(j) \subseteq Shown(k)

\* A journal follows itself,
LEMMA FollowsItself == \A j : JournalOK(j) => Follows(j, j)
BY GrowsToItself, Zenon DEF Follows

\* ... so it does twice.
LEMMA FollowsTwice ==
  ASSUME NEW j, NEW k, NEW l, JournalOK(j), Follows(j, k), Follows(k, l)
  PROVE  Follows(j, l)
<1>1. GrowsTo(j, l)
  BY GrowsToTwice, Zenon DEF Follows
<1>. QED
  BY <1>1 DEF Follows

\* What happens to the journal of a run takes nothing away of what it shows.
LEMMA OperationsFollow ==
  ASSUME NEW j, JournalOK(j)
  PROVE  /\ \A ms \in Seq(Kept) : Follows(j, Stage(j, ms))
         /\ \A native \in Nat : Follows(j, StageCompaction(j, native))
         /\ Follows(j, Flush(j))
         /\ \A role \in EntryRoles \ MessageRoles, n \in Nat :
              Follows(j, AppendCommitted(j, role, n))
<1>1. ASSUME NEW ms \in Seq(Kept) PROVE Follows(j, Stage(j, ms))
  BY OperationsGrow, StageShows, Zenon DEF Follows
<1>2. ASSUME NEW native \in Nat PROVE Follows(j, StageCompaction(j, native))
  BY OperationsGrow, CompactionShows, Zenon DEF Follows
<1>3. Follows(j, Flush(j))
  <2>1. LeafSeesAll(j) => LeafSeesAll(Flush(j)) /\ Shown(j) \subseteq Shown(Flush(j))
    BY FlushShows
  <2>. QED
    BY <2>1, OperationsGrow, Zenon DEF Follows
<1>4. ASSUME NEW role \in EntryRoles \ MessageRoles, NEW n \in Nat
      PROVE  Follows(j, AppendCommitted(j, role, n))
  <2>1. role \in EntryRoles
    OBVIOUS
  <2>. QED
    BY <2>1, OperationsGrow, AppendShows, Zenon DEF Follows
<1>. QED
  BY <1>1, <1>2, <1>3, <1>4

\* The entries appended to the committed ones are no messages.
LEMMA RolesKept == {"compaction", "error", "mode", "effort"} \subseteq EntryRoles \ MessageRoles
BY DEF EntryRoles, MessageRoles

\* The start of a turn flushes and stages.
LEMMA TurnStartsFollows ==
  ASSUME NEW conv, NEW j, JournalOK(j), TypeOK, TurnStarts(conv, j)
  PROVE  Follows(j, journal')
<1>1. PICK note \in Notes : journal' = Stage(Flush(j), Steers(pendingSteering) \o note)
  BY DEF TurnStarts
<1>2. pendingSteering \in Seq(Nat)
  BY DEF TypeOK
<1>3. Steers(pendingSteering) \o note \in Seq(Kept)
  <2>1. Steers(pendingSteering) \in Seq(Kept) /\ note \in Seq(Kept)
    BY <1>2, KeptMessages
  <2>. QED
    BY <2>1
<1>4. Follows(j, Flush(j)) /\ JournalOK(Flush(j))
  BY OperationsFollow, FlushKeeps, Zenon
<1>5. Follows(Flush(j), journal')
  BY <1>1, <1>3, <1>4, OperationsFollow, Zenon
<1>. QED
  BY <1>4, <1>5, FollowsTwice, Zenon

\* So does every step but the one that drops what was staged, and the death of the
\* process.
LEMMA JournalFollows ==
  SessionInv /\ [SessionNext]_allVars /\ ~CrashAndResume /\ ~PrepareRun
    => Follows(journal, journal')
<1>. SUFFICES ASSUME SessionInv, [SessionNext]_allVars, ~CrashAndResume, ~PrepareRun
              PROVE  Follows(journal, journal')
  OBVIOUS
<1>0. /\ TypeOK /\ HostOK /\ JournalOK(journal) /\ TypeOK'
      /\ settings \in Nat /\ settings' \in Nat
      /\ CompactionKinds \subseteq Nat /\ pendingSteering \in Seq(Nat)
  <2>1. TypeOK'
    BY AgentMoves
  <2>2. settings \in Nat
    BY DEF SessionInv, HostOK
  <2>3. settings' \in Nat
    <3>1. CASE ModeSet \/ EffortSet
      BY <2>2, <3>1 DEF ModeSet, EffortSet, ChangeSetting
    <3>2. CASE ~(ModeSet \/ EffortSet)
      <4>1. UNCHANGED settings
        BY <3>2 DEF SessionNext, allVars, sessionVars, settingVars, PrepareRun,
          ResolveFails, PrepareCompaction, JobReturns, AttachAgent,
          RestoreForCompaction, StartAgent, StartCompaction, QuietStep, FirstTurnStep,
          NextTurnStep, OverflowStep, AssistantStep, ToolStep, FinishRunStep,
          FinishCompactionStep
      <4>. QED
        BY <2>2, <4>1
    <3>. QED
      BY <3>1, <3>2
  <2>4. CompactionKinds \subseteq Nat
    BY SessionBoundsAreNaturals
  <2>5. TypeOK /\ HostOK /\ JournalOK(journal)
    BY DEF SessionInv
  <2>6. pendingSteering \in Seq(Nat)
    BY <2>5 DEF TypeOK
  <2>. QED
    BY <2>1, <2>2, <2>3, <2>4, <2>5, <2>6
<1>1. CASE UNCHANGED journal
  BY <1>0, <1>1, FollowsItself
<1>2. CASE FirstTurnStep
  <2>1. ASSUME NEW native \in CompactionKinds
        PROVE  /\ Follows(journal, StageCompaction(journal, native))
               /\ JournalOK(StageCompaction(journal, native))
    BY <1>0, OperationsFollow, CompactionKeeps, Zenon
  <2>2. CASE \E native \in CompactionKinds : journal' = StageCompaction(journal, native)
    BY <2>1, <2>2
  <2>3. CASE \E conv : TurnStarts(conv, journal)
    BY <1>0, <2>3, TurnStartsFollows
  <2>4. ASSUME NEW native \in CompactionKinds, NEW conv,
               TurnStarts(conv, StageCompaction(journal, native))
        PROVE  Follows(journal, journal')
    <3>1. Follows(StageCompaction(journal, native), journal')
      BY <1>0, <2>1, <2>4, TurnStartsFollows, Zenon
    <3>. QED
      BY <1>0, <2>1, <3>1, FollowsTwice, Zenon
  <2>5. \/ UNCHANGED journal
        \/ \E conv : TurnStarts(conv, journal)
        \/ \E native \in CompactionKinds :
             \/ journal' = StageCompaction(journal, native)
             \/ \E conv : TurnStarts(conv, StageCompaction(journal, native))
    BY <1>2, Zenon DEF FirstTurnStep
  <2>. QED
    BY <1>1, <2>2, <2>3, <2>4, <2>5, Zenon
<1>3. CASE NextTurnStep
  <2>1. ASSUME NEW native \in CompactionKinds
        PROVE  /\ Follows(journal, StageCompaction(journal, native))
               /\ JournalOK(StageCompaction(journal, native))
    BY <1>0, OperationsFollow, CompactionKeeps, Zenon
  <2>2. CASE \E conv : TurnStarts(conv, journal)
    BY <1>0, <2>2, TurnStartsFollows
  <2>3. ASSUME NEW native \in CompactionKinds, NEW conv,
               TurnStarts(conv, StageCompaction(journal, native))
        PROVE  Follows(journal, journal')
    <3>1. Follows(StageCompaction(journal, native), journal')
      BY <1>0, <2>1, <2>3, TurnStartsFollows, Zenon
    <3>. QED
      BY <1>0, <2>1, <3>1, FollowsTwice, Zenon
  <2>4. \/ UNCHANGED journal
        \/ \E conv : TurnStarts(conv, journal)
        \/ \E native \in CompactionKinds, conv \in {<<Summary>>} :
             TurnStarts(conv, StageCompaction(journal, native))
    BY <1>3, Zenon DEF NextTurnStep
  <2>. QED
    BY <1>1, <2>2, <2>3, <2>4, Zenon
<1>4. CASE OverflowStep
  <2>1. \/ UNCHANGED journal
        \/ \E native \in CompactionKinds : journal' = StageCompaction(journal, native)
    BY <1>4, Zenon DEF OverflowStep
  <2>. QED
    BY <1>0, <1>1, <2>1, OperationsFollow, Zenon
<1>5. CASE AssistantStep
  <2>. DEFINE ms == <<Assistant(batch'.calls)>> \o Results(batch'.executions)
              k == Stage(journal, ms)
  <2>1. batch'.calls \in Nat /\ batch'.executions \in Seq(Nat)
    BY <1>0 DEF TypeOK, Batches
  <2>2. ms \in Seq(Kept)
    <3>1. <<Assistant(batch'.calls)>> \in Seq(Kept)
      BY <2>1, KeptMessages
    <3>2. Results(batch'.executions) \in Seq(Kept)
      BY <2>1, KeptMessages
    <3>. QED
      BY <3>1, <3>2
  <2>3. journal' = IF batch'.calls = 0 THEN k ELSE Flush(k)
    BY <1>5, Zenon DEF AssistantStep
  <2>. HIDE DEF ms
  <2>4. Follows(journal, k) /\ JournalOK(k)
    BY <1>0, <2>2, OperationsFollow, StageKeeps, Zenon
  <2>. HIDE DEF k
  <2>5. Follows(journal, Flush(k))
    BY <1>0, <2>4, OperationsFollow, FollowsTwice, Zenon
  <2>. QED
    BY <2>3, <2>4, <2>5, Zenon
<1>6. CASE ToolStep
  <2>. DEFINE new == SubSeq(batch'.executions, Len(batch.executions) + 1,
                            Len(batch'.executions))
              k == Stage(journal, Results(new))
  <2>1. batch.executions \in Seq(Nat) /\ batch'.executions \in Seq(Nat)
    BY <1>0 DEF TypeOK, Batches
  <2>2. new \in Seq(Nat)
    BY <2>1
  <2>3. journal' = IF new = <<>> THEN journal ELSE Flush(k)
    BY <1>6, Zenon DEF ToolStep
  <2>. HIDE DEF new
  <2>4. Results(new) \in Seq(Kept)
    BY <2>2, KeptMessages
  <2>5. Follows(journal, k) /\ JournalOK(k)
    BY <1>0, <2>4, OperationsFollow, StageKeeps, Zenon
  <2>. HIDE DEF k
  <2>6. Follows(journal, Flush(k))
    BY <1>0, <2>5, OperationsFollow, FollowsTwice, Zenon
  <2>. QED
    BY <1>1, <2>3, <2>6, Zenon
<1>7. CASE FinishRunStep
  <2>1. Follows(journal, Flush(journal)) /\ JournalOK(Flush(journal))
    BY <1>0, OperationsFollow, FlushKeeps, Zenon
  <2>2. "error" \in EntryRoles \ MessageRoles /\ 0 \in Nat
    BY RolesKept
  <2>3. Follows(Flush(journal), AppendCommitted(Flush(journal), "error", 0))
    BY <2>1, <2>2, OperationsFollow, Zenon
  <2>4. Follows(journal, AppendCommitted(Flush(journal), "error", 0))
    BY <1>0, <2>1, <2>3, FollowsTwice, Zenon
  <2>5. \/ journal' = Flush(journal)
        \/ journal' = AppendCommitted(Flush(journal), "error", 0)
    BY <1>7, Zenon DEF FinishRunStep
  <2>. QED
    BY <2>1, <2>4, <2>5, Zenon
<1>8. CASE FinishCompactionStep
  <2>1. "compaction" \in EntryRoles \ MessageRoles
    BY RolesKept
  <2>2. \/ UNCHANGED journal
        \/ \E native \in CompactionKinds :
             journal' = AppendCommitted(journal, "compaction", native)
    BY <1>8, Zenon DEF FinishCompactionStep
  <2>. QED
    BY <1>0, <1>1, <2>1, <2>2, OperationsFollow, Zenon
<1>9. CASE ModeSet \/ EffortSet
  <2>1. {"mode", "effort"} \subseteq EntryRoles \ MessageRoles
    BY RolesKept
  <2>2. \/ journal' = AppendCommitted(journal, "mode", settings')
        \/ journal' = AppendCommitted(journal, "effort", settings')
    BY <1>9, Zenon DEF ModeSet, EffortSet, ChangeSetting
  <2>. QED
    BY <1>0, <2>1, <2>2, OperationsFollow, Zenon
<1>10. CASE \/ AttachAgent \/ ResolveFails \/ StartAgent \/ PrepareCompaction
            \/ RestoreForCompaction \/ StartCompaction \/ QuietStep \/ JobReturns
            \/ UNCHANGED allVars
  <2>1. UNCHANGED journal
    BY <1>10 DEF AttachAgent, ResolveFails, StartAgent, PrepareCompaction,
                 RestoreForCompaction, StartCompaction, QuietStep, JobReturns, allVars,
                 sessionVars
  <2>. QED
    BY <1>1, <2>1
<1>. QED
  BY <1>2, <1>3, <1>4, <1>5, <1>6, <1>7, <1>8, <1>9, <1>10 DEF SessionNext

\* The one that begins a run drops no committed entry.
LEMMA PrepareRunGrows ==
  ASSUME SessionInv, PrepareRun PROVE GrowsTo(journal, journal')
<1>0. JournalOK(journal) /\ TypeOK
  BY DEF SessionInv
<1>1. journal' = NewTurn(Repair(journal), Prompt(run + 1))
  BY DEF PrepareRun
<1>2. Prompt(run + 1) \in Kept
  <2>1. run + 1 \in Nat
    BY <1>0 DEF TypeOK
  <2>. QED
    BY <2>1, KeptMessages
<1>3. GrowsTo(journal, Repair(journal)) /\ JournalOK(Repair(journal))
  BY <1>0, OperationsGrow, RepairKeeps, Zenon
<1>4. GrowsTo(Repair(journal), journal')
  BY <1>1, <1>2, <1>3, OperationsGrow, Zenon
<1>. QED
  BY <1>0, <1>3, <1>4, GrowsToTwice, Zenon

\* Nothing but the death of the process takes committed entries away.
LEMMA JournalMoves ==
  SessionInv /\ [SessionNext]_allVars /\ ~CrashAndResume => GrowsTo(journal, journal')
BY JournalFollows, PrepareRunGrows DEF Follows

\* A resume makes a tree of what the file holds, and numbers of the settings.
LEMMA ResumeMakes ==
  ASSUME JournalOK(journal), durable \in 0..Len(journal.entries), CrashAndResume
  PROVE  /\ JournalOK(journal') /\ durable' \in 0..Len(journal'.entries)
         /\ mode' \in Nat /\ effort' \in Nat
<1>1. PICK file \in OnDisk : journal' = Repair(Load(file)) /\ durable' = Len(file)
  BY DEF CrashAndResume
<1>2. PICK k \in durable..Len(journal.entries) : file = SubSeq(journal.entries, 1, k)
  BY DEF OnDisk
<1>3. journal.entries \in Seq(Entries) /\ GrowsOn(journal.entries, {0})
  BY JournalParts, Zenon
<1>4. k \in 0..Len(journal.entries)
  BY <1>3
<1>5. file \in Seq(Entries) /\ Len(file) \in Nat /\ GrowsOn(file, {0})
  BY <1>2, <1>3, <1>4, GrowsPrefix
<1>6. JournalOK(Load(file)) /\ Load(file).entries = file
  BY <1>5, LoadKeeps
<1>7. /\ JournalOK(journal')
      /\ \E new \in Seq(Entries) : journal'.entries = file \o new
  BY <1>1, <1>6, RepairKeeps
<1>8. durable' \in 0..Len(journal'.entries)
  <2>1. PICK new \in Seq(Entries) : journal'.entries = file \o new
    BY <1>7
  <2>2. Len(file \o new) = Len(file) + Len(new) /\ Len(new) \in Nat
    BY <1>5
  <2>. QED
    BY <1>1, <1>5, <2>1, <2>2
<1>9. ContextMode(journal'.entries) \in Nat /\ ContextEffort(journal'.entries) \in Nat
  <2>1. journal'.entries \in Seq(Entries) /\ GrowsOn(journal'.entries, {0})
    BY <1>7, JournalParts, Zenon
  <2>. QED
    BY <2>1, SettingsTyped
<1>10. mode' = ContextMode(journal'.entries) /\ effort' = ContextEffort(journal'.entries)
  BY Zenon DEF CrashAndResume
<1>. QED
  BY <1>7, <1>8, <1>9, <1>10

\* The orchestrator's variables and the settings stay in their types.
LEMMA HostMoves == SessionInv /\ [SessionNext]_allVars => HostOK'
<1>. SUFFICES ASSUME SessionInv, [SessionNext]_allVars PROVE HostOK'
  OBVIOUS
<1>0. /\ TypeOK /\ TypeOK' /\ HostOK /\ JournalOK(journal)
      /\ durable \in 0..Len(journal.entries)
      /\ journal.entries \in Seq(Entries) /\ GrowsOn(journal.entries, {0})
      /\ journal.nextId \in Nat
  <2>1. TypeOK'
    BY AgentMoves
  <2>2. /\ TypeOK /\ HostOK /\ JournalOK(journal) /\ durable \in 0..Len(journal.entries)
    BY DEF SessionInv
  <2>3. /\ journal.entries \in Seq(Entries) /\ GrowsOn(journal.entries, {0})
        /\ journal.nextId \in Nat
    BY <2>2, JournalParts, Zenon
  <2>. QED
    BY <2>1, <2>2, <2>3
<1>1. FreshAgent \in 1..3
  <2>1. \E a \in 1..3 : a \notin {currentAgent, initializedAgent}
    <3>1. 1 \in 1..3 /\ 2 \in 1..3 /\ 3 \in 1..3
      OBVIOUS
    <3>2. 1 \notin {currentAgent, initializedAgent}
          \/ 2 \notin {currentAgent, initializedAgent}
          \/ 3 \notin {currentAgent, initializedAgent}
      OBVIOUS
    <3>. QED
      BY <3>1, <3>2
  <2>. QED
    BY <2>1, Zenon DEF FreshAgent
<1>2. ASSUME Restore PROVE compactionSummary' \in Nat /\ overflowed' \subseteq Nat
  <2>1. ContextSummary(journal.entries) \in Nat
    BY <1>0, SettingsTyped
  <2>. QED
    BY <1>2, <2>1 DEF Restore
<1>3. \A native : SummaryOf(native) \in Nat
  BY <1>0 DEF SummaryOf
<1>4. CASE AttachAgent \/ RestoreForCompaction
  <2>1. compactionSummary' \in Nat /\ overflowed' \subseteq Nat
    BY <1>0, <1>2, <1>4 DEF AttachAgent, RestoreForCompaction, HostOK
  <2>2. /\ {runtimeAgent', resolving', initializedAgent', currentAgent'} \subseteq 0..3
        /\ phase' = "ready"
    BY <1>0, <1>4 DEF AttachAgent, RestoreForCompaction, Resolved, HostOK
  <2>3. UNCHANGED <<job, requestSummary, settingVars, faults>>
    BY <1>4 DEF AttachAgent, RestoreForCompaction
  <2>. QED
    BY <1>0, <2>1, <2>2, <2>3 DEF HostOK, settingVars
<1>5. CASE PrepareRun \/ PrepareCompaction
  <2>1. resolving' \in 0..3 /\ phase' \in {"refreshing", "building"}
    BY <1>0, <1>1, <1>5 DEF PrepareRun, PrepareCompaction, Resolve, HostOK
  <2>2. job' \in {"run", "compact"}
    BY <1>5 DEF PrepareRun, PrepareCompaction
  <2>3. UNCHANGED <<runtimeAgent, currentAgent, initializedAgent, summaryVars,
                    settingVars, faults, overflowed>>
    BY <1>5 DEF PrepareRun, PrepareCompaction
  <2>. QED
    BY <1>0, <2>1, <2>2, <2>3 DEF HostOK, settingVars, summaryVars
<1>6. CASE ResolveFails \/ JobReturns
  <2>1. /\ job' = "none" /\ phase' = "none"
        /\ resolving' \in {0, resolving} /\ faults' \in {faults, faults + 1}
    BY <1>6 DEF ResolveFails, JobReturns
  <2>2. UNCHANGED <<runtimeAgent, currentAgent, initializedAgent, summaryVars,
                    settingVars, overflowed>>
    BY <1>6 DEF ResolveFails, JobReturns
  <2>3. faults' \in Nat
    BY <1>0, <2>1 DEF HostOK
  <2>. QED
    BY <1>0, <2>1, <2>2, <2>3 DEF HostOK, settingVars, summaryVars
<1>7. CASE StartAgent \/ StartCompaction
  BY <1>0, <1>7 DEF StartAgent, StartCompaction, HostOK, settingVars, summaryVars
<1>8. CASE FirstTurnStep \/ NextTurnStep \/ OverflowStep
  <2>1. requestSummary' \in Nat
    <3>1. \/ UNCHANGED requestSummary
          \/ \E native \in CompactionKinds : requestSummary' = SummaryOf(native)
      BY <1>8, Zenon DEF FirstTurnStep, NextTurnStep, OverflowStep
    <3>. QED
      BY <1>0, <1>3, <3>1 DEF HostOK
  <2>2. overflowed' \subseteq Nat
    <3>1. overflowed' = overflowed \/ overflowed' = overflowed \cup {turnNumber}
      BY <1>8, Zenon DEF FirstTurnStep, NextTurnStep, OverflowStep
    <3>. QED
      BY <1>0, <3>1 DEF HostOK, TypeOK
  <2>3. UNCHANGED <<hostVars, compactionSummary, settingVars, faults>>
    BY <1>8 DEF FirstTurnStep, NextTurnStep, OverflowStep
  <2>. QED
    BY <1>0, <2>1, <2>2, <2>3 DEF HostOK, settingVars, hostVars
<1>9. CASE AssistantStep \/ ToolStep \/ QuietStep \/ UNCHANGED allVars
  <2>1. UNCHANGED <<hostVars, summaryVars, settingVars, faults, overflowed>>
    BY <1>9 DEF AssistantStep, ToolStep, QuietStep, allVars, sessionVars
  <2>. QED
    BY <1>0, <2>1 DEF HostOK, settingVars, hostVars, summaryVars
<1>10. CASE FinishRunStep
  <2>1. phase' \in {"flushing", "aborted"} /\ requestSummary' = 0
    BY <1>10 DEF FinishRunStep
  <2>2. initializedAgent' \in {0, initializedAgent}
    BY <1>10 DEF FinishRunStep
  <2>3. compactionSummary' \in {compactionSummary, requestSummary}
    BY <1>10 DEF FinishRunStep, SummaryAfter
  <2>4. UNCHANGED <<job, runtimeAgent, resolving, currentAgent, settingVars, faults,
                    overflowed>>
    BY <1>10 DEF FinishRunStep
  <2>. QED
    BY <1>0, <2>1, <2>2, <2>3, <2>4 DEF HostOK, settingVars
<1>11. CASE FinishCompactionStep
  <2>1. compactionSummary' \in Nat
    <3>1. \/ UNCHANGED compactionSummary
          \/ \E native \in CompactionKinds : compactionSummary' = SummaryOf(native)
      BY <1>11, Zenon DEF FinishCompactionStep
    <3>. QED
      BY <1>0, <1>3, <3>1 DEF HostOK
  <2>2. /\ phase' = "flushing"
        /\ UNCHANGED <<job, runtimeAgent, resolving, currentAgent, initializedAgent,
                       requestSummary, settingVars, faults, overflowed>>
    BY <1>11 DEF FinishCompactionStep
  <2>. QED
    BY <1>0, <2>1, <2>2 DEF HostOK, settingVars
<1>12. CASE ModeSet \/ EffortSet
  <2>1. /\ settings' = settings + 1
        /\ changedMidRun' = (changedMidRun \/ job = "run")
        /\ UNCHANGED <<job, phase, resolving, currentAgent, initializedAgent,
                       summaryVars, faults, overflowed>>
    BY <1>12 DEF ModeSet, EffortSet, ChangeSetting
  <2>2. /\ mode' \in {mode, settings'} /\ effort' \in {effort, settings'}
        /\ runtimeAgent' \in {0, runtimeAgent}
    BY <1>12 DEF ModeSet, EffortSet
  <2>3. changedMidRun' \in BOOLEAN
    BY <2>1, Zenon
  <2>4. settings' \in Nat
    BY <1>0, <2>1 DEF HostOK
  <2>5. /\ {runtimeAgent', resolving', currentAgent', initializedAgent'} \subseteq 0..3
        /\ {compactionSummary', requestSummary', mode', effort', settings', faults'}
             \subseteq Nat
        /\ UNCHANGED <<job, phase, overflowed>>
    BY <1>0, <2>1, <2>2, <2>4 DEF HostOK, summaryVars
  <2>. QED
    BY <1>0, <2>3, <2>5 DEF HostOK
<1>13. CASE CrashAndResume
  <2>1. mode' \in Nat /\ effort' \in Nat
    BY <1>0, <1>13, ResumeMakes
  <2>2. /\ faults' = faults + 1 /\ job' = "resume" /\ phase' = "flushing"
        /\ runtimeAgent' = 0 /\ resolving' = 0 /\ currentAgent' = 0
        /\ initializedAgent' = 0
        /\ compactionSummary' = 0 /\ requestSummary' = 0
        /\ overflowed' = {} /\ changedMidRun' = FALSE /\ settings' = settings
    BY <1>13 DEF CrashAndResume
  <2>3. faults' \in Nat /\ settings' \in Nat
    BY <1>0, <2>2 DEF HostOK
  <2>4. changedMidRun' \in BOOLEAN
    BY <2>2, Zenon
  <2>5. overflowed' \subseteq Nat /\ job' = "resume" /\ phase' = "flushing"
    BY <2>2
  <2>6. /\ {runtimeAgent', resolving', currentAgent', initializedAgent'} \subseteq 0..3
        /\ {compactionSummary', requestSummary', mode', effort', settings', faults'}
             \subseteq Nat
    BY <2>1, <2>2, <2>3
  <2>. QED
    BY <2>4, <2>5, <2>6 DEF HostOK
<1>. QED
  BY <1>4, <1>5, <1>6, <1>7, <1>8, <1>9, <1>10, <1>11, <1>12, <1>13 DEF SessionNext

\* No wait finds more in the file than was handed to the writer.
LEMMA DurableMoves ==
  SessionInv /\ [SessionNext]_allVars => durable' \in 0..Len(journal'.entries)
<1>. SUFFICES ASSUME SessionInv, [SessionNext]_allVars
              PROVE  durable' \in 0..Len(journal'.entries)
  OBVIOUS
<1>0. /\ JournalOK(journal) /\ durable \in 0..Len(journal.entries)
      /\ journal.entries \in Seq(Entries)
  BY JournalParts, Zenon DEF SessionInv
<1>1. CASE CrashAndResume
  BY <1>0, <1>1, ResumeMakes
<1>2. CASE ~CrashAndResume
  <2>1. PICK new \in Seq(Entries) : journal'.entries = journal.entries \o new
    BY <1>2, JournalMoves DEF GrowsTo
  <2>2. Len(journal'.entries) = Len(journal.entries) + Len(new) /\ Len(new) \in Nat
    BY <1>0, <2>1
  <2>3. durable' = durable \/ durable' = Len(journal.entries)
    BY <1>2 DEF SessionNext, allVars, sessionVars, PrepareRun,
      ResolveFails, PrepareCompaction, JobReturns, AttachAgent,
      RestoreForCompaction, StartAgent, StartCompaction, QuietStep, FirstTurnStep,
      NextTurnStep, OverflowStep, AssistantStep, ToolStep, FinishRunStep,
      FinishCompactionStep, ModeSet, EffortSet, ChangeSetting
  <2>. QED
    BY <1>0, <2>2, <2>3
<1>. QED
  BY <1>1, <1>2

\* The invariant is kept by every step,
LEMMA SessionInductive == SessionInv /\ [SessionNext]_allVars => SessionInv'
<1>. SUFFICES ASSUME SessionInv, [SessionNext]_allVars PROVE SessionInv'
  OBVIOUS
<1>1. JournalOK(journal')
  <2>1. CASE CrashAndResume
    BY <2>1, ResumeMakes DEF SessionInv
  <2>2. CASE ~CrashAndResume
    BY <2>2, JournalMoves DEF GrowsTo
  <2>. QED
    BY <2>1, <2>2
<1>. QED
  BY <1>1, AgentMoves, HostMoves, DurableMoves DEF SessionInv

\* ... and holds at first.
LEMMA SessionInvInitially == SessionInit => SessionInv
<1>. SUFFICES ASSUME SessionInit PROVE SessionInv
  OBVIOUS
<1>1. TypeOK /\ FirstTurn
  BY TypedInitially DEF SessionInit
<1>2. HostOK
  <2>1. changedMidRun \in BOOLEAN
    BY Zenon DEF SessionInit
  <2>2. overflowed \subseteq Nat
    BY DEF SessionInit
  <2>3. job = "none" /\ phase = "none"
    BY DEF SessionInit
  <2>4. /\ {runtimeAgent, resolving, currentAgent, initializedAgent} \subseteq 0..3
        /\ {compactionSummary, requestSummary, mode, effort, settings, faults}
             \subseteq Nat
    BY DEF SessionInit
  <2>. QED
    BY <2>1, <2>2, <2>3, <2>4 DEF HostOK
<1>3. Has(journal, <<>>, <<>>, 0, 1)
  BY DEF SessionInit, EmptyJournal, Has, Journals
<1>4. <<>> \in Seq(Entries) /\ GrowsOn(<<>>, {0}) /\ GrowsOn(<<>>, {0} \cup IdsOf(<<>>))
      /\ IdsOf(<<>>) = {}
  BY GrowsNothing
<1>5. /\ \A id \in IdsOf(<<>>) \cup IdsOf(<<>>) : id < 1
      /\ 0 \in {0} \cup IdsOf(<<>>) \cup IdsOf(<<>>)
      /\ (<<>> # <<>> => 0 = LeafId(<<>>))
      /\ 1 \in Nat \ {0}
  BY <1>4
<1>6. JournalOK(journal)
  <2>1. 1 \in Nat \ {0}
    BY <1>5
  <2>2. <<>> \in Seq(Entries)
    BY <1>4
  <2>. QED
    BY <1>3, <1>4, <1>5, <2>1, <2>2, JournalMade, Zenon
<1>7. durable \in 0..Len(journal.entries)
  BY DEF SessionInit, EmptyJournal
<1>. QED
  BY <1>1, <1>2, <1>6, <1>7 DEF SessionInv

\* Every variable of a session stays in its type, and no wait finds more in the file
\* than was ever handed to the writer: the steps of the agent, of the orchestrator,
\* of the stager and of the writer taken together.
THEOREM SessionTyped == SessionSpec => []SessionTypeOK
<1>1. SessionInv => SessionTypeOK
  BY DEF SessionInv, HostOK, JournalOK, SessionTypeOK
<1>. QED
  BY <1>1, SessionInvInitially, SessionInductive, PTL DEF SessionSpec

\* Every committed entry hangs from an earlier one, through every flush, checkpoint,
\* setting, error, repair and resume: whatever part of the log the file holds when
\* the process dies is a tree with its ancestors.
THEOREM FilesAreTrees == SessionSpec => []ParentsPrecede
<1>1. SessionInv => ParentsPrecede
  BY DEF SessionInv, JournalOK, GrowsOn, ParentsPrecede
<1>. QED
  BY <1>1, SessionInvInitially, SessionInductive, PTL DEF SessionSpec

\* A new turn stages its prompt.
LEMMA NewTurnSeesAll ==
  ASSUME NEW j, JournalOK(j), NEW message \in Kept
  PROVE  LeafSeesAll(NewTurn(j, message))
<1>. DEFINE leaf == LeafId(j.entries)
            k == [j EXCEPT !.staged = <<>>, !.leaf = leaf]
            l == NewTurn(j, message)
<1>1. j \in Journals /\ j.entries \in Seq(Entries)
  BY JournalParts, Zenon
<1>2. leaf \in Nat
  BY <1>1, LeafIdIs, IdsAreNumbers
<1>3. k \in Journals
  <2>. HIDE DEF leaf
  <2>1. <<>> \in Seq(Entries) /\ 1 \in Nat \ {0}
    OBVIOUS
  <2>2. Has(k, j.entries, <<>>, leaf, j.nextId)
    BY <1>1, <1>2, <2>1, UpdatedOtherwise, Zenon
  <2>. QED
    BY <2>2, Zenon DEF Has
<1>4. l = Stage(k, <<message>>)
  BY Zenon DEF NewTurn
<1>. HIDE DEF k, l
<1>5. <<message>> \in Seq(Kept) /\ Len(<<message>>) = 1 /\ <<message>> # <<>>
  OBVIOUS
<1>6. /\ k.staged \in Seq(Entries) /\ k.leaf \in Nat /\ k.nextId \in Nat \ {0}
  BY <1>3, JournalFields
<1>7. l.staged = k.staged \o Chain(<<message>>, k.leaf, k.nextId)
  BY <1>3, <1>4, <1>5, StageIs, Zenon DEF Has
<1>8. l.staged # <<>>
  <2>. DEFINE ms == <<message>>
              c == Chain(ms, k.leaf, k.nextId)
              s == k.staged
  <2>1. l.staged = s \o c
    BY <1>7, Zenon
  <2>2. ms \in Seq(Kept) /\ Len(ms) = 1 /\ s \in Seq(Entries)
    BY <1>5, <1>6
  <2>. HIDE DEF ms, s
  <2>3. c \in Seq(Entries) /\ Len(c) = 1
    BY <1>6, <2>2, ChainIs
  <2>. HIDE DEF c
  <2>4. Len(s \o c) > 0
    BY <2>2, <2>3
  <2>. QED
    BY <2>1, <2>2, <2>3, <2>4, EmptySeq
<1>. QED
  BY <1>8 DEF LeafSeesAll, Shown, Tip, l

\* While a run has the thread, the next entry hangs below all that is shown.
RunSeesAll == job = "run" => LeafSeesAll(journal)

\* ... from the prompt a run stages to its end.
LEMMA RunSeesAllInductive ==
  SessionInv /\ RunSeesAll /\ [SessionNext]_allVars => RunSeesAll'
<1>. SUFFICES ASSUME SessionInv, RunSeesAll, [SessionNext]_allVars, job' = "run"
              PROVE  LeafSeesAll(journal')
  BY DEF RunSeesAll
<1>0. JournalOK(journal) /\ TypeOK
  BY DEF SessionInv
<1>1. CASE PrepareRun
  <2>1. journal' = NewTurn(Repair(journal), Prompt(run + 1))
    BY <1>1 DEF PrepareRun
  <2>2. Prompt(run + 1) \in Kept
    <3>1. run + 1 \in Nat
      BY <1>0 DEF TypeOK
    <3>. QED
      BY <3>1, KeptMessages
  <2>3. JournalOK(Repair(journal))
    BY <1>0, RepairKeeps, Zenon
  <2>. QED
    BY <2>1, <2>2, <2>3, NewTurnSeesAll, Zenon
<1>2. CASE CrashAndResume
  BY <1>2 DEF CrashAndResume
<1>3. CASE ~PrepareRun /\ ~CrashAndResume
  <2>1. Follows(journal, journal')
    BY <1>3, JournalFollows
  <2>2. job = "run"
    BY <1>3 DEF SessionNext, allVars, sessionVars, hostVars,
      ResolveFails, PrepareCompaction, JobReturns, AttachAgent,
      RestoreForCompaction, StartAgent, StartCompaction, QuietStep, FirstTurnStep,
      NextTurnStep, OverflowStep, AssistantStep, ToolStep, FinishRunStep,
      FinishCompactionStep, ModeSet, EffortSet, ChangeSetting
  <2>. QED
    BY <2>1, <2>2 DEF Follows, RunSeesAll
<1>. QED
  BY <1>1, <1>2, <1>3

\* What thread/read shows is what the proofs follow.
LEMMA ShownIsVisible == \A j : VisibleMessages(j) = Shown(j)
BY DEF VisibleMessages, Shown, Seen, All, Tip

\* No message a reader of the thread has seen vanishes while a run has it, though
\* settings and errors hang from the committed leaf and a checkpoint is put before
\* the entries that are pending.
THEOREM TranscriptKept == SessionSpec => TranscriptKeepsMessages
<1>1. SessionInit => SessionInv /\ RunSeesAll
  BY SessionInvInitially DEF SessionInit, RunSeesAll
<1>2. SessionInv /\ RunSeesAll /\ [SessionNext]_allVars => SessionInv' /\ RunSeesAll'
  BY SessionInductive, RunSeesAllInductive
<1>3. ASSUME SessionInv, RunSeesAll, [SessionNext]_allVars, job = "run", faults' = faults
      PROVE  VisibleMessages(journal) \subseteq VisibleMessages(journal')
  <2>1. ~PrepareRun
    BY <1>3 DEF PrepareRun
  <2>2. ~CrashAndResume
    <3>1. faults \in Nat
      BY <1>3 DEF SessionInv, HostOK
    <3>. QED
      BY <1>3, <3>1 DEF CrashAndResume
  <2>3. Follows(journal, journal')
    BY <1>3, <2>1, <2>2, JournalFollows
  <2>4. Shown(journal) \subseteq Shown(journal')
    BY <1>3, <2>3 DEF Follows, RunSeesAll
  <2>. QED
    BY <2>4, ShownIsVisible
<1>4. SessionInv /\ RunSeesAll /\ [SessionNext]_allVars
        => [job = "run" /\ faults' = faults =>
              VisibleMessages(journal) \subseteq VisibleMessages(journal')]_allVars
  BY <1>3
<1>. QED
  BY <1>1, <1>2, <1>4, PTL DEF SessionSpec, TranscriptKeepsMessages

-----------------------------------------------------------------------------
(* Reading a number along a path *)

\* What the entries from the root down to id make of 0, each one taking a step.
Along(es, id, step) ==
  LET at[p \in 0..Len(es)] ==
        IF p = 0 THEN 0
        ELSE step[es[p]][at[Position(es, es[p].parent)]]
  IN  at[Position(es, id)]

\* A step for every entry.
StepTable == [Entries -> [Nat -> Nat]]

\* An entry steps from where its parent is.
LEMMA AlongSteps ==
  ASSUME NEW es \in Seq(Entries), GrowsOn(es, {0}), NEW step \in StepTable
  PROVE  /\ Along(es, 0, step) = 0
         /\ \A id : Along(es, id, step) \in Nat
         /\ \A p \in 1..Len(es) :
              Along(es, es[p].id, step) = step[es[p]][Along(es, es[p].parent, step)]
<1>. DEFINE n == Len(es)
            prev == [p \in 1..n |-> Position(es, es[p].parent)]
            g == [p \in 1..n |-> step[es[p]]]
            Step(f) == [p \in 0..n |-> IF p = 0 THEN 0
                          ELSE step[es[p]][f[Position(es, es[p].parent)]]]
            at == CHOOSE f : f = Step(f)
<1>1. n \in Nat /\ 0 \in Nat
  OBVIOUS
<1>2. prev \in [1..n -> Nat] /\ \A p \in 1..n : prev[p] < p
  BY PositionFacts
<1>3. g \in [1..n -> [Nat -> Nat]]
  <2>1. \A p \in 1..n : es[p] \in Entries
    OBVIOUS
  <2>. QED
    BY <2>1 DEF StepTable
<1>4. PICK f : f \in [0..n -> Nat] /\ f[0] = 0
                 /\ \A p \in 1..n : f[p] = g[p][f[prev[p]]]
  <2>. HIDE DEF n, prev, g, at
  <2>1. \A p \in 1..n : prev[p] < p
    BY <1>2
  <2>2. prev \in [1..n -> Nat]
    BY <1>2
  <2>3. \E f : IsTable(f, n, Nat, 0, prev, g)
    BY <1>1, <1>3, <2>1, <2>2, TableExists, Zenon
  <2>. QED
    BY <2>3, Zenon DEF IsTable
<1>5. f = Step(f)
  <2>1. ASSUME NEW p \in 1..n PROVE f[p] = step[es[p]][f[Position(es, es[p].parent)]]
    BY <1>4
  <2>2. \A p \in 0..n : p = 0 \/ p \in 1..n
    OBVIOUS
  <2>. QED
    BY <1>4, <2>1, <2>2
<1>6. at = Step(at)
  BY <1>5, Zenon
<1>7. \A id : Along(es, id, step) = at[Position(es, id)]
  BY Zenon DEF Along
<1>. HIDE DEF at
<1>8. at[0] = 0
  <2>1. 0 \in 0..n
    BY <1>1
  <2>. QED
    BY <1>6, <2>1, Zenon
<1>9. ASSUME NEW p \in 1..n
      PROVE  at[p] = step[es[p]][at[Position(es, es[p].parent)]]
  <2>1. p \in 0..n /\ p # 0
    BY <1>1
  <2>. QED
    BY <1>6, <2>1, Zenon
<1>10. \A k \in 0..n : at[k] \in Nat
  <2>. DEFINE G == {k \in 0..n : at[k] \in Nat}
  <2>1. 0 \in G
    <3>1. 0 \in 0..n
      BY <1>1
    <3>. QED
      BY <1>1, <1>8, <3>1, Zenon
  <2>2. ASSUME NEW k \in 1..n, \A m \in 0..(k - 1) : m \in G PROVE k \in G
    <3>1. at[Position(es, es[k].parent)] \in Nat
      BY <2>2, PositionFacts
    <3>2. step[es[k]] \in [Nat -> Nat]
      <4>1. es[k] \in Entries
        OBVIOUS
      <4>. QED
        BY <4>1 DEF StepTable
    <3>3. at[k] \in Nat
      <4>1. step[es[k]][at[Position(es, es[k].parent)]] \in Nat
        BY <3>1, <3>2
      <4>. QED
        BY <1>9, <4>1, Zenon
    <3>4. k \in 0..n
      OBVIOUS
    <3>. QED
      BY <3>3, <3>4, Zenon
  <2>3. \A k \in 0..n : k \in G
    <3>. HIDE DEF G
    <3>. QED
      BY <1>1, <2>1, <2>2, UpToInduction, Zenon
  <2>. QED
    BY <2>3
<1>11. \A id : Position(es, id) \in 0..n
  BY DEF Position
<1>12. \A p \in 1..n : Position(es, es[p].id) = p
  BY PositionFacts
<1>13. Position(es, 0) = 0
  BY PositionFacts
<1>14. Along(es, 0, step) = 0
  BY <1>7, <1>8, <1>13
<1>15. \A id : Along(es, id, step) \in Nat
  BY <1>7, <1>10, <1>11
<1>16. \A p \in 1..n :
         Along(es, es[p].id, step) = step[es[p]][Along(es, es[p].parent, step)]
  <2>1. \A p \in 1..n : Along(es, es[p].id, step) = at[p]
    BY <1>7, <1>12
  <2>2. \A p \in 1..n :
          Along(es, es[p].parent, step) = at[Position(es, es[p].parent)]
    BY <1>7
  <2>. QED
    BY <1>9, <2>1, <2>2
<1>. QED
  BY <1>14, <1>15, <1>16, Zenon

\* Every entry of a is in b, under its own parent or an entry put in between of
\* those in T.
Threads(a, b, T) ==
  \A p \in 1..Len(a) : \E q \in 1..Len(b) :
    /\ b[q].id = a[p].id /\ b[q].role = a[p].role /\ b[q].n = a[p].n
    /\ \/ b[q].parent = a[p].parent
       \/ \E r \in 1..Len(b) :
            b[r].id = b[q].parent /\ b[r].parent = a[p].parent /\ b[r] \in T

\* A step that reads of an entry its role and its number.
ReadsRole(step) ==
  \A d, e \in Entries : d.role = e.role /\ d.n = e.n => step[d] = step[e]

\* Entries that leave the number as it is.
Inert(step) == {e \in Entries : \A x \in Nat : step[e][x] = x}

\* Then the number read along the path is the same.
LEMMA ThreadsAlong ==
  ASSUME NEW a \in Seq(Entries), GrowsOn(a, {0}), NEW b \in Seq(Entries), GrowsOn(b, {0}),
         NEW step \in StepTable, ReadsRole(step), Threads(a, b, Inert(step))
  PROVE  \A id \in {0} \cup IdsOf(a) : Along(a, id, step) = Along(b, id, step)
<1>. DEFINE n == Len(a)
            A(id) == Along(a, id, step)
            B(id) == Along(b, id, step)
            G == {k \in 0..n : k = 0 \/ A(a[k].id) = B(a[k].id)}
<1>0. /\ A(0) = 0 /\ B(0) = 0 /\ \A id : A(id) \in Nat
      /\ \A id : B(id) \in Nat
      /\ \A p \in 1..n : A(a[p].id) = step[a[p]][A(a[p].parent)]
      /\ \A p \in 1..Len(b) : B(b[p].id) = step[b[p]][B(b[p].parent)]
  BY AlongSteps
<1>. HIDE DEF A, B
<1>1. n \in Nat /\ 0 \in G
  OBVIOUS
<1>2. ASSUME NEW k \in 1..n, \A m \in 0..(k - 1) : m \in G PROVE k \in G
  <2>1. A(a[k].parent) = B(a[k].parent)
    <3>1. CASE a[k].parent = 0
      BY <1>0, <3>1
    <3>2. CASE a[k].parent # 0
      <4>1. PICK q \in 1..(k - 1) : a[q].id = a[k].parent
        BY <3>2 DEF GrowsOn
      <4>2. q \in 0..(k - 1) /\ q # 0
        OBVIOUS
      <4>3. q \in G
        <5>. HIDE DEF G
        <5>. QED
          BY <1>2, <4>2
      <4>. QED
        BY <4>1, <4>2, <4>3
    <3>. QED
      BY <3>1, <3>2
  <2>2. PICK q \in 1..Len(b) :
          /\ b[q].id = a[k].id /\ b[q].role = a[k].role /\ b[q].n = a[k].n
          /\ \/ b[q].parent = a[k].parent
             \/ \E r \in 1..Len(b) : /\ b[r].id = b[q].parent /\ b[r].parent = a[k].parent
                                     /\ b[r] \in Inert(step)
    BY DEF Threads
  <2>3. B(a[k].parent) = B(b[q].parent)
    <3>1. CASE b[q].parent = a[k].parent
      BY <3>1
    <3>2. CASE \E r \in 1..Len(b) : /\ b[r].id = b[q].parent /\ b[r].parent = a[k].parent
                                    /\ b[r] \in Inert(step)
      <4>1. PICK r \in 1..Len(b) : /\ b[r].id = b[q].parent /\ b[r].parent = a[k].parent
                                   /\ b[r] \in Inert(step)
        BY <3>2
      <4>2. \A x \in Nat : step[b[r]][x] = x
        BY <4>1 DEF Inert
      <4>. QED
        BY <1>0, <4>1, <4>2
    <3>. QED
      BY <2>2, <3>1, <3>2
  <2>4. step[a[k]] = step[b[q]]
    <3>1. a[k] \in Entries /\ b[q] \in Entries
      OBVIOUS
    <3>. QED
      BY <2>2, <3>1 DEF ReadsRole
  <2>5. A(a[k].id) = step[a[k]][A(a[k].parent)] /\ B(b[q].id) = step[b[q]][B(b[q].parent)]
    BY <1>0
  <2>6. A(a[k].id) = B(a[k].id)
    BY <2>1, <2>2, <2>3, <2>4, <2>5
  <2>7. k \in 0..n
    OBVIOUS
  <2>. QED
    BY <2>6, <2>7, Zenon
<1>3. \A k \in 0..n : k \in G
  <2>. HIDE DEF G
  <2>. QED
    BY <1>1, <1>2, UpToInduction, Zenon
<1>4. ASSUME NEW p \in 1..n PROVE A(a[p].id) = B(a[p].id)
  <2>1. p \in 0..n /\ p # 0
    OBVIOUS
  <2>. QED
    BY <1>3, <2>1, Zenon
<1>. QED
  BY <1>0, <1>4 DEF IdsOf, A, B

\* b begins with the entries of a.
Begins(a, b) == Len(a) <= Len(b) /\ \A p \in 1..Len(a) : b[p] = a[p]

\* A log threads what begins it.
LEMMA BeginsThreads ==
  ASSUME NEW a \in Seq(Entries), NEW b \in Seq(Entries), Begins(a, b), NEW T
  PROVE  Threads(a, b, T)
<1>1. \A p \in 1..Len(a) : p \in 1..Len(b) /\ b[p] = a[p]
  BY DEF Begins
<1>. QED
  BY <1>1 DEF Threads

\* Two logs, one after the other, begin with the first.
LEMMA ConcatBegins ==
  ASSUME NEW a \in Seq(Entries), NEW b \in Seq(Entries)
  PROVE  Begins(a, a \o b)
BY DEF Begins

\* What holds of no entry, and of an entry when it holds of its parent, holds of all.
LEMMA TreeInduction ==
  ASSUME NEW es \in Seq(Entries), GrowsOn(es, {0}), NEW G, 0 \in G,
         \A p \in 1..Len(es) : es[p].parent \in G => es[p].id \in G
  PROVE  {0} \cup IdsOf(es) \subseteq G
<1>. DEFINE n == Len(es)
            H == {k \in 0..n : k = 0 \/ es[k].id \in G}
<1>1. n \in Nat /\ 0 \in H
  OBVIOUS
<1>2. ASSUME NEW k \in 1..n, \A m \in 0..(k - 1) : m \in H PROVE k \in H
  <2>1. es[k].parent \in G
    <3>1. CASE es[k].parent = 0
      BY <3>1
    <3>2. CASE es[k].parent # 0
      <4>1. PICK q \in 1..(k - 1) : es[q].id = es[k].parent
        BY <3>2 DEF GrowsOn
      <4>2. q \in 0..(k - 1) /\ q # 0
        OBVIOUS
      <4>3. q \in H
        <5>. HIDE DEF H
        <5>. QED
          BY <1>2, <4>2
      <4>. QED
        BY <4>1, <4>2, <4>3
    <3>. QED
      BY <3>1, <3>2
  <2>2. es[k].id \in G /\ k \in 0..n
    BY <2>1
  <2>. QED
    BY <2>2, Zenon
<1>3. \A k \in 0..n : k \in H
  <2>. HIDE DEF H
  <2>. QED
    BY <1>1, <1>2, UpToInduction, Zenon
<1>4. ASSUME NEW p \in 1..n PROVE es[p].id \in G
  <2>1. p \in 0..n /\ p # 0
    OBVIOUS
  <2>. QED
    BY <1>3, <2>1, Zenon
<1>. QED
  BY <1>4 DEF IdsOf

\* The length of messages that are kept, and of some with one before them.
LEMMA KeptLength == \A ms \in Seq(Kept) : Len(ms) \in Nat
OBVIOUS

\* ... which is not 0 where there are any,
LEMMA SomeKept ==
  ASSUME NEW ms \in Seq(Kept), ms # <<>>
  PROVE  Len(ms) \in Nat /\ Len(ms) # 0 /\ Len(ms) \in 1..Len(ms)
<1>1. Len(ms) # 0
  BY EmptySeq
<1>. QED
  BY <1>1

\* ... and one more with another before them.
LEMMA PrependIs ==
  ASSUME NEW m \in Kept, NEW r \in Seq(Kept)
  PROVE  /\ <<m>> \o r \in Seq(Kept) /\ Len(<<m>> \o r) = 1 + Len(r)
         /\ <<m>> \o r # <<>> /\ (<<m>> \o r)[1] = m
         /\ \A i \in 1..Len(r) : (<<m>> \o r)[1 + i] = r[i]
<1>. DEFINE a == <<m>>
            ms == a \o r
<1>1. a \in Seq(Kept) /\ Len(a) = 1 /\ a[1] = m
  OBVIOUS
<1>. HIDE DEF a
<1>2. /\ ms \in Seq(Kept) /\ Len(ms) = Len(a) + Len(r)
      /\ \A k \in 1..(Len(a) + Len(r)) :
           ms[k] = IF k <= Len(a) THEN a[k] ELSE r[k - Len(a)]
  BY <1>1, ConcatProperties, Zenon
<1>0. Len(r) \in Nat
  OBVIOUS
<1>. HIDE DEF ms
<1>3. ms[1] = m /\ \A i \in 1..Len(r) : ms[1 + i] = r[i]
  BY <1>0, <1>1, <1>2
<1>4. ms # <<>>
  BY <1>0, <1>1, <1>2
<1>. QED
  BY <1>1, <1>2, <1>3, <1>4 DEF ms, a

\* The messages of a chain.
LEMMA ChainMessages ==
  ASSUME NEW ms \in Seq(Kept), NEW parent \in Nat, NEW next \in Nat \ {0}
  PROVE  \A p \in 1..Len(ms) : /\ Chain(ms, parent, next)[p].role = ms[p].role
                               /\ Chain(ms, parent, next)[p].n = ms[p].n
BY DEF Chain

\* What each of these messages makes of what it finds.
Moves(ms, d, step) ==
  \A k \in 1..Len(ms) : \A e \in Entries :
    e.role = ms[k].role /\ e.n = ms[k].n => d[k] = step[e][d[k - 1]]

\* A chain in b of that many entries from next on, and what is read along it.
ReadsAs(b, len, next, parentOf, step, d) ==
  \A k \in 1..len : /\ Along(b, next + k - 1, step) = d[k]
                     /\ Along(b, parentOf[k].parent, step) = d[k - 1]

\* Along a chain, a message steps from where the one before it is.
LEMMA ChainAlong ==
  ASSUME NEW a \in Seq(Entries), GrowsOn(a, {0}), NEW ms \in Seq(Kept),
         NEW parent \in {0} \cup IdsOf(a), parent \in Nat, NEW next \in Nat \ {0},
         NEW b, b = a \o Chain(ms, parent, next), GrowsOn(b, {0}),
         NEW step \in StepTable, ReadsRole(step),
         NEW d, d[0] = Along(a, parent, step), Moves(ms, d, step)
  PROVE  ReadsAs(b, Len(ms), next, Chain(ms, parent, next), step, d)
<1>. DEFINE c == Chain(ms, parent, next)
            n == Len(ms)
            B(id) == Along(b, id, step)
            G == {k \in 0..n : k = 0 \/ (B(next + k - 1) = d[k] /\ B(c[k].parent) = d[k - 1])}
<1>1. /\ c \in Seq(Entries) /\ Len(c) = n /\ n \in Nat
      /\ \A p \in 1..n : /\ c[p].id = next + p - 1
                         /\ c[p].parent = IF p = 1 THEN parent ELSE next + p - 2
      /\ \A p \in 1..n : c[p].role = ms[p].role /\ c[p].n = ms[p].n
  BY ChainIs, ChainMessages
<1>2. b = a \o c
  OBVIOUS
<1>. HIDE DEF c
<1>3. /\ b \in Seq(Entries)
      /\ \A p \in 1..n : Len(a) + p \in 1..Len(b) /\ b[Len(a) + p] = c[p]
  BY <1>1, <1>2
<1>4. B(parent) = d[0]
  <2>1. Threads(a, b, Inert(step))
    <3>1. Begins(a, b)
      BY <1>1, <1>2, ConcatBegins
    <3>. QED
      BY <1>3, <3>1, BeginsThreads
  <2>2. \A id \in {0} \cup IdsOf(a) : Along(a, id, step) = Along(b, id, step)
    BY <1>3, <2>1, ThreadsAlong
  <2>. QED
    BY <2>2
<1>5. ASSUME NEW p \in 1..n
      PROVE  B(c[p].id) = step[c[p]][B(c[p].parent)]
  <2>1. \A q \in 1..Len(b) : B(b[q].id) = step[b[q]][B(b[q].parent)]
    BY <1>3, AlongSteps
  <2>2. Len(a) + p \in 1..Len(b) /\ b[Len(a) + p] = c[p]
    BY <1>3
  <2>. HIDE DEF B
  <2>. QED
    BY <2>1, <2>2
<1>6. \A p \in 1..n : d[p] = step[c[p]][d[p - 1]]
  <2>1. \A p \in 1..n : c[p] \in Entries
    BY <1>1
  <2>. QED
    BY <1>1, <2>1 DEF Moves
<1>. HIDE DEF B
<1>7. 0 \in G
  BY <1>1
<1>8. ASSUME NEW k \in 1..n, \A m \in 0..(k - 1) : m \in G PROVE k \in G
  <2>0. k \in 0..n /\ k \in Nat /\ k # 0
    BY <1>1
  <2>1. B(c[k].parent) = d[k - 1]
    <3>1. CASE k = 1
      <4>1. c[k].parent = parent /\ k - 1 = 0
        BY <1>1, <3>1
      <4>. QED
        BY <1>4, <4>1
    <3>2. CASE k # 1
      <4>1. k - 1 \in 0..(k - 1) /\ k - 1 # 0
        BY <2>0, <3>2
      <4>2. k - 1 \in G
        <5>. HIDE DEF G
        <5>. QED
          BY <1>8, <4>1
      <4>3. B(next + (k - 1) - 1) = d[k - 1]
        BY <4>1, <4>2
      <4>4. c[k].parent = next + (k - 1) - 1
        BY <1>1, <2>0, <3>2
      <4>. QED
        BY <4>3, <4>4
    <3>. QED
      BY <3>1, <3>2
  <2>2. B(next + k - 1) = d[k]
    <3>1. c[k].id = next + k - 1
      BY <1>1
    <3>. QED
      BY <1>5, <1>6, <2>1, <3>1
  <2>. QED
    BY <2>0, <2>1, <2>2, Zenon
<1>9. \A k \in 0..n : k \in G
  <2>. HIDE DEF G
  <2>. QED
    BY <1>1, <1>7, <1>8, UpToInduction, Zenon
<1>10. ASSUME NEW k \in 1..n PROVE B(next + k - 1) = d[k] /\ B(c[k].parent) = d[k - 1]
  <2>1. k \in 0..n /\ k # 0
    BY <1>1
  <2>. QED
    BY <1>9, <2>1, Zenon
<1>. QED
  BY <1>10 DEF B, c, ReadsAs

\* The last entry with a role of a path with one more entry.
LEMMA LastOfAppend ==
  ASSUME NEW path \in Seq(Entries), NEW e \in Entries, NEW roles
  PROVE  /\ e.role \in roles => LastOf(Append(path, e), roles) = Len(path) + 1
         /\ e.role \notin roles => LastOf(Append(path, e), roles) = LastOf(path, roles)
<1>. DEFINE b == Append(path, e)
            n == Len(path)
            m == LastOf(path, roles)
            k == LastOf(b, roles)
<1>1. /\ b \in Seq(Entries) /\ Len(b) = n + 1 /\ n \in Nat /\ b[n + 1] = e
      /\ \A q \in 1..n : b[q] = path[q]
  OBVIOUS
<1>. HIDE DEF b
<1>2. /\ m \in 0..n /\ (m # 0 => path[m].role \in roles)
      /\ \A q \in (m + 1)..n : path[q].role \notin roles
  BY LastOfIs
<1>3. /\ k \in 0..(n + 1) /\ (k # 0 => b[k].role \in roles)
      /\ \A q \in (k + 1)..(n + 1) : b[q].role \notin roles
  BY <1>1, LastOfIs
<1>. HIDE DEF m, k, n
<1>4. CASE e.role \in roles
  <2>1. n + 1 \notin (k + 1)..(n + 1)
    BY <1>1, <1>3, <1>4
  <2>. QED
    BY <1>1, <1>3, <1>4, <2>1 DEF k, n, b
<1>5. CASE e.role \notin roles
  <2>1. k # n + 1
    BY <1>1, <1>3, <1>5
  <2>2. ~(m < k)
    <3>1. ASSUME m < k PROVE FALSE
      <4>1. k \in (m + 1)..n /\ k # 0 /\ k \in 1..n
        BY <1>1, <1>2, <1>3, <2>1, <3>1
      <4>. QED
        BY <1>1, <1>2, <1>3, <4>1
    <3>. QED
      BY <3>1
  <2>3. ~(k < m)
    <3>1. ASSUME k < m PROVE FALSE
      <4>1. m \in (k + 1)..(n + 1) /\ m # 0 /\ m \in 1..n
        BY <1>1, <1>2, <1>3, <3>1
      <4>. QED
        BY <1>1, <1>2, <1>3, <4>1
    <3>. QED
      BY <3>1
  <2>4. k = m
    BY <1>1, <1>2, <1>3, <2>2, <2>3
  <2>. QED
    BY <1>5, <2>4 DEF k, m, b
<1>. QED
  BY <1>4, <1>5

\* Nothing is last in an empty path.
LEMMA LastOfNothing == \A roles : LastOf(<<>>, roles) = 0
BY DEF LastOf

-----------------------------------------------------------------------------
(* The mode *)

\* The mode in force at an entry: the last one set on the path to it.
ModeStep == [e \in Entries |-> [x \in Nat |-> IF e.role = "mode" THEN e.n ELSE x]]
ModeAt(es, id) == Along(es, id, ModeStep)

\* The mode is read from role and number alone, and only a mode entry sets it.
LEMMA ModeSteps ==
  /\ ModeStep \in StepTable /\ ReadsRole(ModeStep)
  /\ \A e \in Entries : e.role # "mode" => e \in Inert(ModeStep)
<1>1. \A e \in Entries : e.n \in Nat
  BY DEF Entries
<1>2. ModeStep \in StepTable
  BY <1>1 DEF ModeStep, StepTable
<1>3. \A e \in Entries :
        ModeStep[e] = [x \in Nat |-> IF e.role = "mode" THEN e.n ELSE x]
  BY DEF ModeStep
<1>4. ReadsRole(ModeStep)
  <2>. DEFINE F(role, n) == [x \in Nat |-> IF role = "mode" THEN n ELSE x]
  <2>1. \A e \in Entries : ModeStep[e] = F(e.role, e.n)
    BY <1>3
  <2>. HIDE DEF F
  <2>. QED
    BY <2>1 DEF ReadsRole
<1>5. \A e \in Entries : e.role # "mode" => e \in Inert(ModeStep)
  BY <1>3 DEF Inert
<1>. QED
  BY <1>2, <1>4, <1>5

\* What a resume restores is the mode in force at the leaf.
LEMMA ModeIsRead ==
  ASSUME NEW es \in Seq(Entries), GrowsOn(es, {0})
  PROVE  ContextMode(es) = ModeAt(es, LeafId(es))
<1>. DEFINE Read(path) == IF LastOf(path, {"mode"}) = 0 THEN 0
                          ELSE path[LastOf(path, {"mode"})].n
            G == {id \in {0} \cup IdsOf(es) : Read(PathFrom(es, id)) = ModeAt(es, id)}
<1>0. /\ ModeAt(es, 0) = 0 /\ \A id : ModeAt(es, id) \in Nat
      /\ \A p \in 1..Len(es) :
           ModeAt(es, es[p].id) = ModeStep[es[p]][ModeAt(es, es[p].parent)]
  BY AlongSteps, ModeSteps DEF ModeAt
<1>1. 0 \in G
  <2>1. PathFrom(es, 0) = <<>>
    BY Paths, Zenon
  <2>. QED
    BY <1>0, <2>1, LastOfNothing
<1>2. ASSUME NEW p \in 1..Len(es), es[p].parent \in G PROVE es[p].id \in G
  <2>. DEFINE s == PathFrom(es, es[p].parent)
              t == PathFrom(es, es[p].id)
              e == es[p]
              m == ModeAt(es, es[p].parent)
  <2>1. s \in Seq(Entries) /\ t = Append(s, e) /\ e \in Entries
    BY Paths, PathMembers
  <2>2. Read(s) = m
    BY <1>2
  <2>3. ModeAt(es, es[p].id) = IF e.role = "mode" THEN e.n ELSE m
    <3>1. ModeStep[e] = [x \in Nat |-> IF e.role = "mode" THEN e.n ELSE x]
      BY <2>1 DEF ModeStep
    <3>2. ModeAt(es, es[p].id) = ModeStep[e][m] /\ m \in Nat
      BY <1>0
    <3>. HIDE DEF m, e
    <3>. QED
      BY <3>1, <3>2
  <2>4. es[p].id \in IdsOf(es)
    BY DEF IdsOf
  <2>. HIDE DEF s, t, e, m
  <2>5. LastOf(t, {"mode"}) = IF e.role = "mode" THEN Len(s) + 1 ELSE LastOf(s, {"mode"})
    <3>1. s \in Seq(Entries)
      BY <2>1
    <3>2. e \in Entries
      BY <2>1
    <3>3. t = Append(s, e)
      BY <2>1
    <3>. DEFINE R == {"mode"}
    <3>4. (e.role \in R) = (e.role = "mode")
      OBVIOUS
    <3>. HIDE DEF R
    <3>5. /\ e.role \in R => LastOf(t, R) = Len(s) + 1
          /\ e.role \notin R => LastOf(t, R) = LastOf(s, R)
      BY <3>1, <3>2, <3>3, LastOfAppend
    <3>6. LastOf(t, R) = IF e.role = "mode" THEN Len(s) + 1 ELSE LastOf(s, R)
      BY <3>4, <3>5
    <3>. QED
      BY <3>6 DEF R
  <2>6. LastOf(s, {"mode"}) \in 0..Len(s)
    BY <2>1, LastOfIs
  <2>7. Read(t) = IF e.role = "mode" THEN e.n ELSE Read(s)
    <3>1. /\ Len(s) \in Nat /\ t[Len(s) + 1] = e /\ \A k \in 1..Len(s) : t[k] = s[k]
      BY <2>1
    <3>2. CASE e.role = "mode"
      BY <2>5, <3>1, <3>2
    <3>3. CASE e.role # "mode"
      BY <2>5, <2>6, <3>1, <3>3
    <3>. QED
      BY <3>2, <3>3
  <2>8. Read(t) = ModeAt(es, es[p].id)
    BY <2>2, <2>3, <2>7
  <2>. QED
    BY <2>4, <2>8 DEF t
<1>3. {0} \cup IdsOf(es) \subseteq G
  <2>. HIDE DEF G
  <2>. QED
    BY <1>1, <1>2, TreeInduction
<1>4. LeafId(es) \in {0} \cup IdsOf(es)
  BY LeafIdIs
<1>5. Read(PathFrom(es, LeafId(es))) = ModeAt(es, LeafId(es))
  BY <1>3, <1>4
<1>6. ContextMode(es) = Read(PathFrom(es, LeafId(es)))
  BY Zenon DEF ContextMode, Path
<1>. QED
  BY <1>5, <1>6

\* Steps that every message leaves as they are.
Silent ==
  {step \in StepTable :
     ReadsRole(step) /\ \A e \in Entries : e.role \in MessageRoles => e \in Inert(step)}

\* The same is read at an entry of one log and at an entry of another.
ReadsSame(b, id, a, parent, step) == Along(b, id, step) = Along(a, parent, step)

\* What is read at the end of a chain of messages is what is read where it hangs.
LEMMA ChainInert ==
  ASSUME NEW a \in Seq(Entries), GrowsOn(a, {0}), NEW ms \in Seq(Kept), ms # <<>>,
         NEW parent \in {0} \cup IdsOf(a), parent \in Nat, NEW next \in Nat \ {0},
         NEW b, b = a \o Chain(ms, parent, next), GrowsOn(b, {0}),
         NEW step \in Silent
  PROVE  ReadsSame(b, next + Len(ms) - 1, a, parent, step)
<1>. DEFINE n == Len(ms)
            x == Along(a, parent, step)
            d == [k \in 0..n |-> x]
<1>0. /\ step \in StepTable /\ ReadsRole(step)
      /\ \A e \in Entries : e.role \in MessageRoles => e \in Inert(step)
  BY DEF Silent
<1>1. n \in Nat /\ n # 0 /\ n \in 1..n
  <2>1. Len(ms) \in Nat /\ Len(ms) # 0
    BY EmptySeq
  <2>. QED
    BY <2>1
<1>2. x \in Nat
  BY <1>0, AlongSteps
<1>. HIDE DEF x
<1>3. d[0] = Along(a, parent, step) /\ \A k \in 1..n : d[k] = x /\ d[k - 1] = x
  BY <1>1 DEF x
<1>4. \A k \in 1..n : \A e \in Entries :
        e.role = ms[k].role /\ e.n = ms[k].n => d[k] = step[e][d[k - 1]]
  <2>1. \A k \in 1..n : ms[k].role \in MessageRoles
    <3>1. \A k \in 1..n : ms[k] \in Kept
      BY <1>1
    <3>. QED
      BY <3>1 DEF Kept
  <2>2. \A e \in Inert(step) : step[e][x] = x
    BY <1>0, <1>2 DEF Inert
  <2>. QED
    BY <1>0, <1>3, <2>1, <2>2
<1>. HIDE DEF d
<1>5. \A k \in 1..n : Along(b, next + k - 1, step) = d[k]
  <2>1. d[0] = Along(a, parent, step)
    BY <1>3
  <2>2. Moves(ms, d, step)
    BY <1>4 DEF Moves
  <2>3. ReadsAs(b, Len(ms), next, Chain(ms, parent, next), step, d)
    BY <1>0, <2>1, <2>2, ChainAlong, Zenon
  <2>. QED
    BY <2>3 DEF ReadsAs
<1>. QED
  BY <1>1, <1>3, <1>5 DEF x, ReadsSame

\* An entry at the end of a log steps from where its parent is, and the others stay.
ReadsLast(a, e, b, step) ==
  /\ LeafId(b) = e.id
  /\ \A id \in {0} \cup IdsOf(a) : Along(b, id, step) = Along(a, id, step)
  /\ Along(b, e.id, step) = step[e][Along(a, e.parent, step)]

\* ... when it is the last.
LEMMA LastAlong ==
  ASSUME NEW a \in Seq(Entries), GrowsOn(a, {0}), NEW e \in Entries,
         e.parent \in {0} \cup IdsOf(a),
         NEW b, b = a \o <<e>>, GrowsOn(b, {0}), NEW step \in StepTable, ReadsRole(step)
  PROVE  ReadsLast(a, e, b, step)
<1>1. /\ b \in Seq(Entries) /\ Len(b) = Len(a) + 1 /\ b[Len(b)] = e
      /\ <<e>> \in Seq(Entries) /\ Len(b) \in 1..Len(b) /\ b # <<>>
  OBVIOUS
<1>2. Begins(a, b)
  BY <1>1, ConcatBegins
<1>3. Threads(a, b, Inert(step))
  BY <1>1, <1>2, BeginsThreads
<1>4. \A id \in {0} \cup IdsOf(a) : Along(b, id, step) = Along(a, id, step)
  BY <1>1, <1>3, ThreadsAlong
<1>5. LeafId(b) = e.id
  BY <1>1 DEF LeafId
<1>6. Along(b, b[Len(b)].id, step) = step[b[Len(b)]][Along(b, b[Len(b)].parent, step)]
  BY <1>1, AlongSteps
<1>. QED
  BY <1>1, <1>4, <1>5, <1>6 DEF ReadsLast

-----------------------------------------------------------------------------
(* The operations of a journal, as what they make of all its entries *)

\* Messages that are staged are a chain at the end of all the entries.
LEMMA StagedAll ==
  ASSUME NEW j, JournalOK(j), NEW ms \in Seq(Kept)
  PROVE  LET k == Stage(j, ms)
         IN  /\ JournalOK(k) /\ k.entries = j.entries
             /\ All(k) = All(j) \o Chain(ms, j.leaf, j.nextId)
             /\ k.staged = j.staged \o Chain(ms, j.leaf, j.nextId)
             /\ ms = <<>> => k.leaf = j.leaf /\ All(k) = All(j) /\ k.staged = j.staged
             /\ ms # <<>> => k.leaf = j.nextId + Len(ms) - 1
<1>. DEFINE k == Stage(j, ms)
            c == Chain(ms, j.leaf, j.nextId)
<1>1. /\ j \in Journals /\ j.entries \in Seq(Entries) /\ j.staged \in Seq(Entries)
      /\ j.leaf \in Nat /\ j.nextId \in Nat \ {0}
  BY JournalParts, Zenon
<1>2. /\ k.entries = j.entries /\ k.staged = j.staged \o c
      /\ k.leaf = IF ms = <<>> THEN j.leaf ELSE j.nextId + Len(ms) - 1
  BY <1>1, StageIs, Zenon DEF Has
<1>3. c \in Seq(Entries) /\ Len(c) = Len(ms)
  BY <1>1, ChainIs
<1>4. JournalOK(k)
  BY StageKeeps
<1>5. All(j) \in Seq(Entries)
  BY AllIs, Zenon
<1>. HIDE DEF k
<1>6. All(k) = All(j) \o c
  <2>. HIDE DEF c
  <2>1. All(k) = j.entries \o (j.staged \o c) /\ All(j) = j.entries \o j.staged
    BY <1>2, Zenon DEF All
  <2>2. (j.entries \o j.staged) \o c = j.entries \o (j.staged \o c)
    BY <1>1, <1>3, ConcatTwice, Zenon
  <2>. QED
    BY <2>1, <2>2, Zenon
<1>7. ASSUME ms = <<>> PROVE k.leaf = j.leaf /\ All(k) = All(j) /\ k.staged = j.staged
  <2>1. c = <<>>
    BY <1>3, <1>7, EmptySeq
  <2>. HIDE DEF c
  <2>. QED
    BY <1>1, <1>2, <1>5, <1>6, <1>7, <2>1
<1>8. ms # <<>> => k.leaf = j.nextId + Len(ms) - 1
  BY <1>2
<1>. QED
  BY <1>2, <1>4, <1>6, <1>7, <1>8 DEF k

\* A flush commits all the entries there are.
LEMMA FlushedAll ==
  ASSUME NEW j, JournalOK(j)
  PROVE  LET k == Flush(j)
         IN  /\ JournalOK(k) /\ k.entries = All(j) /\ k.staged = <<>> /\ All(k) = All(j)
             /\ k.leaf = j.leaf
             /\ LeafId(All(j)) = IF j.staged = <<>> THEN LeafId(j.entries) ELSE j.leaf
<1>. DEFINE k == Flush(j)
<1>1. j \in Journals /\ j.entries \in Seq(Entries) /\ j.staged \in Seq(Entries)
      /\ (j.staged # <<>> => j.leaf = LeafId(j.staged))
  BY JournalParts, Zenon
<1>2. k.entries = All(j) /\ k.staged = <<>> /\ k.leaf = j.leaf
  BY <1>1, FlushIs, Zenon DEF Has, All
<1>3. JournalOK(k)
  BY FlushKeeps
<1>. HIDE DEF k
<1>4. All(k) = All(j)
  <2>1. All(j) \in Seq(Entries)
    BY AllIs, Zenon
  <2>. QED
    BY <1>2, <2>1 DEF All
<1>5. LeafId(All(j)) = IF j.staged = <<>> THEN LeafId(j.entries) ELSE LeafId(j.staged)
  BY <1>1, LeafOfConcat, Zenon DEF All
<1>. QED
  BY <1>1, <1>2, <1>3, <1>4, <1>5 DEF k

\* An entry put between two logs.
LEMMA BetweenThreads ==
  ASSUME NEW a \in Seq(Entries), NEW s \in Seq(Entries), NEW e \in Entries, NEW T
  PROVE  Threads(a \o s, (a \o <<e>>) \o s, T)
<1>. DEFINE b == (a \o <<e>>) \o s
<1>1. ASSUME NEW p \in 1..Len(a \o s)
      PROVE  \E q \in 1..Len(b) : b[q] = (a \o s)[p]
  <2>1. CASE p <= Len(a)
    <3>1. p \in 1..Len(b) /\ b[p] = (a \o s)[p]
      BY <2>1
    <3>. QED
      BY <3>1
  <2>2. CASE p > Len(a)
    <3>1. p + 1 \in 1..Len(b) /\ b[p + 1] = (a \o s)[p]
      BY <2>2
    <3>. QED
      BY <3>1
  <2>3. p \in Int /\ Len(a) \in Int
    OBVIOUS
  <2>. QED
    BY <2>1, <2>2, <2>3
<1>. QED
  BY <1>1 DEF Threads

\* A committed entry leaves the others as they were.
LEMMA AppendedAll ==
  ASSUME NEW j, JournalOK(j), NEW role \in EntryRoles, NEW n \in Nat
  PROVE  LET k == AppendCommitted(j, role, n)
             e == [id |-> j.nextId, parent |-> LeafId(j.entries), role |-> role, n |-> n]
         IN  /\ JournalOK(k) /\ e \in Entries
             /\ k.entries = j.entries \o <<e>> /\ k.staged = j.staged /\ k.leaf = j.leaf
             /\ All(k) = (j.entries \o <<e>>) \o j.staged
             /\ \A T : Threads(All(j), All(k), T)
<1>. DEFINE k == AppendCommitted(j, role, n)
            e == [id |-> j.nextId, parent |-> LeafId(j.entries), role |-> role, n |-> n]
<1>1. j \in Journals /\ j.entries \in Seq(Entries) /\ j.staged \in Seq(Entries)
  BY JournalParts, Zenon
<1>2. e \in Entries
  BY <1>1, AppendIs
<1>3. /\ k.entries = j.entries \o <<e>> /\ k.staged = j.staged /\ k.leaf = j.leaf
  BY <1>1, AppendIs, Zenon DEF Has
<1>4. JournalOK(k)
  BY AppendKeeps
<1>. HIDE DEF k, e
<1>5. All(k) = (j.entries \o <<e>>) \o j.staged /\ All(j) = j.entries \o j.staged
  BY <1>3 DEF All
<1>6. \A T : Threads(All(j), All(k), T)
  BY <1>1, <1>2, <1>5, BetweenThreads
<1>. QED
  BY <1>2, <1>3, <1>4, <1>5, <1>6 DEF k, e

\* A checkpoint hangs from where the first staged entry hung, and the others from it.
LEMMA CompactedAll ==
  ASSUME NEW j, JournalOK(j), NEW native \in Nat
  PROVE  LET k == StageCompaction(j, native)
             base == IF j.staged = <<>> THEN j.leaf ELSE j.staged[1].parent
             e == CompactionEntry(j.nextId, base, native)
             r == Rehung(j.staged, j.nextId)
         IN  /\ JournalOK(k) /\ e \in Entries /\ k.entries = j.entries
             /\ base \in {0} \cup IdsOf(j.entries)
             /\ r \in Seq(Entries) /\ Len(r) = Len(j.staged)
             /\ k.staged = <<e>> \o r /\ All(k) = j.entries \o (<<e>> \o r)
             /\ \A i \in 1..Len(j.staged) :
                  /\ r[i].id = j.staged[i].id /\ r[i].role = j.staged[i].role
                  /\ r[i].n = j.staged[i].n
                  /\ r[i].parent = IF i = 1 THEN j.nextId ELSE j.staged[i].parent
             /\ k.leaf = IF j.staged = <<>> THEN j.nextId ELSE j.leaf
             /\ Threads(All(j), All(k), {e})
<1>. DEFINE k == StageCompaction(j, native)
            base == IF j.staged = <<>> THEN j.leaf ELSE j.staged[1].parent
            e == CompactionEntry(j.nextId, base, native)
            r == Rehung(j.staged, j.nextId)
            a == j.entries
            s == j.staged
            b == a \o (<<e>> \o r)
<1>1. /\ j.entries \in Seq(Entries) /\ j.staged \in Seq(Entries) /\ j.nextId \in Nat
  BY JournalParts, Zenon
<1>2. e \in Entries /\ r \in Seq(Entries) /\ base \in {0} \cup IdsOf(j.entries)
  BY CompactionIs, Zenon
<1>3. /\ k.entries = j.entries /\ k.staged = <<e>> \o r
      /\ k.leaf = IF j.staged = <<>> THEN j.nextId ELSE j.leaf
  BY CompactionIs, Zenon DEF Has
<1>4. JournalOK(k)
  BY CompactionKeeps
<1>5. e.id = j.nextId /\ e.parent = base
  BY DEF CompactionEntry
<1>6. Len(r) = Len(j.staged)
  BY DEF Rehung
<1>7. \A i \in 1..Len(s) : /\ r[i].id = s[i].id /\ r[i].role = s[i].role
                           /\ r[i].n = s[i].n
                           /\ r[i].parent = IF i = 1 THEN j.nextId ELSE s[i].parent
  <2>1. \A i \in 1..Len(s) : s[i] \in Entries
    BY <1>1
  <2>2. \A i \in 1..Len(s) :
          r[i] = IF i = 1 THEN [s[i] EXCEPT !.parent = j.nextId] ELSE s[i]
    BY DEF Rehung
  <2>. QED
    BY <2>1, <2>2 DEF Entries
<1>. HIDE DEF k, e, r
<1>8. All(j) = a \o s /\ All(k) = b
  BY <1>3, Zenon DEF All
<1>9. s # <<>> => base = s[1].parent
  OBVIOUS
<1>. HIDE DEF a, s, base
<1>10. a \in Seq(Entries) /\ s \in Seq(Entries) /\ Len(r) = Len(s)
  BY <1>1, <1>6 DEF a, s
<1>11. /\ Len(a) + 1 \in 1..Len(b) /\ b[Len(a) + 1] = e
       /\ \A p \in 1..Len(a) : p \in 1..Len(b) /\ b[p] = a[p] /\ (a \o s)[p] = a[p]
       /\ \A i \in 1..Len(s) : /\ Len(a) + 1 + i \in 1..Len(b)
                               /\ b[Len(a) + 1 + i] = r[i]
                               /\ (a \o s)[Len(a) + i] = s[i]
       /\ Len(a \o s) = Len(a) + Len(s) /\ Len(a) \in Nat /\ Len(s) \in Nat
  BY <1>2, <1>10
<1>. HIDE DEF b
<1>12. Threads(a \o s, b, {e})
  <2>. DEFINE Told(x, q) ==
         /\ b[q].id = x.id /\ b[q].role = x.role /\ b[q].n = x.n
         /\ \/ b[q].parent = x.parent
            \/ \E t \in 1..Len(b) :
                 b[t].id = b[q].parent /\ b[t].parent = x.parent /\ b[t] \in {e}
  <2>1. ASSUME NEW p \in 1..Len(a) PROVE p \in 1..Len(b) /\ Told((a \o s)[p], p)
    BY <1>11
  <2>2. ASSUME NEW i \in 1..Len(s)
        PROVE  Len(a) + 1 + i \in 1..Len(b) /\ Told((a \o s)[Len(a) + i], Len(a) + 1 + i)
    <3>1. Len(a) + 1 + i \in 1..Len(b)
      BY <1>11
    <3>2. b[Len(a) + 1 + i] = r[i] /\ (a \o s)[Len(a) + i] = s[i]
      BY <1>11
    <3>3. r[i].id = s[i].id /\ r[i].role = s[i].role /\ r[i].n = s[i].n
      BY <1>7 DEF s
    <3>4. CASE i = 1
      <4>1. r[i].parent = j.nextId
        BY <1>7, <3>4 DEF s
      <4>2. s # <<>>
        BY <1>10
      <4>3. /\ b[Len(a) + 1].id = b[Len(a) + 1 + i].parent
            /\ b[Len(a) + 1].parent = s[i].parent /\ b[Len(a) + 1] \in {e}
        BY <1>5, <1>9, <1>11, <3>2, <3>4, <4>1, <4>2
      <4>. QED
        BY <1>11, <3>1, <3>2, <3>3, <4>3
    <3>5. CASE i # 1
      <4>1. r[i].parent = s[i].parent
        BY <1>7, <3>5 DEF s
      <4>. QED
        BY <3>1, <3>2, <3>3, <4>1
    <3>. QED
      BY <3>4, <3>5
  <2>3. ASSUME NEW p \in 1..Len(a \o s)
        PROVE  \E q \in 1..Len(b) : Told((a \o s)[p], q)
    <3>. HIDE DEF Told
    <3>1. CASE p <= Len(a)
      <4>1. p \in 1..Len(a)
        BY <1>11, <3>1
      <4>. QED
        BY <2>1, <4>1
    <3>2. CASE p > Len(a)
      <4>. DEFINE i == p - Len(a)
      <4>1. i \in 1..Len(s) /\ Len(a) + i = p
        BY <1>11, <3>2
      <4>. HIDE DEF i
      <4>. QED
        BY <2>2, <4>1
    <3>. QED
      BY <1>11, <3>1, <3>2
  <2>. QED
    BY <2>3, Zenon DEF Threads
<1>13. Threads(All(j), All(k), {e})
  BY <1>8, <1>12
<1>. QED
  BY <1>2, <1>3, <1>4, <1>6, <1>7, <1>8, <1>13 DEF k, e, r, a, s, b, base

-----------------------------------------------------------------------------
(* The results outstanding *)

\* The results still due at an entry: all those of an assistant message, one less
\* after each result.
DueStep ==
  [e \in Entries |-> [d \in Nat |->
     IF e.role = "assistant" THEN e.n
     ELSE IF e.role = "result" THEN (IF d = 0 THEN 0 ELSE d - 1) ELSE d]]
Due(es, id) == Along(es, id, DueStep)

\* Settings and errors hang anywhere.
Remarks == {"mode", "effort", "error"}
Openings == {"prompt", "steer", "note", "assistant", "compaction"}

\* The result of call n is the one to hang from entry id.
Answers(es, id, n) ==
  \E q \in 1..Len(es) :
    /\ es[q].id = id
    /\ \/ es[q].role = "assistant" /\ n = 1
       \/ es[q].role = "result" /\ n = es[q].n + 1

\* A result hangs from the call before it, everything else but a remark where no
\* result is due.
Fits(es, e) ==
  /\ e.role = "result" => Due(es, e.parent) # 0 /\ Answers(es, e.parent, e.n)
  /\ e.role \in Openings => Due(es, e.parent) = 0

Tidy(es) == \A p \in 1..Len(es) : Fits(es, es[p])

\* What is due depends on role and number; only an assistant message or a result
\* moves it.
LEMMA DueSteps ==
  /\ DueStep \in StepTable /\ ReadsRole(DueStep)
  /\ \A e \in Entries : e.role \notin {"assistant", "result"} => e \in Inert(DueStep)
  /\ \A e \in Entries : \A d \in Nat :
       /\ e.role = "assistant" => DueStep[e][d] = e.n
       /\ e.role = "result" /\ d # 0 => DueStep[e][d] = d - 1
       /\ e.role \notin {"assistant", "result"} => DueStep[e][d] = d
<1>. DEFINE F(role, n) == [d \in Nat |->
               IF role = "assistant" THEN n
               ELSE IF role = "result" THEN (IF d = 0 THEN 0 ELSE d - 1) ELSE d]
<1>1. \A e \in Entries : e.n \in Nat
  BY DEF Entries
<1>2. \A n \in Nat : \A role : F(role, n) \in [Nat -> Nat]
  OBVIOUS
<1>3. \A e \in Entries : DueStep[e] = F(e.role, e.n)
  BY DEF DueStep
<1>4. DueStep = [e \in Entries |-> F(e.role, e.n)]
  BY DEF DueStep
<1>5. \A n : \A d \in Nat :
        /\ F("assistant", n)[d] = n
        /\ d # 0 => F("result", n)[d] = d - 1
        /\ \A role : role \notin {"assistant", "result"} => F(role, n)[d] = d
  OBVIOUS
<1>. HIDE DEF F
<1>6. DueStep \in StepTable
  BY <1>1, <1>2, <1>4 DEF StepTable
<1>7. ReadsRole(DueStep)
  BY <1>3 DEF ReadsRole
<1>8. \A e \in Entries : \A d \in Nat :
       /\ e.role = "assistant" => DueStep[e][d] = e.n
       /\ e.role = "result" /\ d # 0 => DueStep[e][d] = d - 1
       /\ e.role \notin {"assistant", "result"} => DueStep[e][d] = d
  <2>1. ASSUME NEW e \in Entries, NEW d \in Nat
        PROVE  /\ e.role = "assistant" => DueStep[e][d] = e.n
               /\ e.role = "result" /\ d # 0 => DueStep[e][d] = d - 1
               /\ e.role \notin {"assistant", "result"} => DueStep[e][d] = d
    <3>1. DueStep[e] = F(e.role, e.n)
      BY <1>3
    <3>2. /\ F("assistant", e.n)[d] = e.n
          /\ d # 0 => F("result", e.n)[d] = d - 1
          /\ e.role \notin {"assistant", "result"} => F(e.role, e.n)[d] = d
      BY <1>5
    <3>. QED
      BY <3>1, <3>2
  <2>. QED
    BY <2>1
<1>9. \A e \in Entries : e.role \notin {"assistant", "result"} => e \in Inert(DueStep)
  BY <1>8 DEF Inert
<1>. QED
  BY <1>6, <1>7, <1>8, <1>9

\* An assistant message makes its calls due, and a result takes one of them away.
LEMMA DueIs ==
  ASSUME NEW es \in Seq(Entries), GrowsOn(es, {0})
  PROVE  /\ Due(es, 0) = 0 /\ \A id : Due(es, id) \in Nat
         /\ \A p \in 1..Len(es) :
              /\ es[p].role = "assistant" => Due(es, es[p].id) = es[p].n
              /\ es[p].role = "result" /\ Due(es, es[p].parent) # 0 =>
                   Due(es, es[p].id) = Due(es, es[p].parent) - 1
              /\ es[p].role \notin {"assistant", "result"} =>
                   Due(es, es[p].id) = Due(es, es[p].parent)
<1>1. /\ Due(es, 0) = 0 /\ \A id : Due(es, id) \in Nat
      /\ \A p \in 1..Len(es) : Due(es, es[p].id) = DueStep[es[p]][Due(es, es[p].parent)]
  BY AlongSteps, DueSteps DEF Due
<1>2. ASSUME NEW p \in 1..Len(es)
      PROVE  /\ es[p].role = "assistant" => Due(es, es[p].id) = es[p].n
             /\ es[p].role = "result" /\ Due(es, es[p].parent) # 0 =>
                   Due(es, es[p].id) = Due(es, es[p].parent) - 1
             /\ es[p].role \notin {"assistant", "result"} =>
                   Due(es, es[p].id) = Due(es, es[p].parent)
  <2>1. es[p] \in Entries /\ Due(es, es[p].parent) \in Nat
    BY <1>1
  <2>. QED
    BY <1>1, <2>1, DueSteps
<1>. QED
  BY <1>1, <1>2

\* What fits in a log fits where its entries are among others.
LEMMA FitsThreads ==
  ASSUME NEW a \in Seq(Entries), GrowsOn(a, {0}), NEW b \in Seq(Entries), GrowsOn(b, {0}),
         Threads(a, b, Inert(DueStep)), NEW e \in Entries, e.parent \in {0} \cup IdsOf(a),
         Fits(a, e)
  PROVE  Fits(b, e)
<1>1. Due(b, e.parent) = Due(a, e.parent)
  <2>1. \A id \in {0} \cup IdsOf(a) : Along(a, id, DueStep) = Along(b, id, DueStep)
    BY DueSteps, ThreadsAlong
  <2>. QED
    BY <2>1 DEF Due
<1>2. \A n : Answers(a, e.parent, n) => Answers(b, e.parent, n)
  <2>1. ASSUME NEW n, Answers(a, e.parent, n) PROVE Answers(b, e.parent, n)
    <3>1. PICK p \in 1..Len(a) :
            /\ a[p].id = e.parent
            /\ \/ a[p].role = "assistant" /\ n = 1
               \/ a[p].role = "result" /\ n = a[p].n + 1
      BY <2>1 DEF Answers
    <3>2. PICK q \in 1..Len(b) : /\ b[q].id = a[p].id /\ b[q].role = a[p].role
                                 /\ b[q].n = a[p].n
      BY DEF Threads
    <3>. QED
      BY <3>1, <3>2 DEF Answers
  <2>. QED
    BY <2>1
<1>. QED
  BY <1>1, <1>2 DEF Fits

\* The parents of the entries of a log.
LEMMA ParentsInside ==
  ASSUME NEW es \in Seq(Entries), GrowsOn(es, {0}), NEW p \in 1..Len(es)
  PROVE  es[p].parent \in {0} \cup IdsOf(es)
BY DEF GrowsOn, IdsOf

\* The beginning of a tidy log is tidy.
LEMMA TidyPrefix ==
  ASSUME NEW a \in Seq(Entries), GrowsOn(a, {0}), NEW b \in Seq(Entries), GrowsOn(b, {0}),
         Begins(a, b), Tidy(b)
  PROVE  Tidy(a)
<1>1. \A id \in {0} \cup IdsOf(a) : Due(a, id) = Due(b, id)
  <2>1. Threads(a, b, Inert(DueStep))
    BY BeginsThreads
  <2>2. \A id \in {0} \cup IdsOf(a) : Along(a, id, DueStep) = Along(b, id, DueStep)
    BY <2>1, DueSteps, ThreadsAlong
  <2>. QED
    BY <2>2 DEF Due
<1>2. \A p \in 1..Len(a) : p \in 1..Len(b) /\ b[p] = a[p]
  BY DEF Begins
<1>3. ASSUME NEW p \in 1..Len(a) PROVE Fits(a, a[p])
  <2>1. Fits(b, a[p]) /\ a[p].parent \in {0} \cup IdsOf(a)
    BY <1>2, ParentsInside DEF Tidy
  <2>2. ASSUME NEW n, Answers(b, a[p].parent, n) PROVE Answers(a, a[p].parent, n)
    <3>1. PICK q \in 1..Len(b) :
            /\ b[q].id = a[p].parent
            /\ \/ b[q].role = "assistant" /\ n = 1
               \/ b[q].role = "result" /\ n = b[q].n + 1
      BY <2>2 DEF Answers
    <3>2. b[q].id # 0
      BY DEF GrowsOn
    <3>3. PICK r \in 1..Len(a) : a[r].id = a[p].parent
      BY <2>1, <3>1, <3>2 DEF IdsOf
    <3>4. r \in 1..Len(b) /\ b[r] = a[r]
      BY <1>2
    <3>5. q = r
      BY <3>1, <3>3, <3>4 DEF GrowsOn
    <3>. QED
      BY <3>1, <3>3, <3>4, <3>5 DEF Answers
  <2>. QED
    BY <1>1, <2>1, <2>2 DEF Fits
<1>. QED
  BY <1>3 DEF Tidy

\* These messages fit below parent, where so many results are due before each.
Suits(a, parent, ms, d) ==
  /\ d[0] = Due(a, parent)
  /\ Moves(ms, d, DueStep)
  /\ \A k \in 1..Len(ms) :
       /\ ms[k].role \in Openings => d[k - 1] = 0
       /\ ms[k].role = "result" =>
            /\ d[k - 1] # 0
            /\ IF k = 1 THEN Answers(a, parent, ms[k].n)
               ELSE \/ ms[k - 1].role = "assistant" /\ ms[k].n = 1
                    \/ ms[k - 1].role = "result" /\ ms[k].n = ms[k - 1].n + 1

\* So many results are due after each of them.
ReadsDue(b, ms, next, d) == \A k \in 1..Len(ms) : Due(b, next + k - 1) = d[k]

\* Chain as the proofs use it.
ReadsChain(c, ms, parent, next) ==
  /\ c \in Seq(Entries) /\ Len(c) = Len(ms)
  /\ \A p \in 1..Len(ms) : /\ c[p].id = next + p - 1
                           /\ c[p].parent = IF p = 1 THEN parent ELSE next + p - 2
  /\ \A p \in 1..Len(ms) : c[p].role = ms[p].role /\ c[p].n = ms[p].n

\* ... which it is.
LEMMA ChainReads ==
  ASSUME NEW ms \in Seq(Kept), NEW parent \in Nat, NEW next \in Nat \ {0}
  PROVE  ReadsChain(Chain(ms, parent, next), ms, parent, next)
<1>. DEFINE c == Chain(ms, parent, next)
<1>1. /\ c \in Seq(Entries) /\ Len(c) = Len(ms)
      /\ \A p \in 1..Len(ms) : /\ c[p].id = next + p - 1
                               /\ c[p].parent = IF p = 1 THEN parent ELSE next + p - 2
  BY ChainIs
<1>2. \A p \in 1..Len(ms) : c[p].role = ms[p].role /\ c[p].n = ms[p].n
  BY ChainMessages
<1>. HIDE DEF c
<1>3. ReadsChain(c, ms, parent, next)
  BY <1>1, <1>2 DEF ReadsChain
<1>. QED
  BY <1>3 DEF c

\* Then their chain keeps a log tidy,
LEMMA ChainTidy ==
  ASSUME NEW a \in Seq(Entries), GrowsOn(a, {0}), Tidy(a), NEW ms \in Seq(Kept),
         NEW parent \in {0} \cup IdsOf(a), parent \in Nat, NEW next \in Nat \ {0},
         NEW b, b = a \o Chain(ms, parent, next), GrowsOn(b, {0}),
         NEW d, Suits(a, parent, ms, d)
  PROVE  /\ Tidy(b)
         /\ ReadsDue(b, ms, next, d)
<1>. DEFINE c == Chain(ms, parent, next)
            n == Len(ms)
<1>1. /\ c \in Seq(Entries) /\ Len(c) = n /\ n \in Nat
      /\ \A p \in 1..n : /\ c[p].id = next + p - 1
                         /\ c[p].parent = IF p = 1 THEN parent ELSE next + p - 2
      /\ \A p \in 1..n : c[p].role = ms[p].role /\ c[p].n = ms[p].n
  <2>1. n \in Nat
    BY KeptLength, Zenon
  <2>4. ReadsChain(c, ms, parent, next)
    BY ChainReads, Zenon
  <2>2. /\ c \in Seq(Entries) /\ Len(c) = n
        /\ \A p \in 1..n : /\ c[p].id = next + p - 1
                           /\ c[p].parent = IF p = 1 THEN parent ELSE next + p - 2
    BY <2>4 DEF ReadsChain
  <2>3. \A p \in 1..n : c[p].role = ms[p].role /\ c[p].n = ms[p].n
    BY <2>4 DEF ReadsChain
  <2>. QED
    BY <2>1, <2>2, <2>3
<1>2. \A k \in 1..n : /\ Due(b, next + k - 1) = d[k]
                      /\ Due(b, c[k].parent) = d[k - 1]
  <2>1. d[0] = Along(a, parent, DueStep)
    BY DEF Suits, Due
  <2>2. Moves(ms, d, DueStep)
    BY DEF Suits
  <2>3. DueStep \in StepTable
    BY DueSteps
  <2>4. ReadsRole(DueStep)
    BY DueSteps
  <2>5. ReadsAs(b, Len(ms), next, Chain(ms, parent, next), DueStep, d)
    BY <2>1, <2>2, <2>3, <2>4, ChainAlong, Zenon
  <2>. QED
    BY <2>5 DEF ReadsAs, Due
<1>3. b = a \o c
  OBVIOUS
<1>. HIDE DEF c, n
<1>4. /\ b \in Seq(Entries) /\ Len(b) = Len(a) + n /\ Len(a) \in Nat
      /\ \A p \in 1..Len(a) : b[p] = a[p]
      /\ \A p \in 1..n : Len(a) + p \in 1..Len(b) /\ b[Len(a) + p] = c[p]
  <2>1. c \in Seq(Entries) /\ Len(c) = n /\ n \in Nat /\ Len(a) \in Nat
    BY <1>1
  <2>2. /\ b \in Seq(Entries) /\ Len(b) = Len(a) + Len(c)
        /\ \A p \in 1..Len(a) : b[p] = a[p]
        /\ \A p \in 1..Len(c) : b[Len(a) + p] = c[p]
    BY <1>3, <2>1, IdsOfConcat
  <2>. QED
    BY <2>1, <2>2
<1>5. Threads(a, b, Inert(DueStep))
  BY <1>1, <1>3, <1>4, ConcatBegins, BeginsThreads
<1>6. ASSUME NEW p \in 1..Len(a) PROVE Fits(b, b[p])
  <2>1. a[p] \in Entries /\ Fits(a, a[p]) /\ a[p].parent \in {0} \cup IdsOf(a)
    BY ParentsInside DEF Tidy
  <2>2. Fits(b, a[p])
    BY <1>4, <1>5, <2>1, FitsThreads
  <2>. QED
    BY <1>4, <2>2
<1>7. ASSUME NEW k \in 1..n PROVE Fits(b, c[k])
  <2>1. Due(b, c[k].parent) = d[k - 1] /\ c[k].role = ms[k].role /\ c[k].n = ms[k].n
    BY <1>1, <1>2
  <2>2. /\ ms[k].role \in Openings => d[k - 1] = 0
        /\ ms[k].role = "result" =>
             /\ d[k - 1] # 0
             /\ IF k = 1 THEN Answers(a, parent, ms[k].n)
                ELSE \/ ms[k - 1].role = "assistant" /\ ms[k].n = 1
                     \/ ms[k - 1].role = "result" /\ ms[k].n = ms[k - 1].n + 1
    BY DEF Suits, n
  <2>3. ASSUME ms[k].role = "result" PROVE Answers(b, c[k].parent, c[k].n)
    <3>1. CASE k = 1
      <4>1. c[k].parent = parent /\ Answers(a, parent, c[k].n)
        BY <1>1, <2>1, <2>2, <2>3, <3>1
      <4>2. PICK p \in 1..Len(a) :
              /\ a[p].id = parent
              /\ \/ a[p].role = "assistant" /\ c[k].n = 1
                 \/ a[p].role = "result" /\ c[k].n = a[p].n + 1
        BY <4>1 DEF Answers
      <4>3. p \in 1..Len(b) /\ b[p] = a[p]
        BY <1>1, <1>4
      <4>. QED
        BY <4>1, <4>2, <4>3 DEF Answers
    <3>2. CASE k # 1
      <4>1. k - 1 \in 1..n /\ c[k - 1].id = c[k].parent
        BY <1>1, <3>2
      <4>2. /\ Len(a) + (k - 1) \in 1..Len(b) /\ b[Len(a) + (k - 1)] = c[k - 1]
            /\ c[k - 1].role = ms[k - 1].role /\ c[k - 1].n = ms[k - 1].n
        BY <1>1, <1>4, <4>1
      <4>. DEFINE q == Len(a) + (k - 1)
      <4>3. /\ q \in 1..Len(b) /\ b[q].id = c[k].parent
            /\ \/ b[q].role = "assistant" /\ c[k].n = 1
               \/ b[q].role = "result" /\ c[k].n = b[q].n + 1
        BY <2>1, <2>2, <2>3, <3>2, <4>1, <4>2
      <4>. HIDE DEF q
      <4>. QED
        BY <4>3 DEF Answers
    <3>. QED
      BY <3>1, <3>2
  <2>. QED
    BY <2>1, <2>2, <2>3 DEF Fits
<1>8. ASSUME NEW p \in 1..Len(b) PROVE Fits(b, b[p])
  <2>1. CASE p <= Len(a)
    <3>1. p \in 1..Len(a)
      BY <1>4, <2>1
    <3>. QED
      BY <1>6, <3>1
  <2>2. CASE p > Len(a)
    <3>. DEFINE k == p - Len(a)
    <3>1. k \in 1..n /\ Len(a) + k = p
      BY <1>1, <1>4, <2>2
    <3>. HIDE DEF k
    <3>2. b[p] = c[k]
      BY <1>4, <3>1
    <3>. QED
      BY <1>7, <3>1, <3>2
  <2>. QED
    BY <1>4, <2>1, <2>2
<1>. QED
  BY <1>2, <1>8 DEF Tidy, n, ReadsDue

\* ... and what is next is the result after the last one.
LEMMA ChainAnswers ==
  ASSUME NEW a \in Seq(Entries), NEW ms \in Seq(Kept), ms # <<>>,
         NEW parent \in Nat, NEW next \in Nat \ {0},
         NEW b, b = a \o Chain(ms, parent, next), NEW n,
         \/ ms[Len(ms)].role = "assistant" /\ n = 1
         \/ ms[Len(ms)].role = "result" /\ n = ms[Len(ms)].n + 1
  PROVE  Answers(b, next + Len(ms) - 1, n)
<1>. DEFINE c == Chain(ms, parent, next)
            m == Len(ms)
<1>0. m \in Nat /\ m # 0 /\ m \in 1..m
  BY SomeKept, Zenon
<1>1. /\ c \in Seq(Entries) /\ Len(c) = m /\ m \in 1..m
      /\ c[m].id = next + m - 1 /\ c[m].role = ms[m].role /\ c[m].n = ms[m].n
  <2>3. ReadsChain(c, ms, parent, next)
    BY ChainReads, Zenon
  <2>1. /\ c \in Seq(Entries) /\ Len(c) = m
        /\ \A p \in 1..m : /\ c[p].id = next + p - 1
                           /\ c[p].parent = IF p = 1 THEN parent ELSE next + p - 2
    BY <2>3 DEF ReadsChain
  <2>2. \A p \in 1..m : c[p].role = ms[p].role /\ c[p].n = ms[p].n
    BY <2>3 DEF ReadsChain
  <2>. QED
    BY <1>0, <2>1, <2>2
<1>2. b = a \o c
  OBVIOUS
<1>. HIDE DEF c, m
<1>3. Len(a) + m \in 1..Len(b) /\ b[Len(a) + m] = c[m]
  BY <1>0, <1>1, <1>2
<1>. QED
  BY <1>1, <1>3 DEF Answers, m

\* A message after which no result is due.
Closed(m) == m.role \in {"prompt", "steer", "note", "compaction"} \/ (m.role = "assistant" /\ m.n = 0)

\* Between batches no result is due, neither among the committed entries nor among
\* those that are staged.
Settled(j) ==
  /\ Tidy(All(j))
  /\ Due(j.entries, LeafId(j.entries)) = 0
  /\ Due(All(j), j.leaf) = 0
  /\ \A p \in 1..Len(j.staged) : Closed(j.staged[p])

\* So many results are due at the leaf, the first one of call n.
Owed(j, d, n) ==
  /\ Tidy(All(j)) /\ Due(All(j), j.leaf) = d
  /\ d # 0 => Answers(All(j), j.leaf, n)

\* After messages that suit a tidy log, what the last one leaves due is owed.
LEMMA OwedWithAll ==
  ASSUME NEW j, JournalOK(j), NEW ms \in Seq(Kept), ms # <<>>, Tidy(All(j)),
         NEW d, Suits(All(j), j.leaf, ms, d),
         NEW n, d[Len(ms)] # 0 => \/ ms[Len(ms)].role = "assistant" /\ n = 1
                                  \/ ms[Len(ms)].role = "result" /\ n = ms[Len(ms)].n + 1
  PROVE  Owed(Stage(j, ms), d[Len(ms)], n)
<1>. DEFINE k == Stage(j, ms)
            a == All(j)
            m == Len(ms)
<1>1. /\ JournalOK(k) /\ All(k) = a \o Chain(ms, j.leaf, j.nextId)
      /\ k.leaf = j.nextId + m - 1
  BY StagedAll
<1>2. /\ a \in Seq(Entries) /\ GrowsOn(a, {0}) /\ j.leaf \in {0} \cup IdsOf(a)
  BY AllIs, Zenon
<1>3. j.leaf \in Nat /\ j.nextId \in Nat \ {0}
  BY JournalParts, Zenon
<1>4. GrowsOn(All(k), {0})
  BY <1>1, AllIs, Zenon
<1>5. m \in 1..m
  <2>1. m \in Nat /\ m # 0
    BY EmptySeq
  <2>. QED
    BY <2>1
<1>. HIDE DEF k, a
<1>6. Suits(a, j.leaf, ms, d) /\ Tidy(a)
  BY DEF a
<1>7. /\ Tidy(All(k)) /\ \A i \in 1..Len(ms) : Due(All(k), j.nextId + i - 1) = d[i]
  <2>. DEFINE b == All(k)
  <2>1. b = a \o Chain(ms, j.leaf, j.nextId)
    BY <1>1
  <2>2. a \in Seq(Entries)
    BY <1>2
  <2>3. GrowsOn(a, {0})
    BY <1>2
  <2>4. j.leaf \in {0} \cup IdsOf(a)
    BY <1>2
  <2>5. j.leaf \in Nat
    BY <1>3
  <2>6. j.nextId \in Nat \ {0}
    BY <1>3
  <2>7. Tidy(a)
    BY <1>6
  <2>8. Suits(a, j.leaf, ms, d)
    BY <1>6
  <2>9. GrowsOn(b, {0})
    BY <1>4
  <2>. HIDE DEF b
  <2>10. Tidy(b) /\ ReadsDue(b, ms, j.nextId, d)
    BY <2>1, <2>2, <2>3, <2>4, <2>5, <2>6, <2>7, <2>8, <2>9, ChainTidy, Zenon
  <2>. QED
    BY <2>10 DEF b, ReadsDue
<1>8. Due(All(k), k.leaf) = d[m]
  BY <1>1, <1>5, <1>7
<1>9. d[m] # 0 => Answers(All(k), k.leaf, n)
  <2>1. ASSUME d[m] # 0 PROVE Answers(All(k), j.nextId + Len(ms) - 1, n)
    BY <1>1, <1>2, <1>3, <2>1, ChainAnswers
  <2>. QED
    BY <1>1, <2>1
<1>. QED
  BY <1>7, <1>8, <1>9 DEF Owed, k

\* Messages that call no tool leave nothing due.
LEMMA SettledStage ==
  ASSUME NEW j, JournalOK(j), Settled(j), NEW ms \in Seq(Kept),
         \A k \in 1..Len(ms) : Closed(ms[k])
  PROVE  Settled(Stage(j, ms))
<1>. DEFINE k == Stage(j, ms)
            d == [i \in 0..Len(ms) |-> 0]
            c == Chain(ms, j.leaf, j.nextId)
<1>1. /\ JournalOK(k) /\ k.entries = j.entries /\ k.staged = j.staged \o c
      /\ ms = <<>> => k.leaf = j.leaf /\ All(k) = All(j) /\ k.staged = j.staged
  BY StagedAll
<1>. HIDE DEF k
<1>2. CASE ms = <<>>
  BY <1>1, <1>2 DEF Settled, k
<1>3. CASE ms # <<>>
  <2>0. Len(ms) \in Nat
    OBVIOUS
  <2>1. \A i \in 0..Len(ms) : d[i] = 0
    OBVIOUS
  <2>. HIDE DEF d
  <2>2. \A i \in 1..Len(ms) : ms[i] \in Kept /\ d[i] = 0 /\ d[i - 1] = 0
    BY <2>0, <2>1
  <2>3. \A i \in 1..Len(ms) : ms[i].role # "result"
    BY DEF Closed
  <2>4. Moves(ms, d, DueStep)
    <3>1. ASSUME NEW i \in 1..Len(ms), NEW e \in Entries, e.role = ms[i].role, e.n = ms[i].n
          PROVE  DueStep[e][0] = 0
      <4>1. \/ e.role \notin {"assistant", "result"}
            \/ e.role = "assistant" /\ e.n = 0
        BY <3>1 DEF Closed
      <4>. QED
        BY <4>1, DueSteps
    <3>. QED
      BY <2>2, <3>1 DEF Moves
  <2>5. Suits(All(j), j.leaf, ms, d)
    BY <2>0, <2>1, <2>2, <2>3, <2>4 DEF Suits, Settled
  <2>6. d[Len(ms)] = 0
    BY <2>0, <2>1
  <2>7. Owed(k, 0, 1)
    <3>1. Tidy(All(j))
      BY DEF Settled
    <3>2. Owed(Stage(j, ms), d[Len(ms)], 1)
      BY <1>3, <2>5, <2>6, <3>1, OwedWithAll
    <3>. QED
      BY <2>6, <3>2 DEF k
  <2>8. \A p \in 1..Len(k.staged) : Closed(k.staged[p])
    <3>1. /\ j.staged \in Seq(Entries) /\ j.leaf \in Nat /\ j.nextId \in Nat \ {0}
      BY JournalParts, Zenon
    <3>2. c \in Seq(Entries) /\ Len(c) = Len(ms)
      BY <3>1, ChainIs
    <3>3. \A p \in 1..Len(ms) : c[p].role = ms[p].role /\ c[p].n = ms[p].n
      BY <3>1, ChainMessages, Zenon
    <3>4. \A p \in 1..Len(ms) : Closed(c[p])
      BY <3>3 DEF Closed
    <3>5. \A p \in 1..Len(j.staged) : Closed(j.staged[p])
      BY DEF Settled
    <3>. HIDE DEF c
    <3>6. ASSUME NEW p \in 1..Len(j.staged \o c) PROVE Closed((j.staged \o c)[p])
      <4>1. CASE p <= Len(j.staged)
        <5>1. p \in 1..Len(j.staged) /\ (j.staged \o c)[p] = j.staged[p]
          BY <3>1, <3>2, <4>1
        <5>. QED
          BY <3>5, <5>1
      <4>2. CASE p > Len(j.staged)
        <5>1. /\ p - Len(j.staged) \in 1..Len(ms)
              /\ (j.staged \o c)[p] = c[p - Len(j.staged)]
          BY <3>1, <3>2, <4>2
        <5>. QED
          BY <3>4, <5>1
      <4>3. p \in Int /\ Len(j.staged) \in Int
        BY <3>1
      <4>. QED
        BY <4>1, <4>2, <4>3
    <3>. QED
      BY <1>1, <3>6
  <2>. QED
    BY <1>1, <2>7, <2>8 DEF Settled, Owed, k
<1>. QED
  BY <1>2, <1>3

\* What is settled stays settled when it is committed.
LEMMA SettledFlush ==
  ASSUME NEW j, JournalOK(j), Settled(j) PROVE Settled(Flush(j))
<1>1. LET k == Flush(j)
      IN  /\ k.entries = All(j) /\ k.staged = <<>> /\ All(k) = All(j) /\ k.leaf = j.leaf
          /\ LeafId(All(j)) = IF j.staged = <<>> THEN LeafId(j.entries) ELSE j.leaf
  BY FlushedAll
<1>2. j.staged = <<>> => All(j) = j.entries
  <2>1. j.entries \in Seq(Entries)
    BY JournalParts, Zenon
  <2>. QED
    BY <2>1 DEF All
<1>. QED
  BY <1>1, <1>2 DEF Settled

\* What is staged and owed is owed when it is committed.
LEMMA OwedFlush ==
  ASSUME NEW j, JournalOK(j), j.staged # <<>>, NEW d, NEW n, Owed(j, d, n)
  PROVE  /\ d = 0 => Settled(Flush(j))
         /\ Owed(Flush(j), d, n) /\ Flush(j).staged = <<>>
<1>1. LET k == Flush(j)
      IN  /\ k.entries = All(j) /\ k.staged = <<>> /\ All(k) = All(j) /\ k.leaf = j.leaf
          /\ LeafId(All(j)) = IF j.staged = <<>> THEN LeafId(j.entries) ELSE j.leaf
  BY FlushedAll
<1>. QED
  BY <1>1 DEF Settled, Owed

\* The same results are due in k as in j.
DuesKept(j, k) ==
  /\ Tidy(All(k)) /\ k.staged = j.staged /\ k.leaf = j.leaf
  /\ Due(All(k), k.leaf) = Due(All(j), j.leaf)
  /\ Due(k.entries, LeafId(k.entries)) = Due(j.entries, LeafId(j.entries))
  /\ \A m : Answers(All(j), j.leaf, m) => Answers(All(k), k.leaf, m)

\* A setting or an error hangs from the committed leaf.
LEMMA AppendedFits ==
  ASSUME NEW j, JournalOK(j), Tidy(All(j)), NEW role \in EntryRoles, NEW n \in Nat,
         role \in Remarks \/ (role = "compaction" /\ Due(j.entries, LeafId(j.entries)) = 0)
  PROVE  DuesKept(j, AppendCommitted(j, role, n))
<1>. DEFINE k == AppendCommitted(j, role, n)
            e == [id |-> j.nextId, parent |-> LeafId(j.entries), role |-> role, n |-> n]
            a == j.entries
            b == a \o <<e>>
<1>1. /\ JournalOK(k) /\ e \in Entries
      /\ k.entries = b /\ k.staged = j.staged /\ k.leaf = j.leaf
      /\ All(k) = b \o j.staged
      /\ \A T : Threads(All(j), All(k), T)
  BY AppendedAll, Zenon
<1>2. /\ a \in Seq(Entries) /\ GrowsOn(a, {0}) /\ j.staged \in Seq(Entries)
      /\ LeafId(a) \in {0} \cup IdsOf(a)
  <2>1. a \in Seq(Entries) /\ GrowsOn(a, {0}) /\ j.staged \in Seq(Entries)
    BY JournalParts, Zenon
  <2>. QED
    BY <2>1, LeafIdIs, Zenon
<1>3. /\ All(j) \in Seq(Entries) /\ GrowsOn(All(j), {0}) /\ j.leaf \in {0} \cup IdsOf(All(j))
  BY AllIs, Zenon
<1>4. /\ All(k) \in Seq(Entries) /\ GrowsOn(All(k), {0})
  BY <1>1, AllIs, Zenon
<1>5. b \in Seq(Entries) /\ GrowsOn(b, {0})
  BY <1>1, JournalParts, Zenon
<1>6. e.parent = LeafId(a) /\ e.role = role
  OBVIOUS
<1>. HIDE DEF k, e
<1>7. /\ LeafId(b) = e.id
      /\ Due(b, e.id) = DueStep[e][Due(a, e.parent)]
      /\ \A id \in {0} \cup IdsOf(a) : Due(b, id) = Due(a, id)
  <2>1. e.parent \in {0} \cup IdsOf(a)
    BY <1>2, <1>6
  <2>2. b = a \o <<e>>
    OBVIOUS
  <2>. HIDE DEF a, b
  <2>3. ReadsLast(a, e, b, DueStep)
    <3>1. e \in Entries
      BY <1>1
    <3>2. DueStep \in StepTable
      BY DueSteps
    <3>3. a \in Seq(Entries)
      BY <1>2
    <3>4. GrowsOn(a \o <<e>>, {0})
      BY <1>5, <2>2
    <3>5. ReadsRole(DueStep)
      BY DueSteps
    <3>6. GrowsOn(a, {0})
      BY <1>2
    <3>7. GrowsOn(b, {0})
      BY <2>2, <3>4
    <3>. QED
      BY <2>1, <2>2, <3>1, <3>2, <3>3, <3>5, <3>6, <3>7, LastAlong, Zenon
  <2>. QED
    BY <2>3 DEF Due, ReadsLast
<1>8. Due(b, LeafId(b)) = Due(a, LeafId(a))
  <2>1. e.role \notin {"assistant", "result"}
    BY <1>6 DEF Remarks
  <2>2. Due(a, LeafId(a)) \in Nat
    BY <1>2, DueIs
  <2>. QED
    BY <1>1, <1>6, <1>7, <2>1, <2>2, DueSteps
<1>9. Due(All(k), j.leaf) = Due(All(j), j.leaf)
  <2>1. Threads(All(j), All(k), Inert(DueStep))
    BY <1>1
  <2>2. \A id \in {0} \cup IdsOf(All(j)) :
          Along(All(j), id, DueStep) = Along(All(k), id, DueStep)
    BY <1>3, <1>4, <2>1, DueSteps, ThreadsAlong
  <2>. QED
    BY <1>3, <2>2 DEF Due
<1>10. ASSUME NEW m, Answers(All(j), j.leaf, m) PROVE Answers(All(k), j.leaf, m)
  <2>1. PICK p \in 1..Len(All(j)) :
          /\ All(j)[p].id = j.leaf
          /\ \/ All(j)[p].role = "assistant" /\ m = 1
             \/ All(j)[p].role = "result" /\ m = All(j)[p].n + 1
    BY <1>10 DEF Answers
  <2>2. PICK q \in 1..Len(All(k)) :
          /\ All(k)[q].id = All(j)[p].id /\ All(k)[q].role = All(j)[p].role
          /\ All(k)[q].n = All(j)[p].n
    BY <1>1 DEF Threads
  <2>. QED
    BY <2>1, <2>2 DEF Answers
<1>11. Fits(All(k), e)
  <2>1. CASE role \in Remarks
    BY <1>6, <2>1 DEF Remarks, Openings, Fits
  <2>2. CASE role = "compaction" /\ Due(a, LeafId(a)) = 0
    <3>1. Due(All(k), e.parent) = Due(b, e.parent)
      <4>1. Threads(b, All(k), Inert(DueStep))
        BY <1>1, <1>2, <1>4, <1>5, ConcatBegins, BeginsThreads
      <4>2. \A id \in {0} \cup IdsOf(b) :
              Along(b, id, DueStep) = Along(All(k), id, DueStep)
        BY <1>4, <1>5, <4>1, DueSteps, ThreadsAlong
      <4>3. e.parent \in {0} \cup IdsOf(b)
        <5>1. <<e>> \in Seq(Entries)
          BY <1>1
        <5>2. IdsOf(a \o <<e>>) = IdsOf(a) \cup IdsOf(<<e>>)
          BY <1>2, <5>1, IdsOfConcat
        <5>. QED
          BY <1>2, <1>6, <5>2
      <4>. QED
        BY <4>2, <4>3 DEF Due
    <3>2. Due(All(k), e.parent) = 0
      BY <1>2, <1>6, <1>7, <2>2, <3>1
    <3>. QED
      BY <1>6, <2>2, <3>2 DEF Fits
  <2>. QED
    BY <2>1, <2>2
<1>12. Tidy(All(k))
  <2>1. All(j) = a \o j.staged
    BY DEF All
  <2>. DEFINE s == j.staged
  <2>2. /\ All(k) = (a \o <<e>>) \o s /\ All(j) = a \o s /\ s \in Seq(Entries)
        /\ e \in Entries
    BY <1>1, <1>2, <2>1
  <2>. HIDE DEF a, s, b
  <2>3. ASSUME NEW p \in 1..Len(All(k))
        PROVE  All(k)[p] = e \/ \E q \in 1..Len(All(j)) : All(k)[p] = All(j)[q]
    <3>0. a \in Seq(Entries)
      BY <1>2
    <3>1. CASE p <= Len(a)
      <4>1. p \in 1..Len(All(j)) /\ All(k)[p] = All(j)[p]
        BY <2>2, <3>0, <3>1
      <4>. QED
        BY <4>1
    <3>2. CASE p = Len(a) + 1
      BY <2>2, <3>0, <3>2
    <3>3. CASE p > Len(a) + 1
      <4>1. p - 1 \in 1..Len(All(j)) /\ All(k)[p] = All(j)[p - 1]
        BY <2>2, <3>0, <3>3
      <4>. QED
        BY <4>1
    <3>4. p \in Int /\ Len(a) \in Int
      BY <3>0
    <3>. QED
      BY <3>1, <3>2, <3>3, <3>4
  <2>4. ASSUME NEW q \in 1..Len(All(j)) PROVE Fits(All(k), All(j)[q])
    <3>1. Threads(All(j), All(k), Inert(DueStep))
      BY <1>1
    <3>2. /\ All(j)[q] \in Entries /\ All(j)[q].parent \in {0} \cup IdsOf(All(j))
          /\ Fits(All(j), All(j)[q])
      BY <1>3, ParentsInside DEF Tidy
    <3>. QED
      BY <1>3, <1>4, <3>1, <3>2, FitsThreads
  <2>. QED
    BY <1>11, <2>3, <2>4 DEF Tidy
<1>. QED
  BY <1>1, <1>8, <1>9, <1>10, <1>12 DEF k, DuesKept

\* More entries may stand in between.
LEMMA ThreadsMore ==
  ASSUME NEW a, NEW b, NEW S, NEW T, S \subseteq T, Threads(a, b, S)
  PROVE  Threads(a, b, T)
BY DEF Threads

\* A setting, an error or a checkpoint leaves no result due.
LEMMA SettledAppend ==
  ASSUME NEW j, JournalOK(j), Settled(j), NEW role \in EntryRoles, NEW n \in Nat,
         role \in Remarks \cup {"compaction"}
  PROVE  Settled(AppendCommitted(j, role, n))
<1>1. /\ Tidy(All(j)) /\ Due(j.entries, LeafId(j.entries)) = 0 /\ Due(All(j), j.leaf) = 0
      /\ \A p \in 1..Len(j.staged) : Closed(j.staged[p])
  BY DEF Settled
<1>2. role \in Remarks \/ (role = "compaction" /\ Due(j.entries, LeafId(j.entries)) = 0)
  BY <1>1
<1>. DEFINE k == AppendCommitted(j, role, n)
<1>3. DuesKept(j, k)
  BY <1>1, <1>2, AppendedFits, Zenon
<1>. HIDE DEF k
<1>4. Settled(k)
  BY <1>1, <1>3 DEF Settled, DuesKept
<1>. QED
  BY <1>4 DEF k

\* A remark made in the middle of a batch takes no part in it.
LEMMA OwedAppend ==
  ASSUME NEW j, JournalOK(j), NEW d, NEW m, Owed(j, d, m), NEW role \in EntryRoles,
         NEW n \in Nat, role \in Remarks
  PROVE  /\ Owed(AppendCommitted(j, role, n), d, m)
         /\ AppendCommitted(j, role, n).staged = j.staged
<1>. DEFINE k == AppendCommitted(j, role, n)
<1>1. /\ Tidy(All(j)) /\ Due(All(j), j.leaf) = d
      /\ d # 0 => Answers(All(j), j.leaf, m)
  BY DEF Owed
<1>2. DuesKept(j, k)
  <2>1. Tidy(All(j))
    BY <1>1
  <2>2. role \in Remarks \/ (role = "compaction" /\ Due(j.entries, LeafId(j.entries)) = 0)
    OBVIOUS
  <2>. QED
    BY <2>1, <2>2, AppendedFits, Zenon
<1>. HIDE DEF k
<1>4. Owed(k, d, m)
  BY <1>1, <1>2 DEF Owed, DuesKept
<1>. QED
  BY <1>2, <1>4 DEF k, DuesKept

\* A closed entry that fits hangs where no result is due.
LEMMA ClosedFits ==
  ASSUME NEW es, NEW e, Closed(e), Fits(es, e)
  PROVE  Due(es, e.parent) = 0
BY DEF Closed, Fits, Openings

\* What is staged stays closed below a checkpoint.
LEMMA SettledCompaction ==
  ASSUME NEW j, JournalOK(j), Settled(j), NEW native \in Nat
  PROVE  Settled(StageCompaction(j, native))
<1>. DEFINE k == StageCompaction(j, native)
            base == IF j.staged = <<>> THEN j.leaf ELSE j.staged[1].parent
            e == CompactionEntry(j.nextId, base, native)
            r == Rehung(j.staged, j.nextId)
            s == j.staged
            a == j.entries
            b == All(k)
<1>1. /\ JournalOK(k) /\ e \in Entries /\ k.entries = j.entries
      /\ base \in {0} \cup IdsOf(j.entries)
      /\ r \in Seq(Entries) /\ Len(r) = Len(j.staged)
      /\ k.staged = <<e>> \o r /\ All(k) = j.entries \o (<<e>> \o r)
      /\ k.leaf = IF j.staged = <<>> THEN j.nextId ELSE j.leaf
      /\ Threads(All(j), All(k), {e})
  BY CompactedAll
<1>2. \A i \in 1..Len(j.staged) :
         /\ r[i].id = j.staged[i].id /\ r[i].role = j.staged[i].role
         /\ r[i].n = j.staged[i].n
         /\ r[i].parent = IF i = 1 THEN j.nextId ELSE j.staged[i].parent
  BY CompactedAll
<1>3. /\ a \in Seq(Entries) /\ s \in Seq(Entries) /\ GrowsOn(a, {0})
  BY JournalParts, Zenon
<1>4. /\ All(j) \in Seq(Entries) /\ GrowsOn(All(j), {0}) /\ j.leaf \in {0} \cup IdsOf(All(j))
  BY AllIs, Zenon
<1>5. b \in Seq(Entries) /\ GrowsOn(b, {0})
  BY <1>1, AllIs, Zenon
<1>6. e.id = j.nextId /\ e.parent = base /\ e.role = "compaction"
  BY DEF CompactionEntry
<1>7. All(j) = a \o s
  BY DEF All
<1>8. s = <<>> => base = j.leaf
  OBVIOUS
<1>9. s # <<>> => base = s[1].parent
  OBVIOUS
<1>10. b = a \o (<<e>> \o r) /\ Len(r) = Len(s) /\ k.staged = <<e>> \o r
  BY <1>1
<1>11. \A i \in 1..Len(s) :
         /\ r[i].role = s[i].role /\ r[i].n = s[i].n
         /\ r[i].parent = IF i = 1 THEN j.nextId ELSE s[i].parent
  BY <1>2
<1>12. /\ Tidy(All(j)) /\ Due(a, LeafId(a)) = 0 /\ Due(All(j), j.leaf) = 0
       /\ \A p \in 1..Len(s) : Closed(s[p])
  BY DEF Settled
<1>13. base \in {0} \cup IdsOf(a) /\ IdsOf(a) \subseteq IdsOf(All(j))
  <2>1. IdsOf(a \o s) = IdsOf(a) \cup IdsOf(s)
    BY <1>3, IdsOfConcat
  <2>. QED
    BY <1>1, <1>7, <2>1
<1>14. e \in Entries /\ r \in Seq(Entries)
  BY <1>1
<1>15. k.entries = a /\ k.leaf = IF s = <<>> THEN j.nextId ELSE j.leaf
  BY <1>1
<1>16. Threads(All(j), b, {e})
  BY <1>1
<1>. HIDE DEF k, base, e, r, s, a
<1>17. Threads(All(j), b, Inert(DueStep))
  <2>1. e \in Inert(DueStep)
    BY <1>6, <1>14, DueSteps
  <2>2. {e} \subseteq Inert(DueStep)
    BY <2>1
  <2>. QED
    BY <1>16, <2>2, ThreadsMore
<1>. HIDE DEF b
<1>18. \A id \in {0} \cup IdsOf(All(j)) : Due(b, id) = Due(All(j), id)
  <2>1. \A id \in {0} \cup IdsOf(All(j)) :
          Along(All(j), id, DueStep) = Along(b, id, DueStep)
    BY <1>4, <1>5, <1>17, DueSteps, ThreadsAlong
  <2>. QED
    BY <2>1 DEF Due
<1>19. Due(b, base) = 0
  <2>1. Due(b, base) = Due(All(j), base)
    BY <1>13, <1>18
  <2>2. CASE s = <<>>
    BY <1>8, <1>12, <2>1, <2>2
  <2>3. CASE s # <<>>
    <3>1. 1 \in 1..Len(s) /\ Len(a) + 1 \in 1..Len(All(j)) /\ All(j)[Len(a) + 1] = s[1]
      <4>1. Len(s) \in Nat /\ Len(s) # 0
        BY <1>3, <2>3, EmptySeq
      <4>2. 1 \in 1..Len(s)
        BY <4>1
      <4>3. Len(a \o s) = Len(a) + Len(s) /\ (a \o s)[Len(a) + 1] = s[1] /\ Len(a) \in Nat
        BY <1>3, <4>1
      <4>. QED
        BY <1>7, <4>1, <4>2, <4>3
    <3>2. Closed(s[1]) /\ Fits(All(j), s[1])
      BY <1>12, <3>1 DEF Tidy
    <3>3. Due(All(j), s[1].parent) = 0
      BY <3>2, ClosedFits
    <3>. QED
      BY <1>9, <2>1, <2>3, <3>3
  <2>. QED
    BY <2>2, <2>3
<1>20. Len(b) = Len(a) + 1 + Len(s) /\ Len(a) \in Nat /\ Len(s) \in Nat
       /\ b[Len(a) + 1] = e
       /\ (\A p \in 1..Len(a) : b[p] = a[p] /\ All(j)[p] = a[p] /\ p \in 1..Len(All(j)))
       /\ (\A i \in 1..Len(s) : /\ b[Len(a) + 1 + i] = r[i]
                                /\ Len(a) + i \in 1..Len(All(j))
                                /\ All(j)[Len(a) + i] = s[i])
  <2>. DEFINE c == <<e>> \o r
  <2>1. c \in Seq(Entries) /\ Len(c) = 1 + Len(s) /\ c[1] = e
        /\ \A i \in 1..Len(s) : c[1 + i] = r[i]
    BY <1>3, <1>10, <1>14
  <2>2. b = a \o c
    BY <1>10
  <2>. HIDE DEF c
  <2>3. /\ Len(b) = Len(a) + Len(c) /\ Len(a) \in Nat /\ Len(s) \in Nat
        /\ \A p \in 1..Len(a) : b[p] = a[p]
        /\ \A p \in 1..Len(c) : b[Len(a) + p] = c[p]
    BY <1>3, <2>1, <2>2
  <2>4. /\ Len(All(j)) = Len(a) + Len(s)
        /\ \A p \in 1..Len(a) : All(j)[p] = a[p]
        /\ \A i \in 1..Len(s) : All(j)[Len(a) + i] = s[i]
    BY <1>3, <1>7
  <2>5. ASSUME NEW i \in 1..Len(s) PROVE b[Len(a) + 1 + i] = r[i]
    <3>1. 1 + i \in 1..Len(c) /\ Len(a) + (1 + i) = Len(a) + 1 + i
      BY <2>1, <2>3
    <3>. QED
      BY <2>1, <2>3, <3>1
  <2>. QED
    BY <2>1, <2>3, <2>4, <2>5
<1>21. Due(b, e.id) = 0
  <2>1. Len(a) + 1 \in 1..Len(b)
    BY <1>20
  <2>2. Due(b, b[Len(a) + 1].id) = Due(b, b[Len(a) + 1].parent)
    <3>1. b[Len(a) + 1].role \notin {"assistant", "result"}
      BY <1>6, <1>20
    <3>. QED
      BY <1>5, <2>1, <3>1, DueIs
  <2>. QED
    BY <1>6, <1>19, <1>20, <2>2
<1>22. Due(b, k.leaf) = 0
  <2>1. CASE s = <<>>
    BY <1>6, <1>15, <1>21, <2>1
  <2>2. CASE s # <<>>
    BY <1>4, <1>12, <1>15, <1>18, <2>2
  <2>. QED
    BY <2>1, <2>2
<1>23. ASSUME NEW p \in 1..Len(a) PROVE Fits(b, b[p])
  <2>1. p \in 1..Len(All(j)) /\ b[p] = All(j)[p]
    BY <1>20
  <2>2. /\ All(j)[p] \in Entries /\ All(j)[p].parent \in {0} \cup IdsOf(All(j))
        /\ Fits(All(j), All(j)[p])
    BY <1>4, <1>12, <2>1, ParentsInside DEF Tidy
  <2>. QED
    BY <1>4, <1>5, <1>17, <2>1, <2>2, FitsThreads
<1>24. Fits(b, e)
  BY <1>6, <1>19 DEF Fits
<1>25. ASSUME NEW i \in 1..Len(s) PROVE Fits(b, r[i]) /\ Closed(r[i])
  <2>1. Closed(s[i]) /\ r[i].role = s[i].role /\ r[i].n = s[i].n
    BY <1>11, <1>12
  <2>2. Closed(r[i])
    BY <2>1 DEF Closed
  <2>3. Due(b, r[i].parent) = 0
    <3>1. CASE i = 1
      BY <1>6, <1>11, <1>21, <3>1
    <3>2. CASE i # 1
      <4>1. r[i].parent = s[i].parent
        BY <1>11, <3>2
      <4>2. Len(a) + i \in 1..Len(All(j)) /\ All(j)[Len(a) + i] = s[i]
        BY <1>20
      <4>3. Fits(All(j), s[i]) /\ s[i].parent \in {0} \cup IdsOf(All(j))
        BY <1>4, <1>12, <4>2, ParentsInside DEF Tidy
      <4>4. Due(All(j), s[i].parent) = 0
        BY <2>1, <4>3, ClosedFits
      <4>. QED
        BY <1>18, <4>1, <4>3, <4>4
    <3>. QED
      BY <3>1, <3>2
  <2>. QED
    BY <2>2, <2>3 DEF Fits, Closed
<1>26. ASSUME NEW p \in 1..Len(b) PROVE Fits(b, b[p])
  <2>1. CASE p <= Len(a)
    <3>1. p \in 1..Len(a)
      BY <1>20, <2>1
    <3>. QED
      BY <1>23, <3>1
  <2>2. CASE p = Len(a) + 1
    BY <1>20, <1>24, <2>2
  <2>3. CASE p > Len(a) + 1
    <3>. DEFINE i == p - Len(a) - 1
    <3>1. i \in 1..Len(s) /\ Len(a) + 1 + i = p
      BY <1>20, <2>3
    <3>. HIDE DEF i
    <3>2. b[p] = r[i]
      BY <1>20, <3>1
    <3>. QED
      BY <1>25, <3>1, <3>2
  <2>. QED
    BY <1>20, <2>1, <2>2, <2>3
<1>27. ASSUME NEW p \in 1..Len(k.staged) PROVE Closed(k.staged[p])
  <2>1. Len(<<e>> \o r) = 1 + Len(s) /\ (<<e>> \o r)[1] = e
        /\ \A i \in 1..Len(s) : (<<e>> \o r)[1 + i] = r[i]
    BY <1>10, <1>14, <1>20
  <2>2. CASE p = 1
    BY <1>6, <1>10, <2>1, <2>2 DEF Closed
  <2>3. CASE p # 1
    <3>. DEFINE i == p - 1
    <3>1. i \in 1..Len(s) /\ 1 + i = p
      BY <1>10, <1>20, <2>1, <2>3
    <3>. HIDE DEF i
    <3>2. k.staged[p] = r[i]
      BY <1>10, <2>1, <3>1
    <3>. QED
      BY <1>25, <3>1, <3>2
  <2>. QED
    BY <2>2, <2>3
<1>28. Settled(k)
  BY <1>12, <1>15, <1>22, <1>26, <1>27 DEF Settled, Tidy, b
<1>. QED
  BY <1>28 DEF k

\* Nothing is staged, and the next entry hangs from a committed one.
Rebase(j, leaf) == [j EXCEPT !.staged = <<>>, !.leaf = leaf]

\* Such a journal is one of ours, and holds the committed entries only.
LEMMA RebaseIs ==
  ASSUME NEW j, JournalOK(j), NEW leaf \in {0} \cup IdsOf(j.entries)
  PROVE  LET k == Rebase(j, leaf)
         IN  /\ JournalOK(k) /\ k.entries = j.entries /\ k.staged = <<>> /\ k.leaf = leaf
             /\ k.nextId = j.nextId /\ All(k) = j.entries
<1>. DEFINE k == Rebase(j, leaf)
<1>0. /\ j \in Journals
      /\ j.entries \in Seq(Entries) /\ j.nextId \in Nat \ {0}
      /\ GrowsOn(j.entries, {0}) /\ IdsOf(j.entries) \subseteq Nat
      /\ \A id \in IdsOf(j.entries) \cup IdsOf(j.staged) : id < j.nextId
  BY JournalParts, Zenon
<1>1. leaf \in Nat
  BY <1>0
<1>2. <<>> \in Seq(Entries) /\ GrowsOn(<<>>, {0} \cup IdsOf(j.entries)) /\ IdsOf(<<>>) = {}
  BY GrowsNothing
<1>3. Has(k, j.entries, <<>>, leaf, j.nextId)
  <2>1. <<>> \in Seq(Entries)
    BY <1>2
  <2>2. j \in Journals
    BY <1>0
  <2>3. 1 \in Nat \ {0}
    OBVIOUS
  <2>. QED
    BY <1>1, <2>1, <2>2, <2>3, UpdatedOtherwise, Zenon DEF Rebase
<1>4. JournalOK(k)
  <2>1. \A id \in IdsOf(j.entries) \cup IdsOf(<<>>) : id < j.nextId
    BY <1>0, <1>2
  <2>2. leaf \in {0} \cup IdsOf(j.entries) \cup IdsOf(<<>>)
    OBVIOUS
  <2>3. <<>> # <<>> => leaf = LeafId(<<>>)
    OBVIOUS
  <2>4. /\ j.entries \in Seq(Entries) /\ <<>> \in Seq(Entries)
        /\ j.nextId \in Nat \ {0} /\ GrowsOn(j.entries, {0})
        /\ GrowsOn(<<>>, {0} \cup IdsOf(j.entries))
    BY <1>0, <1>2
  <2>. HIDE DEF k
  <2>. QED
    BY <1>3, <2>1, <2>2, <2>3, <2>4, JournalMade, Zenon
<1>. HIDE DEF k
<1>5. k.entries = j.entries /\ k.staged = <<>> /\ k.leaf = leaf /\ k.nextId = j.nextId
  BY <1>3, Zenon DEF Has
<1>6. All(k) = j.entries
  BY <1>0, <1>5 DEF All
<1>. QED
  BY <1>4, <1>5, <1>6 DEF k

\* A turn begins with nothing due.
LEMMA SettledNewTurn ==
  ASSUME NEW j, JournalOK(j), Tidy(j.entries), Due(j.entries, LeafId(j.entries)) = 0,
         NEW message \in Kept, message.role = "prompt"
  PROVE  Settled(NewTurn(j, message))
<1>. DEFINE leaf == LeafId(j.entries)
            k == Rebase(j, leaf)
            ms == <<message>>
<1>1. leaf \in {0} \cup IdsOf(j.entries)
  BY JournalParts, LeafIdIs
<1>2. /\ JournalOK(k) /\ k.entries = j.entries /\ k.staged = <<>> /\ k.leaf = leaf
      /\ All(k) = j.entries
  <2>. HIDE DEF leaf
  <2>. QED
    BY <1>1, RebaseIs
<1>3. NewTurn(j, message) = Stage(k, ms)
  BY Zenon DEF NewTurn, Rebase
<1>4. ms \in Seq(Kept) /\ Len(ms) = 1 /\ ms[1] = message
  OBVIOUS
<1>. HIDE DEF ms, k
<1>5. Settled(k)
  <2>1. \A p \in 1..Len(k.staged) : Closed(k.staged[p])
    BY <1>2
  <2>. QED
    BY <1>2, <2>1 DEF Settled
<1>6. \A i \in 1..Len(ms) : Closed(ms[i])
  BY <1>4 DEF Closed
<1>7. Settled(Stage(k, ms))
  BY <1>2, <1>4, <1>5, <1>6, SettledStage
<1>. QED
  BY <1>3, <1>7

\* The messages of results.
LEMMA ResultsAre ==
  ASSUME NEW ks \in Seq(Nat)
  PROVE  /\ Results(ks) \in Seq(Kept) /\ Len(Results(ks)) = Len(ks)
         /\ \A i \in 1..Len(ks) : Results(ks)[i].role = "result" /\ Results(ks)[i].n = ks[i]
<1>1. Results(ks) \in Seq(Kept)
  BY KeptMessages
<1>2. Results(ks) = [i \in 1..Len(ks) |-> Result(ks[i])]
  BY DEF Results
<1>3. Len(Results(ks)) = Len(ks)
  BY <1>2
<1>4. \A i \in 1..Len(ks) : Results(ks)[i] = Result(ks[i])
  BY <1>2, Zenon
<1>5. \A k : Result(k).role = "result" /\ Result(k).n = k
  BY DEF Result
<1>6. \A i \in 1..Len(ks) : Results(ks)[i].role = "result" /\ Results(ks)[i].n = ks[i]
  BY <1>4, <1>5, ZenonT(30)
<1>. QED
  BY <1>1, <1>3, <1>6

\* A message that calls tools owes their results, those staged with it excepted.
LEMMA AssistantOwes ==
  ASSUME NEW j, JournalOK(j), Settled(j), NEW c \in Nat, NEW e \in Seq(Nat),
         Len(e) <= c, \A i \in 1..Len(e) : e[i] = i
  PROVE  Owed(Stage(j, <<Assistant(c)>> \o Results(e)), c - Len(e), Len(e) + 1)
<1>. DEFINE r == Results(e)
            ms == <<Assistant(c)>> \o r
            d == [i \in 0..Len(ms) |-> IF i = 0 THEN 0 ELSE c - (i - 1)]
<1>1. /\ r \in Seq(Kept) /\ Len(r) = Len(e) /\ Len(e) \in Nat
      /\ \A i \in 1..Len(e) : r[i].role = "result" /\ r[i].n = i
  <2>1. /\ r \in Seq(Kept) /\ Len(r) = Len(e)
        /\ \A i \in 1..Len(e) : r[i].role = "result" /\ r[i].n = e[i]
    BY ResultsAre, Zenon
  <2>2. Len(e) \in Nat
    OBVIOUS
  <2>. QED
    BY <2>1, <2>2, Zenon
<1>2. Assistant(c) \in Kept /\ Assistant(c).role = "assistant" /\ Assistant(c).n = c
  BY KeptMessages DEF Assistant
<1>. HIDE DEF r
<1>3. /\ ms \in Seq(Kept) /\ Len(ms) = 1 + Len(e) /\ ms # <<>>
      /\ ms[1] = Assistant(c) /\ \A i \in 1..Len(e) : ms[1 + i] = r[i]
  <2>1. Assistant(c) \in Kept /\ r \in Seq(Kept)
    BY <1>1, <1>2
  <2>2. /\ ms \in Seq(Kept) /\ Len(ms) = 1 + Len(r) /\ ms # <<>>
        /\ ms[1] = Assistant(c) /\ \A i \in 1..Len(r) : ms[1 + i] = r[i]
    BY <2>1, PrependIs, Zenon
  <2>. HIDE DEF ms
  <2>. QED
    BY <1>1, <2>2
<1>. HIDE DEF ms
<1>4. d[0] = 0 /\ \A i \in 1..Len(ms) : d[i] = c - (i - 1)
  BY <1>1, <1>3
<1>. HIDE DEF d
<1>13. Len(ms) = 1 + Len(e) /\ Len(e) \in Nat
  BY <1>1, <1>3
<1>5. ASSUME NEW i \in 1..Len(ms), i # 1
      PROVE  /\ ms[i].role = "result" /\ ms[i].n = i - 1 /\ d[i - 1] = c - (i - 2)
             /\ d[i - 1] \in Nat /\ d[i - 1] # 0 /\ d[i] = d[i - 1] - 1
             /\ i # 2 => ms[i - 1].role = "result" /\ ms[i - 1].n = i - 2
  <2>0. i - 1 \in 1..Len(e) /\ i - 1 \in 1..Len(ms) /\ 1 + (i - 1) = i
    BY <1>5, <1>13
  <2>1. i - 1 \in 1..Len(e) /\ i - 1 \in 1..Len(ms) /\ ms[1 + (i - 1)] = r[i - 1]
        /\ 1 + (i - 1) = i
    BY <1>3, <2>0
  <2>2. ms[i] = r[i - 1]
    BY <2>1
  <2>3. d[i - 1] = c - (i - 1 - 1) /\ d[i] = c - (i - 1)
    BY <1>4, <2>1
  <2>4. ASSUME i # 2 PROVE ms[i - 1].role = "result" /\ ms[i - 1].n = i - 2
    <3>1. i - 2 \in 1..Len(e) /\ 1 + (i - 2) = i - 1
      BY <1>5, <1>13, <2>4
    <3>2. ms[i - 1] = r[i - 2]
      BY <1>3, <3>1
    <3>. QED
      BY <1>1, <3>1, <3>2
  <2>5. ms[i].role = "result" /\ ms[i].n = i - 1
    BY <1>1, <2>1, <2>2
  <2>6. /\ d[i - 1] = c - (i - 2) /\ d[i - 1] \in Nat /\ d[i - 1] # 0
        /\ d[i] = d[i - 1] - 1
    <3>1. i \in Nat /\ i - 1 <= Len(e) /\ Len(e) \in Nat /\ Len(e) <= c
      BY <1>5, <1>13, <2>1
    <3>2. c - (i - 1 - 1) = c - (i - 2) /\ c - (i - 1) = (c - (i - 2)) - 1
      BY <3>1
    <3>3. c - (i - 2) \in Nat /\ c - (i - 2) # 0
      BY <3>1
    <3>. QED
      BY <2>3, <3>2, <3>3
  <2>. QED
    BY <2>4, <2>5, <2>6
<1>6. Moves(ms, d, DueStep)
  <2>1. ASSUME NEW i \in 1..Len(ms), NEW x \in Entries, x.role = ms[i].role, x.n = ms[i].n
        PROVE  DueStep[x][d[i - 1]] = d[i]
    <3>1. CASE i = 1
      <4>1. x.role = "assistant" /\ x.n = c /\ d[i - 1] = 0 /\ d[i] = c
        <5>1. x.role = "assistant" /\ x.n = c
          BY <1>2, <1>3, <2>1, <3>1, Zenon
        <5>2. i - 1 = 0 /\ c - (i - 1) = c
          BY <3>1
        <5>3. d[0] = 0 /\ d[i] = c - (i - 1)
          BY <1>4, Zenon
        <5>. QED
          BY <5>1, <5>2, <5>3
      <4>. QED
        BY <4>1, DueSteps
    <3>2. CASE i # 1
      <4>1. x.role = "result" /\ d[i - 1] \in Nat /\ d[i - 1] # 0 /\ d[i] = d[i - 1] - 1
        BY <1>5, <2>1, <3>2
      <4>. QED
        BY <4>1, DueSteps
    <3>. QED
      BY <3>1, <3>2
  <2>2. \A i \in 1..Len(ms) : ms[i] \in Kept
    BY <1>3
  <2>. QED
    BY <2>1, <2>2 DEF Moves
<1>7. Due(All(j), j.leaf) = 0 /\ Tidy(All(j))
  BY DEF Settled
<1>8. \A i \in 1..Len(ms) :
        /\ ms[i].role \in Openings => d[i - 1] = 0
        /\ ms[i].role = "result" =>
             /\ d[i - 1] # 0
             /\ IF i = 1 THEN Answers(All(j), j.leaf, ms[i].n)
                ELSE \/ ms[i - 1].role = "assistant" /\ ms[i].n = 1
                     \/ ms[i - 1].role = "result" /\ ms[i].n = ms[i - 1].n + 1
  <2>1. ASSUME NEW i \in 1..Len(ms), i = 1
        PROVE  ms[i].role \in Openings /\ ms[i].role # "result" /\ d[i - 1] = 0
    BY <1>2, <1>3, <1>4, <2>1 DEF Openings
  <2>2. ASSUME NEW i \in 1..Len(ms), i # 1
        PROVE  /\ ms[i].role \notin Openings /\ d[i - 1] # 0
               /\ \/ ms[i - 1].role = "assistant" /\ ms[i].n = 1
                  \/ ms[i - 1].role = "result" /\ ms[i].n = ms[i - 1].n + 1
    <3>1. ms[i].role \notin Openings /\ d[i - 1] # 0 /\ ms[i].n = i - 1
      BY <1>5, <2>2 DEF Openings
    <3>2. CASE i = 2
      BY <1>2, <1>3, <3>1, <3>2
    <3>3. CASE i # 2
      BY <1>5, <2>2, <3>1, <3>3
    <3>. QED
      BY <3>1, <3>2, <3>3
  <2>. QED
    BY <2>1, <2>2
<1>9. Suits(All(j), j.leaf, ms, d)
  BY <1>4, <1>6, <1>7, <1>8 DEF Suits
<1>10. Len(ms) \in 1..Len(ms) /\ d[Len(ms)] = c - Len(e)
  BY <1>1, <1>3, <1>4
<1>11. \/ ms[Len(ms)].role = "assistant" /\ Len(e) + 1 = 1
       \/ ms[Len(ms)].role = "result" /\ Len(e) + 1 = ms[Len(ms)].n + 1
  <2>1. CASE Len(ms) = 1
    BY <1>1, <1>2, <1>3, <2>1
  <2>2. CASE Len(ms) # 1
    <3>1. ms[Len(ms)].role = "result" /\ ms[Len(ms)].n = Len(ms) - 1
      BY <1>5, <1>10, <2>2
    <3>. QED
      BY <1>1, <1>3, <3>1
  <2>. QED
    BY <2>1, <2>2
<1>12. Owed(Stage(j, ms), d[Len(ms)], Len(e) + 1)
  <2>. DEFINE n == Len(e) + 1
  <2>1. \/ ms[Len(ms)].role = "assistant" /\ n = 1
        \/ ms[Len(ms)].role = "result" /\ n = ms[Len(ms)].n + 1
    BY <1>11
  <2>. HIDE DEF n
  <2>2. Owed(Stage(j, ms), d[Len(ms)], n)
    BY <1>3, <1>7, <1>9, <2>1, OwedWithAll
  <2>. QED
    BY <2>2 DEF n
<1>. QED
  BY <1>10, <1>12 DEF ms, r

\* The next results in order leave those after them.
LEMMA ResultsOwe ==
  ASSUME NEW j, JournalOK(j), NEW d \in Nat, NEW n \in Nat, Owed(j, d, n),
         NEW new \in Seq(Nat), new # <<>>, Len(new) <= d,
         \A i \in 1..Len(new) : new[i] = n + i - 1
  PROVE  Owed(Stage(j, Results(new)), d - Len(new), n + Len(new))
<1>. DEFINE ms == Results(new)
            x == [i \in 0..Len(ms) |-> d - i]
<1>1. /\ ms \in Seq(Kept) /\ Len(ms) = Len(new) /\ Len(new) \in Nat /\ Len(new) # 0
      /\ \A i \in 1..Len(new) : ms[i].role = "result" /\ ms[i].n = n + i - 1
  BY ResultsAre, EmptySeq
<1>. HIDE DEF ms
<1>2. \A i \in 0..Len(ms) : x[i] = d - i
  OBVIOUS
<1>. HIDE DEF x
<1>3. \A i \in 1..Len(ms) : /\ x[i - 1] \in Nat /\ x[i - 1] # 0 /\ x[i] = x[i - 1] - 1
                            /\ ms[i].role = "result" /\ ms[i].n = n + i - 1
  <2>1. ASSUME NEW i \in 1..Len(ms)
        PROVE  x[i - 1] = d - (i - 1) /\ x[i] = d - i /\ i <= d
    <3>1. i - 1 \in 0..Len(ms) /\ i \in 0..Len(ms) /\ i <= d
      BY <1>1
    <3>. QED
      BY <1>2, <3>1
  <2>2. ASSUME NEW i \in 1..Len(ms)
        PROVE  x[i - 1] \in Nat /\ x[i - 1] # 0 /\ x[i] = x[i - 1] - 1
    BY <1>1, <2>1
  <2>. QED
    BY <1>1, <2>2
<1>4. Moves(ms, x, DueStep)
  <2>1. ASSUME NEW i \in 1..Len(ms), NEW y \in Entries, y.role = ms[i].role, y.n = ms[i].n
        PROVE  DueStep[y][x[i - 1]] = x[i]
    <3>1. y.role = "result" /\ x[i - 1] \in Nat /\ x[i - 1] # 0 /\ x[i] = x[i - 1] - 1
      BY <1>3, <2>1
    <3>. QED
      BY <3>1, DueSteps
  <2>2. \A i \in 1..Len(ms) : ms[i] \in Kept
    BY <1>1
  <2>. QED
    BY <2>1, <2>2 DEF Moves
<1>5. /\ Tidy(All(j)) /\ Due(All(j), j.leaf) = d
      /\ d # 0 => Answers(All(j), j.leaf, n)
  BY DEF Owed
<1>6. x[0] = d /\ Answers(All(j), j.leaf, n)
  BY <1>1, <1>2, <1>5
<1>7. \A i \in 1..Len(ms) :
        /\ ms[i].role \in Openings => x[i - 1] = 0
        /\ ms[i].role = "result" =>
             /\ x[i - 1] # 0
             /\ IF i = 1 THEN Answers(All(j), j.leaf, ms[i].n)
                ELSE \/ ms[i - 1].role = "assistant" /\ ms[i].n = 1
                     \/ ms[i - 1].role = "result" /\ ms[i].n = ms[i - 1].n + 1
  <2>1. ASSUME NEW i \in 1..Len(ms), i = 1
        PROVE  Answers(All(j), j.leaf, ms[i].n)
    <3>1. ms[i].n = n
      BY <1>3, <2>1
    <3>. QED
      BY <1>6, <3>1
  <2>2. ASSUME NEW i \in 1..Len(ms), i # 1
        PROVE  ms[i - 1].role = "result" /\ ms[i].n = ms[i - 1].n + 1
    <3>1. i - 1 \in 1..Len(ms)
      BY <1>1, <2>2
    <3>2. /\ ms[i - 1].n = n + (i - 1) - 1 /\ ms[i - 1].role = "result"
          /\ ms[i].n = n + i - 1
      BY <1>3, <3>1
    <3>3. n + i - 1 = n + (i - 1) - 1 + 1
      OBVIOUS
    <3>. QED
      BY <3>2, <3>3
  <2>3. \A i \in 1..Len(ms) : ms[i].role \notin Openings /\ x[i - 1] # 0
    BY <1>3 DEF Openings
  <2>. QED
    BY <2>1, <2>2, <2>3
<1>8. Suits(All(j), j.leaf, ms, x)
  BY <1>4, <1>5, <1>6, <1>7 DEF Suits
<1>. DEFINE m == n + Len(new)
<1>9. /\ Len(ms) \in 1..Len(ms) /\ x[Len(ms)] = d - Len(new)
      /\ ms[Len(ms)].role = "result" /\ m = ms[Len(ms)].n + 1
  <2>1. Len(ms) \in 1..Len(ms) /\ Len(ms) \in 0..Len(ms)
    BY <1>1
  <2>. QED
    BY <1>1, <1>2, <1>3, <2>1
<1>10. ms # <<>>
  BY <1>1
<1>. HIDE DEF m
<1>11. Owed(Stage(j, ms), x[Len(ms)], m)
  BY <1>1, <1>5, <1>8, <1>9, <1>10, OwedWithAll
<1>. QED
  BY <1>9, <1>11 DEF ms, m

-----------------------------------------------------------------------------
(* Repairing a log *)

\* The calls 1 to r of entry i have their results right after it.
Answered(s, i, r) ==
  \A k \in 1..r : i + k <= Len(s) /\ s[i + k].role = "result" /\ s[i + k].n = k

\* Entry i, an assistant message, has r results and d more are due; nothing but
\* remarks follow.
Opened(es, s, i, r, d) ==
  /\ i \in 1..Len(s) /\ r \in Nat /\ d # 0 /\ i + r <= Len(s)
  /\ s[i].role = "assistant" /\ s[i].n = r + d /\ Answered(s, i, r)
  /\ Due(es, s[i + r].id) = d
  /\ \A k \in 1..Len(s) : i + r < k => s[k].role \in Remarks

Completed(s, i) == s[i].role = "assistant" => Answered(s, i, s[i].n)

\* On a path where d results are due every message has its results, but for the one
\* that is open when d is not 0.
Neat(es, s, d) ==
  /\ \A i \in 1..Len(s) : Completed(s, i) \/ \E r : Opened(es, s, i, r, d)
  /\ d # 0 => \E i, r : Opened(es, s, i, r, d)

\* t is s with e at its end.
LongerBy(s, e, t) ==
  /\ t \in Seq(Entries) /\ Len(t) = Len(s) + 1 /\ t[Len(s) + 1] = e
  /\ \A k \in 1..Len(s) : t[k] = s[k]

\* Append makes one.
LEMMA LongerByOne ==
  ASSUME NEW s \in Seq(Entries), NEW e \in Entries
  PROVE  LongerBy(s, e, Append(s, e))
BY DEF LongerBy

\* What is answered stays so.
LEMMA AnsweredLonger ==
  ASSUME NEW s \in Seq(Entries), NEW e, NEW t, LongerBy(s, e, t), NEW i \in 1..Len(s),
         NEW r \in Nat, Answered(s, i, r)
  PROVE  Answered(t, i, r)
<1>1. ASSUME NEW k \in 1..r
      PROVE  i + k <= Len(t) /\ t[i + k].role = "result" /\ t[i + k].n = k
  <2>1. i + k <= Len(s) /\ s[i + k].role = "result" /\ s[i + k].n = k
    BY DEF Answered
  <2>2. i + k \in 1..Len(s)
    BY <2>1
  <2>. QED
    BY <2>1, <2>2 DEF LongerBy
<1>. QED
  BY <1>1 DEF Answered

\* ... and what is completed.
LEMMA CompletedLonger ==
  ASSUME NEW s \in Seq(Entries), NEW e, NEW t, LongerBy(s, e, t), NEW i \in 1..Len(s),
         Completed(s, i)
  PROVE  Completed(t, i)
<1>1. t[i] = s[i] /\ s[i].n \in Nat
  BY EntryFields DEF LongerBy
<1>. QED
  BY <1>1, AnsweredLonger DEF Completed

\* A remark closes nothing, and other entries come where nothing is open.
LEMMA NeatPlain ==
  ASSUME NEW es, NEW s \in Seq(Entries), NEW e \in Entries, NEW t, LongerBy(s, e, t),
         NEW d \in Nat, Neat(es, s, d), e.role \notin {"assistant", "result"},
         e.role \in Remarks \/ d = 0
  PROVE  Neat(es, t, d)
<1>1. /\ Len(t) = Len(s) + 1 /\ t[Len(s) + 1] = e /\ Len(s) \in Nat
      /\ \A k \in 1..Len(s) : t[k] = s[k]
  BY DEF LongerBy
<1>2. ASSUME NEW i, NEW r, Opened(es, s, i, r, d) PROVE Opened(es, t, i, r, d)
  <2>1. /\ i \in 1..Len(s) /\ r \in Nat /\ d # 0 /\ i + r <= Len(s)
        /\ s[i].role = "assistant" /\ s[i].n = r + d /\ Answered(s, i, r)
        /\ Due(es, s[i + r].id) = d
        /\ \A k \in 1..Len(s) : i + r < k => s[k].role \in Remarks
    BY <1>2 DEF Opened
  <2>2. i \in 1..Len(t) /\ i + r <= Len(t) /\ t[i] = s[i] /\ t[i + r] = s[i + r]
    BY <1>1, <2>1
  <2>3. Answered(t, i, r)
    BY <2>1, AnsweredLonger
  <2>4. ASSUME NEW k \in 1..Len(t), i + r < k PROVE t[k].role \in Remarks
    <3>1. CASE k \in 1..Len(s)
      BY <1>1, <2>1, <2>4, <3>1
    <3>2. CASE k = Len(s) + 1
      BY <1>1, <2>1, <3>2
    <3>. QED
      BY <1>1, <3>1, <3>2
  <2>. QED
    BY <2>1, <2>2, <2>3, <2>4 DEF Opened
<1>3. ASSUME NEW i \in 1..Len(t)
      PROVE  Completed(t, i) \/ \E r : Opened(es, t, i, r, d)
  <2>1. CASE i \in 1..Len(s)
    BY <1>2, <2>1, CompletedLonger DEF Neat
  <2>2. CASE i = Len(s) + 1
    BY <1>1, <2>2 DEF Completed
  <2>. QED
    BY <1>1, <2>1, <2>2
<1>4. d # 0 => \E i, r : Opened(es, t, i, r, d)
  BY <1>2 DEF Neat
<1>. QED
  BY <1>3, <1>4 DEF Neat

\* A message that calls tools opens,
LEMMA NeatAssistant ==
  ASSUME NEW es, NEW s \in Seq(Entries), NEW e \in Entries, NEW t, LongerBy(s, e, t),
         Neat(es, s, 0), e.role = "assistant", Due(es, e.id) = e.n
  PROVE  Neat(es, t, e.n)
<1>1. /\ Len(t) = Len(s) + 1 /\ t[Len(s) + 1] = e /\ Len(s) \in Nat
      /\ \A k \in 1..Len(s) : t[k] = s[k]
  BY DEF LongerBy
<1>2. e.n \in Nat
  BY DEF Entries
<1>. DEFINE m == Len(s) + 1
<1>3. m \in 1..Len(t) /\ t[m] = e /\ Len(t) = m /\ m \in Nat /\ m + 0 = m
  BY <1>1
<1>4. \A i \in 1..Len(t) : i \in 1..Len(s) \/ i = m
  BY <1>1
<1>. HIDE DEF m
<1>5. Answered(t, m, 0)
  BY DEF Answered
<1>6. e.n # 0 => Opened(es, t, m, 0, e.n)
  <2>1. t[m + 0] = e
    BY <1>3
  <2>2. \A k \in 1..Len(t) : m + 0 < k => t[k].role \in Remarks
    BY <1>3
  <2>3. 0 + e.n = e.n /\ m + 0 <= Len(t)
    BY <1>2, <1>3
  <2>. QED
    BY <1>3, <1>5, <2>1, <2>2, <2>3 DEF Opened
<1>7. e.n = 0 => Completed(t, m)
  BY <1>3, <1>5 DEF Completed
<1>8. ASSUME NEW i \in 1..Len(s) PROVE Completed(t, i)
  <2>1. Completed(s, i)
    BY DEF Neat, Opened
  <2>. QED
    BY <2>1, CompletedLonger
<1>9. \A i \in 1..Len(t) : Completed(t, i) \/ \E r : Opened(es, t, i, r, e.n)
  <2>1. Completed(t, m) \/ \E r : Opened(es, t, m, r, e.n)
    BY <1>6, <1>7
  <2>. QED
    BY <1>4, <1>8, <2>1
<1>10. e.n # 0 => \E i, r : Opened(es, t, i, r, e.n)
  BY <1>6
<1>. QED
  BY <1>9, <1>10 DEF Neat

\* ... and the results of its calls close it.
LEMMA NeatResult ==
  ASSUME NEW es, NEW s \in Seq(Entries), NEW e \in Entries, NEW t, LongerBy(s, e, t),
         NEW d \in Nat, d # 0, Neat(es, s, d), e.role = "result", Len(s) # 0,
         \/ s[Len(s)].role = "assistant" /\ e.n = 1
         \/ s[Len(s)].role = "result" /\ e.n = s[Len(s)].n + 1,
         Due(es, e.id) = d - 1
  PROVE  Neat(es, t, d - 1)
<1>1. /\ Len(t) = Len(s) + 1 /\ t[Len(s) + 1] = e /\ Len(s) \in Nat
      /\ \A k \in 1..Len(s) : t[k] = s[k]
  BY DEF LongerBy
<1>. DEFINE Next2(i, r) ==
       /\ i \in 1..Len(s) /\ r \in Nat /\ i + r = Len(s) /\ e.n = r + 1
       /\ s[i].role = "assistant" /\ s[i].n = r + d /\ Answered(t, i, r + 1)
<1>2. ASSUME NEW i, NEW r, Opened(es, s, i, r, d) PROVE Next2(i, r)
  <2>1. /\ i \in 1..Len(s) /\ r \in Nat /\ i + r <= Len(s)
        /\ s[i].role = "assistant" /\ s[i].n = r + d /\ Answered(s, i, r)
        /\ \A k \in 1..Len(s) : i + r < k => s[k].role \in Remarks
    BY <1>2 DEF Opened
  <2>2. i + r = Len(s)
    <3>1. Len(s) \in 1..Len(s) /\ s[Len(s)].role \notin Remarks
      BY <1>1 DEF Remarks
    <3>2. ~(i + r < Len(s))
      BY <2>1, <3>1
    <3>3. i \in Nat /\ r \in Nat /\ Len(s) \in Nat /\ i + r <= Len(s)
      BY <1>1, <2>1
    <3>. QED
      BY <3>2, <3>3
  <2>3. e.n = r + 1
    <3>1. CASE r = 0
      <4>1. i = Len(s)
        BY <2>1, <2>2, <3>1
      <4>. QED
        BY <2>1, <3>1, <4>1
    <3>2. CASE r # 0
      <4>1. r \in 1..r
        BY <2>1, <3>2
      <4>2. s[i + r].role = "result" /\ s[i + r].n = r
        BY <2>1, <4>1 DEF Answered
      <4>3. s[Len(s)].role = "result" /\ s[Len(s)].n = r
        BY <2>2, <4>2
      <4>. QED
        BY <4>3
    <3>. QED
      BY <3>1, <3>2
  <2>4. Answered(t, i, r + 1)
    <3>1. Answered(t, i, r)
      BY <2>1, AnsweredLonger
    <3>2. i + (r + 1) <= Len(t) /\ t[i + (r + 1)] = e
      BY <1>1, <2>1, <2>2
    <3>3. ASSUME NEW k \in 1..(r + 1)
          PROVE  i + k <= Len(t) /\ t[i + k].role = "result" /\ t[i + k].n = k
      <4>1. CASE k \in 1..r
        BY <3>1, <4>1 DEF Answered
      <4>2. CASE k = r + 1
        BY <2>3, <3>2, <4>2
      <4>. QED
        BY <2>1, <4>1, <4>2
    <3>. QED
      BY <3>3 DEF Answered
  <2>. QED
    BY <2>1, <2>2, <2>3, <2>4
<1>3. ASSUME NEW i, NEW r, Next2(i, r), d - 1 # 0
      PROVE  Opened(es, t, i, r + 1, d - 1)
  <2>1. /\ i \in 1..Len(t) /\ r + 1 \in Nat /\ i + (r + 1) = Len(t)
        /\ t[i] = s[i] /\ t[i + (r + 1)] = e
    BY <1>1, <1>3
  <2>2. t[i].role = "assistant" /\ t[i].n = (r + 1) + (d - 1)
    BY <1>3, <2>1
  <2>3. Due(es, t[i + (r + 1)].id) = d - 1
    BY <2>1
  <2>4. \A k \in 1..Len(t) : i + (r + 1) < k => t[k].role \in Remarks
    BY <1>1, <2>1
  <2>5. Answered(t, i, r + 1)
    BY <1>3
  <2>6. i + (r + 1) <= Len(t)
    BY <1>1, <2>1
  <2>. QED
    BY <1>3, <2>1, <2>2, <2>3, <2>4, <2>5, <2>6 DEF Opened
<1>4. ASSUME NEW i, NEW r, Next2(i, r), d - 1 = 0 PROVE Completed(t, i)
  <2>1. t[i] = s[i] /\ s[i].n = r + 1
    BY <1>1, <1>4
  <2>. QED
    BY <1>4, <2>1 DEF Completed
<1>. HIDE DEF Next2
<1>5. ASSUME NEW i \in 1..Len(t)
      PROVE  Completed(t, i) \/ \E r : Opened(es, t, i, r, d - 1)
  <2>1. CASE i \in 1..Len(s)
    <3>1. CASE Completed(s, i)
      BY <2>1, <3>1, CompletedLonger
    <3>2. CASE \E r : Opened(es, s, i, r, d)
      BY <1>2, <1>3, <1>4, <3>2
    <3>. QED
      BY <2>1, <3>1, <3>2 DEF Neat
  <2>2. CASE i = Len(s) + 1
    BY <1>1, <2>2 DEF Completed
  <2>. QED
    BY <1>1, <2>1, <2>2
<1>6. d - 1 # 0 => \E i, r : Opened(es, t, i, r, d - 1)
  BY <1>2, <1>3 DEF Neat
<1>. QED
  BY <1>5, <1>6 DEF Neat

\* So it is on every path of a tidy log.
LEMMA PathsAreNeat ==
  ASSUME NEW es \in Seq(Entries), GrowsOn(es, {0}), Tidy(es)
  PROVE  \A id \in {0} \cup IdsOf(es) : Neat(es, PathFrom(es, id), Due(es, id))
<1>. DEFINE G == {id \in {0} \cup IdsOf(es) : Neat(es, PathFrom(es, id), Due(es, id))}
<1>1. 0 \in G
  <2>1. PathFrom(es, 0) = <<>> /\ Due(es, 0) = 0
    BY Paths, DueIs
  <2>2. Neat(es, <<>>, 0)
    BY DEF Neat
  <2>. QED
    BY <2>1, <2>2
<1>2. ASSUME NEW p \in 1..Len(es), es[p].parent \in G PROVE es[p].id \in G
  <2>. DEFINE e == es[p]
              s == PathFrom(es, e.parent)
              t == PathFrom(es, e.id)
              d == Due(es, e.parent)
  <2>1. e \in Entries /\ e.id \in IdsOf(es) /\ e.role \in EntryRoles
    BY EntryFields
  <2>2. t = Append(s, e)
    BY Paths
  <2>3. s \in Seq(Entries)
    BY PathMembers
  <2>4. d \in Nat
    BY DueIs
  <2>5. Neat(es, s, d)
    BY <1>2
  <2>6. Fits(es, e)
    BY DEF Tidy
  <2>7. /\ e.role = "assistant" => Due(es, e.id) = e.n
        /\ e.role = "result" /\ d # 0 => Due(es, e.id) = d - 1
        /\ e.role \notin {"assistant", "result"} => Due(es, e.id) = d
    BY DueIs
  <2>8. e.role = "result" =>
          /\ d # 0 /\ Len(s) # 0
          /\ \/ s[Len(s)].role = "assistant" /\ e.n = 1
             \/ s[Len(s)].role = "result" /\ e.n = s[Len(s)].n + 1
    <3>. SUFFICES ASSUME e.role = "result"
                  PROVE  /\ d # 0 /\ Len(s) # 0
                         /\ \/ s[Len(s)].role = "assistant" /\ e.n = 1
                            \/ s[Len(s)].role = "result" /\ e.n = s[Len(s)].n + 1
      OBVIOUS
    <3>1. d # 0 /\ Answers(es, e.parent, e.n)
      BY <2>6 DEF Fits
    <3>2. PICK q \in 1..Len(es) :
            /\ es[q].id = e.parent
            /\ \/ es[q].role = "assistant" /\ e.n = 1
               \/ es[q].role = "result" /\ e.n = es[q].n + 1
      BY <3>1 DEF Answers
    <3>. DEFINE u == PathFrom(es, es[q].parent)
                f == es[q]
    <3>3. s = Append(u, f)
      BY <3>2, Paths
    <3>4. u \in Seq(Entries)
      BY PathMembers
    <3>5. f \in Entries
      OBVIOUS
    <3>. HIDE DEF u, f, s
    <3>6. Len(s) # 0 /\ s[Len(s)] = f
      BY <3>3, <3>4, <3>5
    <3>. QED
      BY <3>1, <3>2, <3>6 DEF f
  <2>. HIDE DEF e, s, t, d
  <2>9. LongerBy(s, e, t)
    BY <2>1, <2>2, <2>3, LongerByOne
  <2>10. Neat(es, t, Due(es, e.id))
    <3>1. CASE e.role = "assistant"
      <4>1. d = 0
        BY <2>6, <3>1 DEF Fits, Openings, d
      <4>2. Due(es, e.id) = e.n
        BY <2>7, <3>1
      <4>. QED
        BY <2>1, <2>3, <2>5, <2>9, <3>1, <4>1, <4>2, NeatAssistant
    <3>2. CASE e.role = "result"
      <4>1. Due(es, e.id) = d - 1 /\ d # 0
        BY <2>7, <2>8, <3>2
      <4>. QED
        BY <2>1, <2>3, <2>4, <2>5, <2>8, <2>9, <3>2, <4>1, NeatResult
    <3>3. CASE e.role \notin {"assistant", "result"}
      <4>1. Due(es, e.id) = d
        BY <2>7, <3>3
      <4>2. e.role \in Remarks \/ d = 0
        BY <2>1, <2>6, <3>3 DEF Fits, Openings, Remarks, EntryRoles, MessageRoles, d
      <4>. QED
        BY <2>1, <2>3, <2>4, <2>5, <2>9, <3>3, <4>1, <4>2, NeatPlain
    <3>. QED
      BY <3>1, <3>2, <3>3
  <2>. QED
    BY <2>1, <2>10 DEF e, t
<1>3. {0} \cup IdsOf(es) \subseteq G
  <2>. HIDE DEF G
  <2>. QED
    BY <1>1, <1>2, TreeInduction
<1>. QED
  BY <1>3

\* The calls without a result, when those up to r have one.
LEMMA UnansweredIs ==
  ASSUME NEW path \in Seq(Entries), NEW i \in 1..Len(path), path[i].role = "assistant",
         NEW r \in 0..path[i].n,
         \A k \in 1..path[i].n : k \in AnsweredAt(path, i) <=> k <= r
  PROVE  /\ Unanswered(path, i) \in Seq(Nat) /\ Len(Unanswered(path, i)) = path[i].n - r
         /\ \A x \in 1..(path[i].n - r) : Unanswered(path, i)[x] = r + x
<1>. DEFINE n == path[i].n
<1>1. PICK f : Missing(f, path, i)
  BY UnansweredSteps
<1>2. n \in Nat
  BY EntryFields
<1>3. r \in Nat /\ r <= n
  BY <1>2
<1>4. /\ f \in [0..n -> Seq(Nat)] /\ f[0] = <<>>
      /\ \A k \in 1..n : f[k] = IF k <= r THEN f[k - 1] ELSE Append(f[k - 1], k)
      /\ Unanswered(path, i) = f[n]
  BY <1>1 DEF Missing
<1>. HIDE DEF n
<1>. DEFINE Holds(k) ==
              /\ Len(f[k]) = IF k <= r THEN 0 ELSE k - r
              /\ \A x \in 1..Len(f[k]) : f[k][x] = r + x
            G == {k \in 0..n : Holds(k)}
<1>5. 0 \in G
  BY <1>2, <1>3, <1>4
<1>6. ASSUME NEW k \in 1..n, \A m \in 0..(k - 1) : m \in G PROVE k \in G
  <2>1. k - 1 \in 0..(k - 1) /\ k \in 0..n /\ k - 1 \in 0..n /\ k \in Nat
    BY <1>2
  <2>2. k - 1 \in G
    <3>. HIDE DEF G
    <3>. QED
      BY <1>6, <2>1
  <2>. DEFINE s == f[k - 1]
  <2>3. s \in Seq(Nat)
    BY <1>4, <2>1
  <2>4. /\ Len(s) = IF k - 1 <= r THEN 0 ELSE k - 1 - r
        /\ \A x \in 1..Len(s) : s[x] = r + x
    BY <2>2
  <2>5. f[k] = IF k <= r THEN s ELSE Append(s, k)
    BY <1>4
  <2>. HIDE DEF s
  <2>6. CASE k <= r
    <3>1. f[k] = s /\ k - 1 <= r
      BY <1>3, <2>1, <2>5, <2>6
    <3>. QED
      BY <2>1, <2>4, <2>6, <3>1
  <2>7. CASE ~(k <= r)
    <3>1. f[k] = Append(s, k) /\ Len(s) = k - 1 - r
      BY <1>3, <2>1, <2>4, <2>5, <2>7
    <3>2. Len(f[k]) = k - r
      BY <1>3, <2>1, <2>3, <3>1
    <3>3. ASSUME NEW x \in 1..Len(f[k]) PROVE f[k][x] = r + x
      <4>1. CASE x <= Len(s)
        <5>1. x \in 1..Len(s) /\ f[k][x] = s[x]
          BY <2>3, <3>1, <4>1
        <5>. QED
          BY <2>4, <5>1
      <4>2. CASE x = Len(s) + 1
        <5>1. f[k][x] = k
          BY <2>3, <3>1, <4>2
        <5>. QED
          BY <1>3, <2>1, <3>1, <4>2, <5>1
      <4>3. x \in Int /\ x <= Len(s) + 1
        BY <1>3, <2>1, <3>1, <3>2
      <4>. QED
        BY <2>3, <4>1, <4>2, <4>3
    <3>4. Holds(k)
      BY <2>7, <3>2, <3>3
    <3>. QED
      BY <2>1, <3>4
  <2>. QED
    BY <2>6, <2>7
<1>7. \A k \in 0..n : k \in G
  <2>. HIDE DEF G
  <2>. QED
    BY <1>2, <1>5, <1>6, UpToInduction, Zenon
<1>8. n \in 0..n
  BY <1>2
<1>9. Holds(n)
  BY <1>7, <1>8
<1>10. Len(f[n]) = n - r
  BY <1>2, <1>3, <1>9
<1>11. f[n] \in Seq(Nat)
  BY <1>4, <1>8
<1>. QED
  BY <1>4, <1>9, <1>10, <1>11 DEF n

\* A call that has its result has no other on the way.
LEMMA CompletedLacksNone ==
  ASSUME NEW path \in Seq(Entries), NEW i \in 1..Len(path), Completed(path, i)
  PROVE  Unanswered(path, i) = <<>>
<1>1. CASE path[i].role # "assistant"
  <2>1. PICK f : Missing(f, path, i)
    BY UnansweredSteps
  <2>. QED
    BY <1>1, <2>1 DEF Missing
<1>2. CASE path[i].role = "assistant"
  <2>. DEFINE n == path[i].n
              m == ResultsAfter(path, i)
  <2>1. n \in Nat
    BY EntryFields
  <2>2. \A k \in 1..n : i + k <= Len(path) /\ path[i + k].role = "result" /\ path[i + k].n = k
    BY <1>2 DEF Completed, Answered
  <2>3. /\ m \in 0..(Len(path) - i)
        /\ i + m < Len(path) => path[i + m + 1].role # "result"
    BY ResultsAfterIs
  <2>. HIDE DEF n, m
  <2>4. n <= m
    <3>1. SUFFICES ASSUME m < n PROVE FALSE
      BY <2>1, <2>3
    <3>2. m + 1 \in 1..n /\ i + (m + 1) = i + m + 1 /\ m \in Nat /\ i \in Nat
      BY <2>1, <2>3, <3>1
    <3>3. i + m + 1 <= Len(path) /\ path[i + m + 1].role = "result"
      BY <2>2, <3>2
    <3>4. i + m < Len(path)
      BY <3>2, <3>3
    <3>. QED
      BY <2>3, <3>3, <3>4
  <2>5. ASSUME NEW k \in 1..n PROVE k \in AnsweredAt(path, i)
    <3>1. k \in 1..m /\ path[i + k].n = k
      BY <2>1, <2>2, <2>3, <2>4
    <3>. QED
      BY <3>1 DEF AnsweredAt, m
  <2>6. n \in 0..n /\ \A k \in 1..n : k \in AnsweredAt(path, i) <=> k <= n
    BY <2>1, <2>5
  <2>7. Len(Unanswered(path, i)) = n - n /\ Unanswered(path, i) \in Seq(Nat)
    BY <1>2, <2>6, UnansweredIs DEF n
  <2>. QED
    BY <2>1, <2>7, EmptySeq
<1>. QED
  BY <1>1, <1>2

\* An open message lacks the results after those it has.
LEMMA OpenedLacks ==
  ASSUME NEW es, NEW path \in Seq(Entries), NEW i, NEW r, NEW d \in Nat,
         Opened(es, path, i, r, d)
  PROVE  /\ ResultsAfter(path, i) = r
         /\ Unanswered(path, i) \in Seq(Nat) /\ Len(Unanswered(path, i)) = d
         /\ \A x \in 1..d : Unanswered(path, i)[x] = r + x
<1>1. /\ i \in 1..Len(path) /\ r \in Nat /\ d # 0 /\ i + r <= Len(path)
      /\ path[i].role = "assistant" /\ path[i].n = r + d
      /\ \A k \in 1..r : path[i + k].role = "result" /\ path[i + k].n = k
      /\ \A k \in 1..Len(path) : i + r < k => path[k].role \in Remarks
  BY DEF Opened, Answered
<1>. DEFINE m == ResultsAfter(path, i)
<1>2. /\ m \in 0..(Len(path) - i)
      /\ \A k \in 1..m : path[i + k].role = "result"
      /\ i + m < Len(path) => path[i + m + 1].role # "result"
  <2>1. i \in 1..Len(path)
    BY <1>1
  <2>. QED
    BY <2>1, ResultsAfterIs
<1>. HIDE DEF m
<1>3. m \in Nat /\ i \in Nat /\ Len(path) \in Nat /\ i + m <= Len(path)
  <2>1. Len(path) \in Nat
    OBVIOUS
  <2>2. i \in 1..Len(path) /\ m \in 0..(Len(path) - i)
    BY <1>1, <1>2
  <2>. QED
    BY <2>1, <2>2
<1>4. ~(m < r)
  <2>1. SUFFICES ASSUME m < r PROVE FALSE
    OBVIOUS
  <2>2. m + 1 \in 1..r /\ i + (m + 1) = i + m + 1
    BY <1>1, <1>3, <2>1
  <2>3. path[i + m + 1].role = "result"
    BY <1>1, <2>2
  <2>. QED
    BY <1>1, <1>2, <1>3, <2>1, <2>3
<1>5. ~(r < m)
  <2>1. SUFFICES ASSUME r < m PROVE FALSE
    OBVIOUS
  <2>2. m \in 1..m /\ i + m \in 1..Len(path) /\ i + r < i + m
    BY <1>1, <1>3, <2>1
  <2>3. path[i + m].role = "result" /\ path[i + m].role \in Remarks
    BY <1>1, <1>2, <2>2
  <2>. QED
    BY <2>3 DEF Remarks
<1>6. m = r
  BY <1>1, <1>3, <1>4, <1>5
<1>7. AnsweredAt(path, i) = {path[i + k].n : k \in 1..r}
  BY <1>6 DEF AnsweredAt, m
<1>8. \A k \in 1..path[i].n : k \in AnsweredAt(path, i) <=> k <= r
  <2>1. ASSUME NEW k \in 1..path[i].n, k <= r PROVE k \in AnsweredAt(path, i)
    <3>1. k \in 1..r /\ path[i + k].n = k
      BY <1>1, <2>1
    <3>. QED
      BY <1>7, <3>1
  <2>2. ASSUME NEW k \in 1..path[i].n, k \in AnsweredAt(path, i) PROVE k <= r
    <3>1. PICK q \in 1..r : k = path[i + q].n
      BY <1>7, <2>2
    <3>2. k = q
      BY <1>1, <3>1
    <3>. QED
      BY <1>1, <3>2
  <2>. QED
    BY <2>1, <2>2
<1>9. r \in 0..path[i].n /\ path[i].n - r = d
  BY <1>1
<1>10. /\ Unanswered(path, i) \in Seq(Nat) /\ Len(Unanswered(path, i)) = path[i].n - r
       /\ \A x \in 1..(path[i].n - r) : Unanswered(path, i)[x] = r + x
  BY <1>1, <1>8, <1>9, UnansweredIs
<1>. QED
  BY <1>6, <1>9, <1>10 DEF m

\* A log on whose path nothing is due is left as it is,
LEMMA RepairNothing ==
  ASSUME NEW j, JournalOK(j), Tidy(j.entries), Due(j.entries, LeafId(j.entries)) = 0
  PROVE  Repair(j) = j
<1>. DEFINE path == Path(j.entries)
            broken == {i \in 1..Len(path) : Unanswered(path, i) # <<>>}
<1>1. j.entries \in Seq(Entries) /\ GrowsOn(j.entries, {0})
  BY JournalParts, Zenon
<1>2. path \in Seq(Entries)
  BY <1>1, PathMembers DEF Path
<1>3. Neat(j.entries, path, 0)
  <2>1. LeafId(j.entries) \in {0} \cup IdsOf(j.entries)
    BY <1>1, LeafIdIs
  <2>. QED
    BY <1>1, <2>1, PathsAreNeat DEF Path
<1>. HIDE DEF path
<1>4. ASSUME NEW i \in 1..Len(path) PROVE Unanswered(path, i) = <<>>
  <2>1. Completed(path, i)
    BY <1>3 DEF Neat, Opened
  <2>. QED
    BY <1>2, <2>1, CompletedLacksNone
<1>5. broken = {}
  BY <1>4
<1>. QED
  BY <1>5, Zenon DEF Repair, path

\* ... and the repair of another one gives the open message what is due.
LEMMA RepairCloses ==
  ASSUME NEW j, JournalOK(j), Tidy(j.entries), Due(j.entries, LeafId(j.entries)) # 0
  PROVE  /\ Tidy(Repair(j).entries)
         /\ Due(Repair(j).entries, LeafId(Repair(j).entries)) = 0
<1>. DEFINE es == j.entries
            path == Path(es)
            d == Due(es, LeafId(es))
            broken == {i \in 1..Len(path) : Unanswered(path, i) # <<>>}
            i == CHOOSE i \in broken : \A k \in broken : i <= k
            calls == Unanswered(path, i)
            results == [k \in 1..Len(calls) |-> [role |-> "result", n |-> calls[k]]]
            hook == path[i + ResultsAfter(path, i)].id
            c == Chain(results, hook, j.nextId)
            z == j.nextId + Len(calls)
<1>0. /\ j \in Journals
      /\ es \in Seq(Entries) /\ j.nextId \in Nat /\ j.nextId \in Nat \ {0}
      /\ GrowsOn(es, {0}) /\ IdsOf(es) \subseteq Nat
  BY JournalParts, Zenon
<1>1. path \in Seq(Entries) /\ \A k \in 1..Len(path) : path[k].id \in IdsOf(es)
  BY <1>0, PathMembers DEF Path
<1>2. Repair(j) = IF broken = {} THEN j
                  ELSE [j EXCEPT !.entries = @ \o c, !.nextId = @ + Len(calls)]
  BY Zenon DEF Repair
<1>3. Neat(es, path, d) /\ d \in Nat /\ d # 0
  <2>1. LeafId(es) \in {0} \cup IdsOf(es)
    BY <1>0, LeafIdIs
  <2>2. Neat(es, path, d)
    BY <1>0, <2>1, PathsAreNeat DEF Path
  <2>. QED
    BY <1>0, <2>2, DueIs
<1>4. path \in Seq(Members(es))
  BY <1>0, Paths, Zenon DEF Path
<1>. HIDE DEF path, d
<1>5. broken # {}
  <2>1. PICK k, r : Opened(es, path, k, r, d)
    BY <1>3 DEF Neat
  <2>2. k \in 1..Len(path)
    BY <2>1 DEF Opened
  <2>3. Len(Unanswered(path, k)) = d
    BY <1>1, <1>3, <2>1, OpenedLacks
  <2>4. Unanswered(path, k) # <<>>
    BY <1>3, <2>3
  <2>. QED
    BY <2>2, <2>4
<1>6. i \in 1..Len(path) /\ Unanswered(path, i) # <<>>
  <2>1. broken \subseteq Nat
    OBVIOUS
  <2>2. \E k \in broken : \A m \in broken : k <= m
    <3>. HIDE DEF broken
    <3>. QED
      BY <1>5, <2>1, LeastExists
  <2>3. i \in broken
    <3>. HIDE DEF broken
    <3>. QED
      BY <2>2
  <2>. QED
    BY <2>3, Zenon
<1>. HIDE DEF i, broken
<1>7. PICK r : Opened(es, path, i, r, d)
  <2>1. ~Completed(path, i)
    BY <1>1, <1>6, CompletedLacksNone
  <2>. QED
    BY <1>3, <1>6, <2>1 DEF Neat
<1>8. /\ ResultsAfter(path, i) = r
      /\ calls \in Seq(Nat) /\ Len(calls) = d
      /\ \A x \in 1..d : calls[x] = r + x
  BY <1>1, <1>3, <1>7, OpenedLacks
<1>9. /\ r \in Nat /\ i + r \in 1..Len(path) /\ i \in 1..Len(path)
      /\ path[i].role = "assistant" /\ Answered(path, i, r)
      /\ Due(es, path[i + r].id) = d
  <2>1. /\ r \in Nat /\ i + r <= Len(path) /\ i \in 1..Len(path)
        /\ path[i].role = "assistant" /\ Answered(path, i, r)
        /\ Due(es, path[i + r].id) = d
    BY <1>7 DEF Opened
  <2>. QED
    BY <2>1
<1>10. hook = path[i + r].id /\ hook \in IdsOf(es)
  BY <1>1, <1>8, <1>9
<1>11. Due(es, hook) = d
  BY <1>9, <1>10
<1>12. Answers(es, hook, r + 1)
  <2>1. path[i + r] \in Members(es)
    BY <1>4, <1>9
  <2>2. PICK q \in 1..Len(es) : es[q] = path[i + r]
    BY <2>1 DEF Members
  <2>3. \/ path[i + r].role = "assistant" /\ r + 1 = 1
        \/ path[i + r].role = "result" /\ r + 1 = path[i + r].n + 1
    <3>1. CASE r = 0
      BY <1>9, <3>1
    <3>2. CASE r # 0
      <4>1. r \in 1..r
        BY <1>9, <3>2
      <4>2. path[i + r].role = "result" /\ path[i + r].n = r
        BY <1>9, <4>1 DEF Answered
      <4>. QED
        BY <4>2
    <3>. QED
      BY <3>1, <3>2
  <2>. DEFINE n == r + 1
  <2>4. \/ es[q].role = "assistant" /\ n = 1
        \/ es[q].role = "result" /\ n = es[q].n + 1
    BY <2>2, <2>3
  <2>5. es[q].id = hook
    BY <1>10, <2>2
  <2>. HIDE DEF n, hook
  <2>6. Answers(es, hook, n)
    BY <2>4, <2>5 DEF Answers
  <2>. QED
    BY <2>6 DEF n
<1>13. results = Results(calls)
  BY Zenon DEF Results, Result
<1>. HIDE DEF calls, hook
<1>. DEFINE b == Rebase(j, hook)
            k == Stage(b, results)
<1>14. /\ JournalOK(b) /\ b.entries = es /\ b.staged = <<>> /\ b.leaf = hook
       /\ b.nextId = j.nextId /\ All(b) = es
  BY <1>10, RebaseIs
<1>. HIDE DEF b
<1>15. Owed(b, d, r + 1)
  BY <1>11, <1>12, <1>14 DEF Owed
<1>16. calls # <<>>
  BY <1>3, <1>8
<1>17. Owed(k, d - Len(calls), r + 1 + Len(calls))
  <2>. DEFINE n == r + 1
  <2>1. n \in Nat /\ \A x \in 1..Len(calls) : calls[x] = n + x - 1
    BY <1>8, <1>9
  <2>2. Len(calls) <= d
    BY <1>3, <1>8
  <2>3. Owed(b, d, n)
    BY <1>15
  <2>4. calls \in Seq(Nat)
    BY <1>8
  <2>. HIDE DEF n, results
  <2>5. Owed(Stage(b, Results(calls)), d - Len(calls), n + Len(calls))
    BY <1>3, <1>14, <1>16, <2>1, <2>2, <2>3, <2>4, ResultsOwe
  <2>. QED
    BY <1>13, <2>5 DEF n
<1>18. results \in Seq(Kept) /\ Len(results) = Len(calls) /\ results # <<>>
  <2>1. Results(calls) \in Seq(Kept) /\ Len(Results(calls)) = Len(calls)
    BY <1>8, ResultsAre
  <2>2. Len(calls) # 0
    BY <1>3, <1>8
  <2>. HIDE DEF results
  <2>. QED
    BY <1>13, <2>1, <2>2
<1>. HIDE DEF results
<1>19. /\ JournalOK(k) /\ All(k) = es \o c /\ k.staged = <<>> \o c
  BY <1>14, <1>18, StagedAll
<1>20. c \in Seq(Entries) /\ c # <<>>
  <2>1. hook \in Nat
    BY <1>0, <1>10
  <2>2. c \in Seq(Entries) /\ Len(c) = Len(results)
    BY <1>0, <1>18, <2>1, ChainIs
  <2>3. Len(results) # 0
    BY <1>18, EmptySeq
  <2>. HIDE DEF c
  <2>. QED
    BY <2>2, <2>3
<1>. HIDE DEF c
<1>21. k.staged # <<>>
  <2>1. <<>> \o c = c
    BY <1>20
  <2>. QED
    BY <1>19, <1>20, <2>1
<1>22. Owed(k, 0, r + 1 + Len(calls))
  BY <1>3, <1>8, <1>17
<1>. HIDE DEF k
<1>23. Settled(Flush(k)) /\ Flush(k).entries = es \o c /\ All(Flush(k)) = es \o c
  <2>1. Settled(Flush(k))
    BY <1>19, <1>21, <1>22, OwedFlush
  <2>2. Flush(k).entries = All(k) /\ All(Flush(k)) = All(k)
    BY <1>19, FlushedAll
  <2>. QED
    BY <1>19, <2>1, <2>2
<1>24. Repair(j).entries = es \o c
  <2>. DEFINE a == es \o c
  <2>1. z \in Nat \ {0}
    BY <1>0, <1>8
  <2>2. a \in Seq(Entries)
    BY <1>0, <1>20
  <2>3. Repair(j) = [j EXCEPT !.entries = a, !.nextId = z]
    BY <1>2, <1>5
  <2>. HIDE DEF z, a
  <2>4. 0 \in Nat
    OBVIOUS
  <2>5. Has([j EXCEPT !.entries = a, !.nextId = z], a, j.staged, j.leaf, z)
    BY <1>0, <2>1, <2>2, <2>4, UpdatedOtherwise, Zenon
  <2>6. Repair(j).entries = a
    BY <2>3, <2>5, Zenon DEF Has
  <2>. QED
    BY <2>6 DEF a
<1>. QED
  BY <1>23, <1>24 DEF Settled

\* After a repair the log is tidy and nothing is due at its leaf.
LEMMA RepairIsTidy ==
  ASSUME NEW j, JournalOK(j), Tidy(j.entries)
  PROVE  /\ Tidy(Repair(j).entries)
         /\ Due(Repair(j).entries, LeafId(Repair(j).entries)) = 0
<1>1. CASE Due(j.entries, LeafId(j.entries)) = 0
  BY <1>1, RepairNothing
<1>2. CASE Due(j.entries, LeafId(j.entries)) # 0
  BY <1>2, RepairCloses
<1>. QED
  BY <1>1, <1>2

-----------------------------------------------------------------------------
(* The context a resume restores *)

\* The messages of no entry, and of one entry more.
LEMMA MessagesOfNothing == MessagesOf(<<>>) = <<>>
<1>1. <<>> \in Seq(Entries) /\ Len(<<>>) = 0
  OBVIOUS
<1>2. PICK f : Readings(f, <<>>, Kept)
  BY <1>1, MessagesSteps
<1>. QED
  BY <1>1, <1>2 DEF Readings

\* ... of one entry more: its message comes last, if it has one.
LEMMA MessagesOfLonger ==
  ASSUME NEW path \in Seq(Entries), NEW e \in Entries, NEW t, LongerBy(path, e, t)
  PROVE  /\ IsMessage(e) => MessagesOf(t) = Append(MessagesOf(path), MessageOf(e))
         /\ ~IsMessage(e) => MessagesOf(t) = MessagesOf(path)
<1>. DEFINE n == Len(path)
<1>1. /\ t \in Seq(Entries) /\ Len(t) = n + 1 /\ t[n + 1] = e /\ n \in Nat
      /\ \A k \in 1..n : t[k] = path[k]
  BY DEF LongerBy
<1>2. PICK f : Readings(f, path, Kept)
  BY MessagesSteps
<1>3. PICK g : Readings(g, t, Kept)
  BY <1>1, MessagesSteps
<1>4. /\ f[0] = <<>> /\ MessagesOf(path) = f[n]
      /\ \A k \in 1..n : f[k] = IF IsMessage(path[k]) THEN Append(f[k - 1], MessageOf(path[k]))
                                ELSE f[k - 1]
  BY <1>2 DEF Readings
<1>5. /\ g[0] = <<>> /\ MessagesOf(t) = g[n + 1]
      /\ \A k \in 1..(n + 1) : g[k] = IF IsMessage(t[k]) THEN Append(g[k - 1], MessageOf(t[k]))
                                      ELSE g[k - 1]
  BY <1>1, <1>3 DEF Readings
<1>. HIDE DEF n
<1>. DEFINE G == {k \in 0..n : g[k] = f[k]}
<1>6. 0 \in G
  BY <1>1, <1>4, <1>5
<1>7. ASSUME NEW k \in 1..n, \A m \in 0..(k - 1) : m \in G PROVE k \in G
  <2>1. k \in 0..n /\ k \in 1..(n + 1) /\ k - 1 \in 0..(k - 1)
    BY <1>1
  <2>2. g[k - 1] = f[k - 1]
    BY <1>7, <2>1
  <2>3. g[k] = f[k]
    BY <1>1, <1>4, <1>5, <2>1, <2>2
  <2>. QED
    BY <2>1, <2>3
<1>8. \A k \in 0..n : k \in G
  <2>. HIDE DEF G
  <2>. QED
    BY <1>1, <1>6, <1>7, UpToInduction, Zenon
<1>9. g[n] = f[n]
  BY <1>1, <1>8
<1>10. g[n + 1] = IF IsMessage(t[n + 1]) THEN Append(g[n], MessageOf(t[n + 1])) ELSE g[n]
  <2>1. n + 1 \in 1..(n + 1) /\ (n + 1) - 1 = n
    BY <1>1
  <2>. QED
    BY <1>5, <2>1
<1>. QED
  BY <1>1, <1>4, <1>5, <1>9, <1>10

\* What a restored agent remembers of a path.
Recalled(path) ==
  LET c == LastOf(path, {"compaction"})
  IN  (IF c = 0 THEN <<>> ELSE <<Checkpoint>>)
      \o MessagesOf(SubSeq(path, c + 1, Len(path)))

\* That is the context of the path to the leaf.
LEMMA RecalledIs ==
  ASSUME NEW es \in Seq(Entries), GrowsOn(es, {0})
  PROVE  /\ ContextMessages(es) = Recalled(Path(es))
         /\ \A path \in Seq(Entries) : Recalled(path) \in Seq(Message)
<1>1. ContextMessages(es) = Recalled(Path(es))
  BY Zenon DEF ContextMessages, Recalled
<1>2. ASSUME NEW path \in Seq(Entries) PROVE Recalled(path) \in Seq(Message)
  <2>. DEFINE c == LastOf(path, {"compaction"})
              tail == SubSeq(path, c + 1, Len(path))
              head == IF c = 0 THEN <<>> ELSE <<Checkpoint>>
  <2>1. c \in 0..Len(path)
    BY LastOfIs
  <2>2. Recalled(path) = head \o MessagesOf(tail)
    BY Zenon DEF Recalled
  <2>. HIDE DEF c
  <2>3. tail \in Seq(Entries)
    BY <2>1
  <2>4. head \in Seq(Message)
    BY KeptMessages
  <2>. HIDE DEF tail, head
  <2>5. MessagesOf(tail) \in Seq(Message)
    BY <2>3, KeptMessages, MessagesOfTyped
  <2>. QED
    BY <2>2, <2>4, <2>5
<1>. QED
  BY <1>1, <1>2

\* It starts with a compaction, grows by a message, and knows nothing of a remark.
LEMMA RecalledLonger ==
  ASSUME NEW path \in Seq(Entries), NEW e \in Entries
  PROVE  /\ e.role = "compaction" => Recalled(Append(path, e)) = <<Checkpoint>>
         /\ e.role \in MessageRoles =>
              Recalled(Append(path, e)) = Append(Recalled(path), MessageOf(e))
         /\ e.role \in Remarks => Recalled(Append(path, e)) = Recalled(path)
<1>. DEFINE t == Append(path, e)
            n == Len(path)
            R == {"compaction"}
            c == LastOf(path, R)
            d == LastOf(t, R)
            tail == SubSeq(path, c + 1, n)
            newer == SubSeq(t, d + 1, Len(t))
            head == IF c = 0 THEN <<>> ELSE <<Checkpoint>>
            start == IF d = 0 THEN <<>> ELSE <<Checkpoint>>
<1>1. /\ t \in Seq(Entries) /\ Len(t) = n + 1 /\ t[n + 1] = e /\ n \in Nat
      /\ \A k \in 1..n : t[k] = path[k]
  OBVIOUS
<1>2. /\ Recalled(path) = head \o MessagesOf(tail)
      /\ Recalled(t) = start \o MessagesOf(newer)
  BY Zenon DEF Recalled
<1>3. c \in 0..n
  BY LastOfIs
<1>4. (e.role = "compaction" => d = n + 1) /\ (e.role # "compaction" => d = c)
  <2>. HIDE DEF R
  <2>1. /\ e.role \in R => LastOf(Append(path, e), R) = Len(path) + 1
        /\ e.role \notin R => LastOf(Append(path, e), R) = LastOf(path, R)
    BY LastOfAppend
  <2>2. e.role \in R <=> e.role = "compaction"
    BY DEF R
  <2>. QED
    BY <2>1, <2>2
<1>. HIDE DEF t, c, d
<1>5. ASSUME e.role = "compaction" PROVE Recalled(t) = <<Checkpoint>>
  <2>1. d = n + 1
    BY <1>4, <1>5
  <2>2. newer = <<>>
    BY <1>1, <2>1
  <2>3. start = <<Checkpoint>>
    BY <1>1, <2>1
  <2>4. MessagesOf(newer) = <<>>
    BY <2>2, MessagesOfNothing
  <2>5. <<Checkpoint>> \o <<>> = <<Checkpoint>>
    OBVIOUS
  <2>6. Recalled(t) = start \o MessagesOf(newer)
    BY <1>2
  <2>. HIDE DEF newer, start
  <2>. QED
    BY <2>3, <2>4, <2>5, <2>6, Zenon
<1>6. ASSUME e.role # "compaction"
      PROVE  /\ head = start /\ LongerBy(tail, e, newer) /\ tail \in Seq(Entries)
  <2>1. d = c
    BY <1>4, <1>6
  <2>2. head = start
    BY <2>1
  <2>3. /\ tail \in Seq(Entries) /\ Len(tail) = n - c
        /\ \A k \in 1..(n - c) : tail[k] = path[c + k]
    BY <1>1, <1>3
  <2>4. /\ newer \in Seq(Entries) /\ Len(newer) = (n + 1) - c
        /\ \A k \in 1..((n + 1) - c) : newer[k] = t[c + k]
    BY <1>1, <1>3, <2>1
  <2>5. newer[(n - c) + 1] = e
    <3>1. /\ (n - c) + 1 \in 1..((n + 1) - c) /\ c + ((n - c) + 1) = n + 1
          /\ t[n + 1] = e
      BY <1>1, <1>3
    <3>. QED
      BY <2>4, <3>1
  <2>6. ASSUME NEW k \in 1..(n - c) PROVE newer[k] = tail[k]
    <3>1. c + k \in 1..n /\ k \in 1..((n + 1) - c)
      BY <1>1, <1>3
    <3>. QED
      BY <1>1, <2>3, <2>4, <3>1
  <2>7. Len(newer) = Len(tail) + 1
    BY <1>1, <1>3, <2>3, <2>4
  <2>. HIDE DEF newer, tail
  <2>. QED
    BY <2>2, <2>3, <2>4, <2>5, <2>6, <2>7 DEF LongerBy
<1>7. head \in Seq(Message)
  BY KeptMessages
<1>. HIDE DEF head, start, newer, tail
<1>8. ASSUME e.role \in MessageRoles
      PROVE  Recalled(t) = Append(Recalled(path), MessageOf(e))
  <2>1. e.role # "compaction" /\ IsMessage(e)
    BY <1>8 DEF MessageRoles, IsMessage
  <2>2. MessagesOf(newer) = Append(MessagesOf(tail), MessageOf(e))
    BY <1>6, <2>1, MessagesOfLonger
  <2>3. MessagesOf(tail) \in Seq(Message)
    BY <1>6, <2>1, KeptMessages, MessagesOfTyped
  <2>4. MessageOf(e) \in Message
    <3>1. MessageOf(e) \in Kept
      BY <1>8 DEF MessageOf, Kept, Entries
    <3>. QED
      BY <3>1, KeptMessages
  <2>5. \A s, u \in Seq(Message) : \A m \in Message : s \o Append(u, m) = Append(s \o u, m)
    OBVIOUS
  <2>. QED
    BY <1>2, <1>6, <1>7, <2>1, <2>2, <2>3, <2>4, <2>5
<1>9. ASSUME e.role \in Remarks PROVE Recalled(t) = Recalled(path)
  <2>1. e.role # "compaction" /\ ~IsMessage(e)
    BY <1>9 DEF MessageRoles, IsMessage, Remarks
  <2>2. MessagesOf(newer) = MessagesOf(tail)
    BY <1>6, <2>1, MessagesOfLonger
  <2>. QED
    BY <1>2, <1>6, <2>1, <2>2
<1>. QED
  BY <1>5, <1>8, <1>9 DEF t

\* What is appended to the second part is appended to the whole.
LEMMA ConcatAppend ==
  \A s, u \in Seq(Message) : \A m \in Message : s \o Append(u, m) = Append(s \o u, m)
OBVIOUS

\* The length and the last message of two conversations together.
LEMMA ConcatEnds ==
  ASSUME NEW a \in Seq(Message), NEW x \in Seq(Message)
  PROVE  /\ Len(a \o x) = Len(a) + Len(x)
         /\ Len(x) = 0 => (a \o x)[Len(a \o x)] = a[Len(a)] \/ Len(a) = 0
         /\ Len(x) # 0 => (a \o x)[Len(a \o x)] = x[Len(x)]
<1>1. /\ Len(a \o x) = Len(a) + Len(x) /\ Len(a) \in Nat /\ Len(x) \in Nat
      /\ \A k \in 1..Len(a) : (a \o x)[k] = a[k]
      /\ \A k \in 1..Len(x) : (a \o x)[Len(a) + k] = x[k]
  OBVIOUS
<1>2. CASE Len(x) = 0
  <2>1. Len(a \o x) = Len(a)
    BY <1>1, <1>2
  <2>2. Len(a) # 0 => Len(a) \in 1..Len(a)
    BY <1>1
  <2>. QED
    BY <1>1, <1>2, <2>1, <2>2
<1>3. CASE Len(x) # 0
  <2>1. Len(x) \in 1..Len(x)
    BY <1>1, <1>3
  <2>. QED
    BY <1>1, <1>3, <2>1
<1>. QED
  BY <1>2, <1>3

\* p, then a message that calls r + d tools and the results of the first r of them.
Open(conv, d, p, r, e) ==
  /\ p \in Seq(Message) /\ Paired(p)
  /\ r \in Nat /\ e \in Seq(Nat) /\ Len(e) = r /\ \A k \in 1..r : e[k] = k
  /\ conv = Append(p, Assistant(r + d)) \o Results(e)

\* A conversation paired but for the d results its last assistant message waits for.
PairedBut(conv, d) ==
  /\ d = 0 => Paired(conv)
  /\ d # 0 => \E p, r, e : Open(conv, d, p, r, e)

\* An assistant message opens as many calls as it has,
LEMMA PairedButAssistant ==
  ASSUME NEW conv \in Seq(Message), Paired(conv), NEW n \in Nat
  PROVE  PairedBut(Append(conv, Assistant(n)), n)
<1>1. /\ Results(<<>>) = <<>> /\ <<>> \in Seq(Nat) /\ Len(<<>>) = 0 /\ 0 \in Nat
      /\ 0 + n = n /\ 1..0 = {}
  BY DEF Results
<1>2. Append(conv, Assistant(n)) = Append(conv, Assistant(n)) \o Results(<<>>)
  <2>1. Assistant(n) \in Message
    BY KeptMessages
  <2>2. Append(conv, Assistant(n)) \in Seq(Message)
    BY <2>1
  <2>. QED
    BY <1>1, <2>2
<1>3. Open(Append(conv, Assistant(n)), n, conv, 0, <<>>)
  BY <1>1, <1>2 DEF Open
<1>4. n = 0 => Paired(Append(conv, Assistant(n)))
  <2>1. n = 0 => Paired(Append(conv, Assistant(n)) \o Results(<<>>))
    BY <1>1, PairedThenBatch
  <2>. QED
    BY <1>2, <2>1
<1>. QED
  BY <1>3, <1>4 DEF PairedBut

\* The messages an open conversation ends with.
LEMMA OpenIs ==
  ASSUME NEW conv, NEW d \in Nat, NEW p, NEW r, NEW e, Open(conv, d, p, r, e)
  PROVE  /\ Len(conv) # 0
         /\ r = 0 => conv[Len(conv)] = Assistant(d)
         /\ r # 0 => conv[Len(conv)] = Result(r)
<1>1. /\ p \in Seq(Message) /\ r \in Nat /\ e \in Seq(Nat) /\ Len(e) = r
      /\ \A k \in 1..r : e[k] = k
      /\ conv = Append(p, Assistant(r + d)) \o Results(e)
  BY DEF Open
<1>. DEFINE a == Append(p, Assistant(r + d))
            x == Results(e)
<1>2. Assistant(r + d) \in Message
  BY <1>1, KeptMessages
<1>3. /\ a \in Seq(Message) /\ Len(a) = Len(p) + 1 /\ Len(p) \in Nat
      /\ a[Len(a)] = Assistant(r + d)
  BY <1>1, <1>2
<1>4. /\ x \in Seq(Message) /\ Len(x) = r /\ \A k \in 1..r : x[k] = Result(k)
  <2>1. x \in Seq(Message)
    <3>1. x \in Seq(Kept)
      BY <1>1, KeptMessages
    <3>. QED
      BY <3>1, KeptMessages
  <2>2. Len(x) = r /\ \A k \in 1..r : x[k] = Result(e[k])
    BY <1>1 DEF Results
  <2>. QED
    BY <1>1, <2>1, <2>2
<1>5. conv = a \o x
  BY <1>1
<1>. HIDE DEF a, x
<1>6. /\ Len(conv) = Len(a) + r
      /\ r = 0 => conv[Len(conv)] = a[Len(a)] \/ Len(a) = 0
      /\ r # 0 => conv[Len(conv)] = x[r]
  BY <1>3, <1>4, <1>5, ConcatEnds
<1>7. Len(conv) # 0 /\ (r # 0 => r \in 1..r) /\ (r = 0 => r + d = d) /\ Len(a) # 0
  BY <1>1, <1>3, <1>6
<1>8. r = 0 => conv[Len(conv)] = Assistant(d)
  <2>1. r = 0 => Assistant(r + d) = Assistant(d)
    BY <1>7
  <2>. QED
    BY <1>3, <1>6, <1>7, <2>1
<1>9. r # 0 => conv[Len(conv)] = Result(r)
  BY <1>4, <1>6, <1>7
<1>. QED
  BY <1>7, <1>8, <1>9

\* ... whose results come one by one:
LEMMA ResultsAppend ==
  ASSUME NEW e \in Seq(Nat), NEW n \in Nat
  PROVE  Results(Append(e, n)) = Append(Results(e), Result(n))
<1>. DEFINE f == Append(e, n)
            l == Len(e)
            r == Results(e)
            x == Result(n)
<1>1. /\ f \in Seq(Nat) /\ Len(f) = l + 1 /\ l \in Nat /\ f[l + 1] = n
      /\ \A k \in 1..l : f[k] = e[k]
  OBVIOUS
<1>2. /\ r \in Seq(Kept) /\ Len(r) = l /\ \A k \in 1..l : r[k] = Result(e[k])
  <2>1. r \in Seq(Kept) /\ Len(r) = l
    BY ResultsAre
  <2>2. \A k \in 1..l : r[k] = Result(e[k])
    BY Zenon DEF Results
  <2>. QED
    BY <2>1, <2>2
<1>3. x \in Kept
  BY DEF Result, Kept, MessageRoles
<1>4. /\ Results(f) \in Seq(Kept) /\ Len(Results(f)) = Len(f)
      /\ \A k \in 1..Len(f) : Results(f)[k] = Result(f[k])
  <2>1. f \in Seq(Nat)
    BY <1>1
  <2>. HIDE DEF f
  <2>2. Results(f) \in Seq(Kept) /\ Len(Results(f)) = Len(f)
    BY <2>1, ResultsAre
  <2>3. \A k \in 1..Len(f) : Results(f)[k] = Result(f[k])
    BY Zenon DEF Results
  <2>. QED
    BY <2>2, <2>3
<1>. DEFINE s == Append(r, x)
            t == Results(f)
<1>. HIDE DEF f, l, r, x
<1>5. /\ s \in Seq(Kept) /\ Len(s) = Len(r) + 1 /\ s[Len(r) + 1] = x
      /\ \A k \in 1..Len(r) : s[k] = r[k]
  BY <1>2, <1>3, AppendProperties
<1>. HIDE DEF s, t
<1>6. ASSUME NEW k \in 1..Len(t) PROVE t[k] = s[k]
  <2>1. Len(t) = l + 1 /\ t[k] = Result(f[k]) /\ k \in 1..(l + 1)
    BY <1>1, <1>4 DEF t
  <2>2. CASE k \in 1..l
    BY <1>1, <1>2, <1>5, <2>1, <2>2
  <2>3. CASE k = l + 1
    BY <1>1, <1>2, <1>5, <2>1, <2>3 DEF x
  <2>. QED
    BY <1>1, <2>1, <2>2, <2>3
<1>7. t = s
  <2>1. t \in Seq(Kept) /\ s \in Seq(Kept) /\ Len(t) = Len(s)
    BY <1>1, <1>2, <1>4, <1>5 DEF t
  <2>. QED
    BY <1>6, <2>1, SeqEqual
<1>. QED
  BY <1>7 DEF f, r, x, s, t

\* ... the next result closes one of them,
LEMMA PairedButResult ==
  ASSUME NEW conv \in Seq(Message), NEW d \in Nat, d # 0, PairedBut(conv, d),
         NEW n \in Nat,
         \/ conv[Len(conv)].role = "assistant" /\ n = 1
         \/ conv[Len(conv)].role = "result" /\ n = conv[Len(conv)].n + 1
  PROVE  PairedBut(Append(conv, Result(n)), d - 1)
<1>1. PICK p, r, e : Open(conv, d, p, r, e)
  BY DEF PairedBut
<1>2. /\ p \in Seq(Message) /\ Paired(p) /\ r \in Nat /\ e \in Seq(Nat) /\ Len(e) = r
      /\ \A k \in 1..r : e[k] = k
      /\ conv = Append(p, Assistant(r + d)) \o Results(e)
  BY <1>1 DEF Open
<1>3. n = r + 1
  <2>1. /\ r = 0 => conv[Len(conv)] = Assistant(d)
        /\ r # 0 => conv[Len(conv)] = Result(r)
    BY <1>1, OpenIs
  <2>2. /\ Assistant(d).role = "assistant" /\ Result(r).role = "result"
        /\ Result(r).n = r
    BY DEF Assistant, Result
  <2>3. CASE r = 0
    <3>1. conv[Len(conv)].role = "assistant"
      BY <2>1, <2>2, <2>3
    <3>2. n = 1
      BY <3>1
    <3>. QED
      BY <2>3, <3>2
  <2>4. CASE r # 0
    <3>1. conv[Len(conv)].role = "result" /\ conv[Len(conv)].n = r
      BY <2>1, <2>2, <2>4
    <3>. QED
      BY <3>1
  <2>. QED
    BY <2>3, <2>4
<1>. DEFINE f == Append(e, n)
            s == r + 1
            c == d - 1
<1>4. /\ s \in Nat /\ c \in Nat /\ f \in Seq(Nat) /\ Len(f) = s /\ r + d = s + c
      /\ \A k \in 1..s : f[k] = k
  BY <1>2, <1>3
<1>5. Append(conv, Result(n)) = Append(p, Assistant(s + c)) \o Results(f)
  <2>1. Assistant(r + d) \in Message
    BY <1>2, KeptMessages
  <2>2. Append(p, Assistant(r + d)) \in Seq(Message)
    BY <1>2, <2>1
  <2>3. Results(e) \in Seq(Message)
    <3>1. Results(e) \in Seq(Kept)
      BY <1>2, KeptMessages
    <3>. QED
      BY <3>1, KeptMessages
  <2>4. Results(f) = Append(Results(e), Result(n))
    BY <1>2, ResultsAppend
  <2>5. Result(n) \in Message
    BY DEF Result, Message, Roles
  <2>. HIDE DEF f, s, c
  <2>7. Append(p, Assistant(s + c)) = Append(p, Assistant(r + d))
    BY <1>4
  <2>. QED
    <3>. DEFINE a == Append(p, Assistant(r + d))
                x == Results(e)
                m == Result(n)
    <3>1. conv = a \o x /\ a \in Seq(Message) /\ x \in Seq(Message) /\ m \in Message
      BY <1>2, <2>2, <2>3, <2>5
    <3>2. Append(p, Assistant(s + c)) = a /\ Results(f) = Append(x, m)
      BY <2>4, <2>7
    <3>. HIDE DEF a, x
    <3>3. a \o Append(x, m) = Append(a \o x, m)
      <4>. HIDE DEF m
      <4>. QED
        BY <3>1, ConcatAppend
    <3>. QED
      BY <3>1, <3>2, <3>3
<1>. HIDE DEF f, s, c
<1>6. Open(Append(conv, Result(n)), c, p, s, f)
  BY <1>2, <1>4, <1>5 DEF Open
<1>7. c = 0 => Paired(Append(conv, Result(n)))
  <2>1. c = 0 => s + c = s
    BY <1>4
  <2>2. Paired(Append(p, Assistant(s)) \o Results(f))
    BY <1>2, <1>4, PairedThenBatch
  <2>. QED
    BY <1>5, <2>1, <2>2
<1>8. PairedBut(Append(conv, Result(n)), c)
  BY <1>6, <1>7 DEF PairedBut
<1>. QED
  BY <1>8 DEF c

\* ... and other messages come where none is open.
LEMMA PairedButPlain ==
  ASSUME NEW conv \in Seq(Message), Paired(conv), NEW m \in Message,
         m.role \in {"prompt", "steer", "note", "summary"}
  PROVE  Paired(Append(conv, m)) /\ Paired(<<m>>)
<1>1. <<m>> \in Seq(Message) /\ Plain(<<m>>)
  BY DEF Plain
<1>2. Append(conv, m) = conv \o <<m>>
  OBVIOUS
<1>. QED
  BY <1>1, <1>2, PairedThenPlain, PlainPaired

\* What a path of a tidy log gives is paired, but for the results that are due.
LEMMA PathsArePaired ==
  ASSUME NEW es \in Seq(Entries), GrowsOn(es, {0}), Tidy(es)
  PROVE  \A id \in {0} \cup IdsOf(es) : PairedBut(Recalled(PathFrom(es, id)), Due(es, id))
<1>. DEFINE G == {id \in {0} \cup IdsOf(es) :
                    PairedBut(Recalled(PathFrom(es, id)), Due(es, id))}
<1>1. 0 \in G
  <2>1. PathFrom(es, 0) = <<>> /\ Due(es, 0) = 0
    BY Paths, DueIs
  <2>2. Recalled(<<>>) = <<>>
    <3>1. LastOf(<<>>, {"compaction"}) = 0
      BY LastOfNothing
    <3>2. SubSeq(<<>>, 0 + 1, Len(<<>>)) = <<>>
      OBVIOUS
    <3>3. <<>> \o <<>> = <<>>
      OBVIOUS
    <3>. QED
      BY <3>1, <3>2, <3>3, MessagesOfNothing DEF Recalled
  <2>3. PairedBut(<<>>, 0)
    BY EmptyPaired DEF PairedBut
  <2>. QED
    BY <2>1, <2>2, <2>3
<1>2. ASSUME NEW p \in 1..Len(es), es[p].parent \in G PROVE es[p].id \in G
  <2>. DEFINE e == es[p]
              s == PathFrom(es, e.parent)
              t == PathFrom(es, e.id)
              d == Due(es, e.parent)
              conv == Recalled(s)
  <2>1. e \in Entries /\ e.id \in IdsOf(es) /\ e.role \in EntryRoles /\ e.n \in Nat
    BY EntryFields
  <2>2. t = Append(s, e)
    BY Paths
  <2>3. s \in Seq(Entries)
    BY PathMembers
  <2>4. d \in Nat
    BY DueIs
  <2>5. PairedBut(conv, d)
    BY <1>2
  <2>6. Fits(es, e)
    BY DEF Tidy
  <2>7. /\ e.role = "assistant" => Due(es, e.id) = e.n
        /\ e.role = "result" /\ d # 0 => Due(es, e.id) = d - 1
        /\ e.role \notin {"assistant", "result"} => Due(es, e.id) = d
    BY DueIs
  <2>8. conv \in Seq(Message)
    BY <2>3, RecalledIs
  <2>9. e.role = "result" =>
          /\ d # 0
          /\ \/ conv[Len(conv)].role = "assistant" /\ e.n = 1
             \/ conv[Len(conv)].role = "result" /\ e.n = conv[Len(conv)].n + 1
    <3>. SUFFICES ASSUME e.role = "result"
                  PROVE  /\ d # 0
                         /\ \/ conv[Len(conv)].role = "assistant" /\ e.n = 1
                            \/ conv[Len(conv)].role = "result" /\ e.n = conv[Len(conv)].n + 1
      OBVIOUS
    <3>1. d # 0 /\ Answers(es, e.parent, e.n)
      BY <2>6 DEF Fits
    <3>2. PICK q \in 1..Len(es) :
            /\ es[q].id = e.parent
            /\ \/ es[q].role = "assistant" /\ e.n = 1
               \/ es[q].role = "result" /\ e.n = es[q].n + 1
      BY <3>1 DEF Answers
    <3>. DEFINE u == PathFrom(es, es[q].parent)
                f == es[q]
                was == Recalled(u)
    <3>3. s = Append(u, f)
      BY <3>2, Paths
    <3>4. u \in Seq(Entries)
      BY PathMembers
    <3>5. f \in Entries
      OBVIOUS
    <3>6. was \in Seq(Message)
      BY <3>4, RecalledIs
    <3>7. f.role \in MessageRoles
      BY <3>2 DEF MessageRoles
    <3>. HIDE DEF u, f
    <3>8. Recalled(s) = Append(was, MessageOf(f))
      BY <3>3, <3>4, <3>5, <3>7, RecalledLonger
    <3>9. MessageOf(f).role = f.role /\ MessageOf(f).n = f.n
      BY DEF MessageOf
    <3>10. conv[Len(conv)] = MessageOf(f)
      <4>1. conv = Append(was, MessageOf(f))
        BY <3>8
      <4>. HIDE DEF conv, was
      <4>. QED
        BY <3>6, <4>1
    <3>. HIDE DEF conv
    <3>. QED
      BY <3>1, <3>2, <3>9, <3>10 DEF f
  <2>10. Recalled(Append(s, e)) = Recalled(t)
    BY <2>2
  <2>. HIDE DEF e, s, t, d
  <2>11. /\ e.role = "compaction" => Recalled(t) = <<Checkpoint>>
         /\ e.role \in MessageRoles => Recalled(t) = Append(conv, MessageOf(e))
         /\ e.role \in Remarks => Recalled(t) = conv
    BY <2>1, <2>3, <2>10, RecalledLonger
  <2>. HIDE DEF conv
  <2>12. PairedBut(Recalled(t), Due(es, e.id))
    <3>1. CASE e.role = "assistant"
      <4>1. d = 0
        BY <2>6, <3>1 DEF Fits, Openings, d
      <4>2. Due(es, e.id) = e.n
        BY <2>7, <3>1
      <4>3. MessageOf(e) = Assistant(e.n)
        BY <3>1 DEF MessageOf, Assistant
      <4>4. Paired(conv)
        BY <2>5, <4>1 DEF PairedBut
      <4>5. Recalled(t) = Append(conv, Assistant(e.n))
        BY <2>11, <3>1, <4>3 DEF MessageRoles
      <4>. QED
        BY <2>1, <2>8, <4>2, <4>4, <4>5, PairedButAssistant
    <3>2. CASE e.role = "result"
      <4>1. Due(es, e.id) = d - 1 /\ d # 0
        BY <2>7, <2>9, <3>2
      <4>2. MessageOf(e) = Result(e.n)
        BY <3>2 DEF MessageOf, Result
      <4>3. Recalled(t) = Append(conv, Result(e.n))
        BY <2>11, <3>2, <4>2 DEF MessageRoles
      <4>4. PairedBut(Append(conv, Result(e.n)), d - 1)
        BY <2>1, <2>4, <2>5, <2>8, <2>9, <3>2, PairedButResult
      <4>. QED
        BY <4>1, <4>3, <4>4
    <3>3. CASE e.role \in Remarks
      <4>1. Due(es, e.id) = d /\ Recalled(t) = conv
        BY <2>7, <2>11, <3>3 DEF Remarks
      <4>. QED
        BY <2>5, <4>1
    <3>4. CASE e.role \in {"prompt", "steer", "note", "compaction"}
      <4>1. d = 0 /\ Due(es, e.id) = d
        BY <2>6, <2>7, <3>4 DEF Fits, Openings, d
      <4>2. Paired(conv)
        BY <2>5, <4>1 DEF PairedBut
      <4>3. Paired(Recalled(t))
        <5>1. CASE e.role = "compaction"
          <6>1. Checkpoint.role = "summary"
            BY DEF Checkpoint
          <6>2. Paired(<<Checkpoint>>)
            BY <2>8, <4>2, <6>1, KeptMessages, PairedButPlain
          <6>. QED
            BY <2>11, <5>1, <6>2
        <5>2. CASE e.role # "compaction"
          <6>1. /\ MessageOf(e).role = e.role /\ MessageOf(e) \in Kept
            BY <2>1, <3>4, <5>2 DEF MessageOf, Kept, MessageRoles
          <6>2. MessageOf(e) \in Message
            BY <6>1, KeptMessages
          <6>3. Paired(Append(conv, MessageOf(e)))
            BY <2>8, <3>4, <4>2, <5>2, <6>1, <6>2, PairedButPlain
          <6>. QED
            BY <2>11, <3>4, <5>2, <6>3 DEF MessageRoles
        <5>. QED
          BY <5>1, <5>2
      <4>. QED
        BY <4>1, <4>3 DEF PairedBut
    <3>. QED
      BY <2>1, <3>1, <3>2, <3>3, <3>4 DEF EntryRoles, MessageRoles, Remarks
  <2>. QED
    BY <2>1, <2>12 DEF e, t
<1>3. {0} \cup IdsOf(es) \subseteq G
  <2>. HIDE DEF G
  <2>. QED
    BY <1>1, <1>2, TreeInduction
<1>. QED
  BY <1>3

\* So is what a resume restores when none is due.
LEMMA ContextPaired ==
  ASSUME NEW es \in Seq(Entries), GrowsOn(es, {0}), Tidy(es), Due(es, LeafId(es)) = 0
  PROVE  Paired(ContextMessages(es))
<1>1. LeafId(es) \in {0} \cup IdsOf(es)
  BY LeafIdIs
<1>2. PairedBut(Recalled(PathFrom(es, LeafId(es))), Due(es, LeafId(es)))
  BY <1>1, PathsArePaired
<1>3. ContextMessages(es) = Recalled(PathFrom(es, LeafId(es)))
  BY RecalledIs DEF Path
<1>. QED
  BY <1>2, <1>3 DEF PairedBut

-----------------------------------------------------------------------------
(* What is due while a run, a compaction or nobody has the thread *)

\* Among the committed entries nothing is due.
Quiet(j) == Tidy(j.entries) /\ Due(j.entries, LeafId(j.entries)) = 0

\* The committed entries of a tidy journal are tidy.
LEMMA CommittedTidy ==
  ASSUME NEW j, JournalOK(j), Tidy(All(j)) PROVE Tidy(j.entries)
<1>1. /\ j.entries \in Seq(Entries) /\ j.staged \in Seq(Entries)
      /\ GrowsOn(j.entries, {0})
  BY JournalParts, Zenon
<1>2. All(j) \in Seq(Entries) /\ GrowsOn(All(j), {0})
  BY AllIs
<1>3. Begins(j.entries, All(j))
  BY <1>1, ConcatBegins DEF All
<1>. QED
  BY <1>1, <1>2, <1>3, TidyPrefix

\* Nothing is due among the committed entries of a settled journal.
LEMMA SettledIsQuiet ==
  ASSUME NEW j, JournalOK(j), Settled(j) PROVE Quiet(j)
BY CommittedTidy DEF Settled, Quiet

\* A remark or a checkpoint that is appended is all the same to what is staged.
LEMMA QuietAppend ==
  ASSUME NEW j, JournalOK(j), Quiet(j), NEW role \in EntryRoles, NEW n \in Nat,
         role \in Remarks \cup {"compaction"}
  PROVE  Quiet(AppendCommitted(j, role, n))
<1>. DEFINE leaf == LeafId(j.entries)
            i == Rebase(j, leaf)
            k == AppendCommitted(j, role, n)
            l == AppendCommitted(i, role, n)
<1>1. j.entries \in Seq(Entries)
  BY JournalParts, Zenon
<1>2. leaf \in {0} \cup IdsOf(j.entries)
  BY <1>1, LeafIdIs
<1>3. /\ JournalOK(i) /\ i.entries = j.entries /\ i.staged = <<>> /\ i.leaf = leaf
      /\ i.nextId = j.nextId /\ All(i) = j.entries
  BY <1>2, RebaseIs
<1>. HIDE DEF i
<1>4. Settled(i)
  <2>1. Tidy(All(i)) /\ Due(All(i), i.leaf) = 0 /\ Due(i.entries, LeafId(i.entries)) = 0
    BY <1>3 DEF Quiet
  <2>2. \A p \in 1..Len(i.staged) : Closed(i.staged[p])
    BY <1>3
  <2>. QED
    BY <2>1, <2>2 DEF Settled
<1>5. Quiet(l)
  <2>1. Settled(l)
    BY <1>3, <1>4, SettledAppend
  <2>2. JournalOK(l)
    BY <1>3, AppendKeeps
  <2>. QED
    BY <2>1, <2>2, SettledIsQuiet
<1>6. k.entries = l.entries
  <2>1. k.entries = j.entries \o
          <<[id |-> j.nextId, parent |-> LeafId(j.entries), role |-> role, n |-> n]>>
    BY AppendedAll
  <2>2. l.entries = i.entries \o
          <<[id |-> i.nextId, parent |-> LeafId(i.entries), role |-> role, n |-> n]>>
    BY <1>3, AppendedAll
  <2>. QED
    BY <1>3, <2>1, <2>2
<1>. QED
  BY <1>5, <1>6 DEF Quiet

\* What a batch records grows, or it is over.
LEMMA SettleGrows ==
  ASSUME NEW b \in Batches, NEW k \in 1..b.calls, NEW endTurn \in BOOLEAN,
         NEW aborted \in BOOLEAN, BatchInv(b), InFlight(b, k)
  PROVE  LET s == Settle(b, k, endTurn, aborted)
         IN  /\ BatchInv(s) /\ s.calls = b.calls
             /\ Len(b.executions) <= Len(s.executions)
<1>. DEFINE s == Settle(b, k, endTurn, aborted)
            c == [b EXCEPT !.settled = @ \cup {k},
                           !.ended = IF endTurn THEN @ \cup {k} ELSE @]
            d == [c EXCEPT !.executions = Append(@, k),
                           !.state = StateAfter(k = b.calls)]
            e == [c EXCEPT !.executions = <<1>>, !.ended = @ \cap {1}]
            f == [c EXCEPT !.executions = [j \in 1..b.calls |-> j],
                           !.state = "over"]
<1>1. /\ BatchInv(s) /\ s.calls = b.calls
  BY SettleInv
<1>2. b.calls \in Nat /\ b.executions \in Seq(Nat) /\ k \in Nat
  BY DEF Batches
<1>3. c.executions = b.executions /\ c \in Batches
  <2>1. /\ b.settled \cup {k} \in SUBSET Nat
        /\ (IF endTurn THEN b.ended \cup {k} ELSE b.ended) \in SUBSET Nat
    BY <1>2 DEF Batches
  <2>. QED
    BY <2>1, Zenon DEF Batches
<1>. HIDE DEF c
<1>4. s \in {c, d, f, FillAborted(d), FillAborted(e)}
  BY Zenon DEF Settle, c
<1>5. \A x : x \in Batches => FillAborted(x).state = "over"
  BY Zenon DEF FillAborted, Batches
<1>6. d \in Batches /\ e \in Batches
  <2>1. Append(c.executions, k) \in Seq(Nat)
    BY <1>2, <1>3
  <2>2. StateAfter(k = b.calls) \in States
    <3>1. (k = b.calls) \in BOOLEAN
      BY Zenon
    <3>. QED
      BY <3>1, StateAfterTyped, Zenon
  <2>3. <<1>> \in Seq(Nat) /\ c.ended \cap {1} \in SUBSET Nat
    BY <1>3 DEF Batches
  <2>. QED
    BY <1>3, <2>1, <2>2, <2>3, Zenon DEF Batches
<1>7. f.state = "over" /\ d.executions = Append(b.executions, k)
  BY <1>3, Zenon DEF Batches
<1>. HIDE DEF d, e, f, s
<1>8. s.state = "over" => Len(b.executions) <= Len(s.executions)
  BY <1>1 DEF BatchInv, InCallOrder
<1>9. s = c \/ s = d => Len(b.executions) <= Len(s.executions)
  BY <1>2, <1>3, <1>7
<1>10. Len(b.executions) <= Len(s.executions)
  BY <1>4, <1>5, <1>6, <1>7, <1>8, <1>9
<1>. QED
  BY <1>1, <1>10 DEF s

\* In the middle of a batch the results of its last calls are due, at other times none.
MidBatch(b) == Len(b.executions) # b.calls
InBatch(j, b) ==
  IF MidBatch(b)
  THEN j.staged = <<>> /\ Owed(j, b.calls - Len(b.executions), Len(b.executions) + 1)
  ELSE Settled(j)

\* Messages that are staged are not nothing.
LEMMA StagedNotEmpty ==
  ASSUME NEW j, JournalOK(j), NEW ms \in Seq(Kept), ms # <<>>
  PROVE  Stage(j, ms).staged # <<>>
<1>. DEFINE c == Chain(ms, j.leaf, j.nextId)
            s == j.staged
<1>1. j.leaf \in Nat /\ j.nextId \in Nat \ {0} /\ s \in Seq(Entries)
  BY JournalParts, Zenon
<1>2. c \in Seq(Entries) /\ Len(c) = Len(ms)
  BY <1>1, ChainIs
<1>3. Stage(j, ms).staged = s \o c
  BY StagedAll
<1>4. Len(ms) # 0
  BY EmptySeq
<1>. HIDE DEF c, s
<1>5. Len(s \o c) # 0
  BY <1>1, <1>2, <1>4
<1>. QED
  BY <1>3, <1>5

\* What comes after the first p numbers of a list.
LEMMA TailIs ==
  ASSUME NEW s \in Seq(Nat), NEW p \in Nat, p <= Len(s)
  PROVE  /\ SubSeq(s, p + 1, Len(s)) \in Seq(Nat)
         /\ Len(SubSeq(s, p + 1, Len(s))) = Len(s) - p
         /\ \A i \in 1..(Len(s) - p) :
              p + i \in 1..Len(s) /\ SubSeq(s, p + 1, Len(s))[i] = s[p + i]
<1>. DEFINE u == SubSeq(s, p + 1, Len(s))
<1>1. Len(s) \in Nat /\ \A i \in 1..(Len(s) - p) : p + i \in 1..Len(s)
  OBVIOUS
<1>2. u = [i \in 1..(Len(s) - p) |-> s[p + i]]
  BY <1>1
<1>3. u \in Seq(Nat)
  BY <1>1
<1>4. Len(u) = Len(s) - p
  BY <1>1, <1>2
<1>5. \A i \in 1..(Len(s) - p) : u[i] = s[p + i]
  BY <1>2
<1>. QED
  BY <1>1, <1>3, <1>4, <1>5

\* What the end of an assistant message makes of the journal,
LEMMA BatchBegins ==
  ASSUME NEW j, JournalOK(j), Settled(j), NEW b, BatchInv(b), b.calls \in Nat,
         b.executions \in Seq(Nat)
  PROVE  LET k == Stage(j, <<Assistant(b.calls)>> \o Results(b.executions))
         IN  InBatch(IF b.calls = 0 THEN k ELSE Flush(k), b)
<1>. DEFINE ms == <<Assistant(b.calls)>> \o Results(b.executions)
            k == Stage(j, ms)
            c == b.calls
            e == b.executions
<1>1. ms \in Seq(Kept) /\ ms # <<>>
  <2>1. <<Assistant(c)>> \in Seq(Kept) /\ Results(e) \in Seq(Kept)
    BY KeptMessages
  <2>. QED
    BY <2>1
<1>2. Len(e) <= c /\ \A i \in 1..Len(e) : e[i] = i
  BY DEF BatchInv, InCallOrder
<1>3. JournalOK(k) /\ k.staged # <<>>
  BY <1>1, StageKeeps, StagedNotEmpty
<1>4. Owed(k, c - Len(e), Len(e) + 1)
  BY <1>2, AssistantOwes
<1>5. CASE c = 0
  <2>1. Len(e) = 0
    BY <1>2, <1>5
  <2>2. /\ Len(ms) = 1 /\ ms[1] = Assistant(0)
    <3>1. Results(e) \in Seq(Kept) /\ Len(Results(e)) = 0
      BY <2>1, ResultsAre
    <3>2. <<Assistant(c)>> \in Seq(Kept) /\ <<Assistant(c)>>[1] = Assistant(0)
      BY <1>5, KeptMessages
    <3>. QED
      BY <3>1, <3>2
  <2>3. Closed(Assistant(0))
    BY DEF Closed, Assistant
  <2>4. \A i \in 1..Len(ms) : Closed(ms[i])
    <3>1. \A i \in 1..Len(ms) : i = 1
      BY <2>2
    <3>. QED
      BY <2>2, <2>3, <3>1
  <2>. HIDE DEF ms
  <2>5. Settled(k)
    BY <1>1, <2>4, SettledStage
  <2>. QED
    BY <1>5, <2>1, <2>5 DEF InBatch, MidBatch, ms
<1>6. CASE c # 0
  <2>. HIDE DEF k
  <2>. DEFINE d == c - Len(e)
              n == Len(e) + 1
  <2>1. Owed(k, d, n)
    BY <1>4
  <2>2. (d = 0) <=> (Len(e) = c)
    BY <1>2
  <2>. HIDE DEF d, n
  <2>3. /\ d = 0 => Settled(Flush(k))
        /\ Owed(Flush(k), d, n) /\ Flush(k).staged = <<>>
    BY <1>3, <2>1, OwedFlush
  <2>4. InBatch(Flush(k), b)
    BY <2>2, <2>3 DEF InBatch, MidBatch, d, n
  <2>. QED
    BY <1>6, <2>4 DEF k
<1>. QED
  BY <1>5, <1>6

\* ... and what the results do that a batch records.
LEMMA BatchGoesOn ==
  ASSUME NEW j, JournalOK(j), NEW b, NEW c, BatchInv(b), BatchInv(c), b.calls \in Nat,
         c.calls = b.calls, b.executions \in Seq(Nat), c.executions \in Seq(Nat),
         Len(b.executions) <= Len(c.executions), InBatch(j, b),
         NEW new, new = SubSeq(c.executions, Len(b.executions) + 1, Len(c.executions))
  PROVE  InBatch(IF new = <<>> THEN j ELSE Flush(Stage(j, Results(new))), c)
<1>. DEFINE x == Len(b.executions)
            y == Len(c.executions)
            t == b.calls
            k == Stage(j, Results(new))
<1>1. /\ x \in Nat /\ y \in Nat /\ x <= y /\ y <= t /\ t \in Nat
      /\ \A i \in 1..y : c.executions[i] = i
  BY DEF BatchInv, InCallOrder
<1>2. /\ new \in Seq(Nat) /\ Len(new) = y - x
      /\ \A i \in 1..(y - x) : x + i \in 1..y /\ new[i] = c.executions[x + i]
  BY <1>1, TailIs
<1>6. /\ x # t => j.staged = <<>> /\ Owed(j, t - x, x + 1)
      /\ x = t => Settled(j)
  BY DEF InBatch, MidBatch
<1>7. ASSUME NEW l, /\ y # t => l.staged = <<>> /\ Owed(l, t - y, y + 1)
                    /\ y = t => Settled(l)
      PROVE  InBatch(l, c)
  BY <1>7 DEF InBatch, MidBatch
<1>. HIDE DEF x, y, t
<1>3. \A i \in 1..Len(new) : new[i] = x + 1 + i - 1
  <2>1. ASSUME NEW i \in 1..(y - x) PROVE new[i] = x + i
    BY <1>1, <1>2
  <2>2. \A i \in 1..(y - x) : x + i = x + 1 + i - 1
    BY <1>1
  <2>. QED
    BY <1>2, <2>1, <2>2
<1>4. CASE new = <<>>
  <2>1. Len(<<>>) = 0
    OBVIOUS
  <2>2. x = y
    <3>1. y - x = 0
      BY <1>2, <1>4, <2>1, Zenon
    <3>. QED
      BY <1>1, <3>1
  <2>3. InBatch(j, c)
    BY <1>6, <1>7, <2>2
  <2>. QED
    BY <1>4, <2>3
<1>5. CASE new # <<>>
  <2>1. Len(new) # 0
    BY <1>2, <1>5, EmptySeq
  <2>. DEFINE d == t - x
              n == x + 1
              m == Len(new)
              left == t - y
              next == y + 1
  <2>2. /\ x # t /\ d \in Nat /\ m <= d /\ n \in Nat
        /\ d - m = left /\ n + m = next /\ (left = 0 <=> y = t)
    <3>1. m = y - x /\ m # 0 /\ x \in Nat /\ y \in Nat /\ x <= y /\ y <= t /\ t \in Nat
      BY <1>1, <1>2, <2>1, Zenon
    <3>. HIDE DEF m
    <3>. QED
      BY <3>1
  <2>3. Owed(j, d, n)
    BY <1>6, <2>2
  <2>4. \A i \in 1..Len(new) : new[i] = n + i - 1
    BY <1>3
  <2>. HIDE DEF d, n
  <2>5. Owed(k, d - Len(new), n + Len(new))
    BY <1>2, <1>5, <2>2, <2>3, <2>4, ResultsOwe
  <2>6. Results(new) \in Seq(Kept) /\ Results(new) # <<>>
    <3>1. Results(new) \in Seq(Kept) /\ Len(Results(new)) = Len(new)
      BY <1>2, ResultsAre
    <3>. QED
      BY <2>1, <3>1
  <2>7. JournalOK(k) /\ k.staged # <<>>
    BY <2>6, StageKeeps, StagedNotEmpty
  <2>. HIDE DEF left, next, k
  <2>8. Owed(k, left, next)
    BY <2>2, <2>5
  <2>9. /\ left = 0 => Settled(Flush(k))
        /\ Owed(Flush(k), left, next) /\ Flush(k).staged = <<>>
    BY <2>7, <2>8, OwedFlush
  <2>10. InBatch(Flush(k), c)
    BY <1>7, <2>2, <2>9 DEF left, next
  <2>. QED
    BY <1>5, <2>10 DEF k
<1>. QED
  BY <1>4, <1>5

\* A setting changed in the middle of a batch leaves what is due.
LEMMA InBatchAppend ==
  ASSUME NEW j, JournalOK(j), NEW b, InBatch(j, b), NEW role \in EntryRoles, NEW n \in Nat,
         role \in Remarks
  PROVE  InBatch(AppendCommitted(j, role, n), b)
<1>1. CASE MidBatch(b)
  <2>. DEFINE d == b.calls - Len(b.executions)
              m == Len(b.executions) + 1
  <2>1. j.staged = <<>> /\ Owed(j, d, m)
    BY <1>1 DEF InBatch
  <2>. HIDE DEF d, m
  <2>2. /\ Owed(AppendCommitted(j, role, n), d, m)
        /\ AppendCommitted(j, role, n).staged = j.staged
    BY <2>1, OwedAppend
  <2>. QED
    BY <1>1, <2>1, <2>2 DEF InBatch, d, m
<1>2. CASE ~MidBatch(b)
  <2>1. Settled(j)
    BY <1>2 DEF InBatch
  <2>2. role \in Remarks \cup {"compaction"}
    OBVIOUS
  <2>3. Settled(AppendCommitted(j, role, n))
    BY <2>1, <2>2, SettledAppend
  <2>. QED
    BY <1>2, <2>3 DEF InBatch
<1>. QED
  BY <1>1, <1>2

\* A batch that is over leaves nothing due, and one that is not, a tidy log.
LEMMA InBatchIs ==
  ASSUME NEW j, NEW b, InBatch(j, b)
  PROVE  Tidy(All(j)) /\ (BatchInv(b) /\ b.state = "over" => Settled(j))
BY DEF InBatch, Owed, Settled, MidBatch, BatchInv

\* What joins the conversation at the start of a turn calls no tool.
LEMMA TurnStartsSettled ==
  ASSUME NEW conv, NEW j, JournalOK(j), Settled(j), TypeOK, TurnStarts(conv, j)
  PROVE  Settled(journal')
<1>1. PICK note \in Notes : journal' = Stage(Flush(j), Steers(pendingSteering) \o note)
  BY DEF TurnStarts
<1>. DEFINE s == Steers(pendingSteering)
            ms == s \o note
<1>2. pendingSteering \in Seq(Nat)
  BY DEF TypeOK
<1>3. s \in Seq(Kept) /\ note \in Seq(Kept)
  BY <1>2, KeptMessages
<1>4. /\ Len(s) \in Nat /\ \A i \in 1..Len(s) : s[i].role = "steer"
  BY <1>2 DEF Steers, Steer
<1>5. /\ Len(note) \in Nat /\ \A i \in 1..Len(note) : note[i].role = "note"
  BY DEF Notes, Note
<1>. HIDE DEF s
<1>6. ms \in Seq(Kept)
  BY <1>3
<1>7. ASSUME NEW i \in 1..Len(ms) PROVE Closed(ms[i])
  <2>1. \/ i \in 1..Len(s) /\ ms[i] = s[i]
        \/ i - Len(s) \in 1..Len(note) /\ ms[i] = note[i - Len(s)]
    BY <1>3
  <2>. HIDE DEF ms
  <2>. QED
    BY <1>4, <1>5, <2>1 DEF Closed
<1>8. JournalOK(Flush(j)) /\ Settled(Flush(j))
  BY FlushKeeps, SettledFlush
<1>9. journal' = Stage(Flush(j), ms)
  BY <1>1 DEF s
<1>. HIDE DEF ms
<1>. QED
  BY <1>6, <1>7, <1>8, <1>9, SettledStage

\* The inductive form of ResumedContextPaired: the loop runs for a run, and nothing
\* is due but the results of the batch it waits for.
LoopIsRun == pc \notin {"idle", "manual"} => job = "run" /\ phase = "running"
DueInv ==
  /\ pc = "tools" => BatchInv(batch) /\ InBatch(journal, batch)
  /\ job = "run" /\ pc # "tools" => Settled(journal)
  /\ job # "run" => Quiet(journal)

\* ... which holds of the loop at every step,
LEMMA LoopIsRunInductive ==
  SessionInv /\ LoopIsRun /\ [SessionNext]_allVars => LoopIsRun'
<1>. SUFFICES ASSUME SessionInv, LoopIsRun, [SessionNext]_allVars PROVE LoopIsRun'
  OBVIOUS
<1>1. CASE \/ FirstTurnStep \/ NextTurnStep \/ OverflowStep \/ AssistantStep \/ ToolStep
  <2>1. pc \notin {"idle", "manual"}
    BY <1>1 DEF FirstTurnStep, NextTurnStep, OverflowStep, AssistantStep, ToolStep,
                CompactBeforePrompt, CompactBeforeTurn, CompactAfterOverflow, StreamDone,
                ToolSettles, CallSettles
  <2>2. UNCHANGED <<job, phase>>
    BY <1>1 DEF FirstTurnStep, NextTurnStep, OverflowStep, AssistantStep, ToolStep, hostVars
  <2>. QED
    BY <2>1, <2>2 DEF LoopIsRun
<1>2. CASE QuietStep
  <2>1. UNCHANGED <<job, phase>>
    BY <1>2 DEF QuietStep, sessionVars, hostVars
  <2>2. UNCHANGED pc \/ pc \notin {"idle", "manual"}
    BY <1>2 DEF QuietStep, SteerAgent, CancelPending, InterruptTools, UserAbort,
                WorkSettles, StreamFails, StreamOverflows, EndToolBatch, loopVars
  <2>. QED
    BY <2>1, <2>2 DEF LoopIsRun
<1>3. CASE \/ FinishRunStep \/ FinishCompactionStep \/ CrashAndResume
  <2>1. pc' = "idle"
    BY <1>3 DEF FinishRunStep, FinishCompactionStep, FinishRun, EndManualCompaction,
                CrashAndResume
  <2>. QED
    BY <2>1 DEF LoopIsRun
<1>4. CASE StartAgent \/ StartCompaction
  BY <1>4 DEF StartAgent, StartCompaction, StartManualCompaction, LoopIsRun
<1>5. CASE PrepareRun \/ PrepareCompaction
  BY <1>5 DEF PrepareRun, PrepareCompaction, LoopIsRun, vars, loopVars
<1>6. CASE AttachAgent \/ RestoreForCompaction \/ ResolveFails \/ JobReturns
  <2>1. phase # "running" /\ UNCHANGED pc
    BY <1>6 DEF AttachAgent, RestoreForCompaction, ResolveFails, JobReturns, Resolved,
                vars, loopVars
  <2>. QED
    BY <2>1 DEF LoopIsRun
<1>7. CASE ModeSet \/ EffortSet \/ UNCHANGED allVars
  <2>1. UNCHANGED <<pc, job, phase>>
    BY <1>7 DEF ModeSet, EffortSet, ChangeSetting, allVars, sessionVars, hostVars, vars,
                loopVars
  <2>. QED
    BY <2>1 DEF LoopIsRun
<1>. QED
  BY <1>1, <1>2, <1>3, <1>4, <1>5, <1>6, <1>7 DEF SessionNext

\* Whatever the file holds, a resume makes of it a journal where nothing is due and
\* whose context is paired.
LEMMA FilesAreQuiet ==
  ASSUME SessionInv, DueInv, NEW file \in OnDisk
  PROVE  LET j == Repair(Load(file))
         IN  JournalOK(j) /\ Quiet(j) /\ Paired(ContextMessages(j.entries))
<1>. DEFINE es == journal.entries
            j == Repair(Load(file))
<1>1. /\ JournalOK(journal) /\ durable \in 0..Len(es) /\ es \in Seq(Entries)
      /\ GrowsOn(es, {0})
  BY JournalParts, Zenon DEF SessionInv
<1>2. Tidy(es)
  <2>1. Tidy(All(journal)) \/ Quiet(journal)
    BY InBatchIs DEF DueInv, Settled
  <2>. QED
    BY <1>1, <2>1, CommittedTidy DEF Quiet
<1>3. PICK k \in durable..Len(es) : file = SubSeq(es, 1, k)
  BY DEF OnDisk
<1>4. k \in 0..Len(es) /\ Len(es) \in Nat
  BY <1>1
<1>5. file \in Seq(Entries) /\ Len(file) = k /\ GrowsOn(file, {0})
  <2>. HIDE DEF es
  <2>. QED
    BY <1>1, <1>3, <1>4, GrowsPrefix
<1>6. Begins(file, es)
  <2>. HIDE DEF es
  <2>1. \A p \in 1..k : SubSeq(es, 1, k)[p] = es[p]
    BY <1>1, <1>4
  <2>. QED
    BY <1>3, <1>4, <1>5, <2>1 DEF Begins
<1>7. Tidy(file)
  BY <1>1, <1>2, <1>5, <1>6, TidyPrefix
<1>8. JournalOK(Load(file)) /\ Load(file).entries = file
  BY <1>5, LoadKeeps
<1>9. JournalOK(j) /\ Tidy(j.entries) /\ Due(j.entries, LeafId(j.entries)) = 0
  BY <1>7, <1>8, RepairIsTidy, RepairKeeps
<1>. HIDE DEF j
<1>10. j.entries \in Seq(Entries) /\ GrowsOn(j.entries, {0})
  BY <1>9, JournalParts, Zenon
<1>11. Paired(ContextMessages(j.entries))
  BY <1>9, <1>10, ContextPaired
<1>. QED
  BY <1>9, <1>11 DEF Quiet, j

\* ... and of the journal: what an action stages, commits or appends suits what is due.
LEMMA DueInductive ==
  SessionInv /\ LoopIsRun /\ DueInv /\ [SessionNext]_allVars => DueInv'
<1>. SUFFICES ASSUME SessionInv, LoopIsRun, DueInv, [SessionNext]_allVars PROVE DueInv'
  OBVIOUS
<1>0. /\ TypeOK /\ TypeOK' /\ JournalOK(journal) /\ SessionInv' /\ JournalOK(journal')
      /\ CompactionKinds \subseteq Nat
  <2>1. SessionInv'
    BY SessionInductive
  <2>2. CompactionKinds \subseteq Nat
    BY SessionBoundsAreNaturals
  <2>. QED
    BY <2>1, <2>2 DEF SessionInv
<1>1. ASSUME pc # "tools", pc \notin {"idle", "manual"} PROVE Settled(journal)
  BY <1>1 DEF DueInv, LoopIsRun
<1>2. ASSUME Settled(journal'), pc' # "tools" PROVE DueInv'
  BY <1>0, <1>2, SettledIsQuiet DEF DueInv
<1>3. CASE FirstTurnStep
  <2>1. Settled(journal)
    BY <1>1, <1>3 DEF FirstTurnStep, CompactBeforePrompt
  <2>2. ASSUME NEW native \in CompactionKinds
        PROVE  /\ Settled(StageCompaction(journal, native))
               /\ JournalOK(StageCompaction(journal, native))
    BY <1>0, <2>1, SettledCompaction, CompactionKeeps, Zenon
  <2>3. \/ UNCHANGED journal
        \/ \E conv : TurnStarts(conv, journal)
        \/ \E native \in CompactionKinds :
             \/ journal' = StageCompaction(journal, native)
             \/ \E conv : TurnStarts(conv, StageCompaction(journal, native))
    BY <1>3, Zenon DEF FirstTurnStep
  <2>4. ASSUME NEW conv, TurnStarts(conv, journal) PROVE Settled(journal')
    BY <1>0, <2>1, <2>4, TurnStartsSettled
  <2>5. ASSUME NEW native \in CompactionKinds, NEW conv,
               TurnStarts(conv, StageCompaction(journal, native))
        PROVE  Settled(journal')
    BY <1>0, <2>2, <2>5, TurnStartsSettled, Zenon
  <2>6. Settled(journal')
    BY <2>1, <2>2, <2>3, <2>4, <2>5, Zenon
  <2>7. pc' # "tools"
    BY <1>3 DEF FirstTurnStep
  <2>. QED
    BY <1>2, <2>6, <2>7
<1>4. CASE NextTurnStep
  <2>1. Settled(journal)
    BY <1>1, <1>4 DEF NextTurnStep, CompactBeforeTurn
  <2>2. ASSUME NEW native \in CompactionKinds
        PROVE  /\ Settled(StageCompaction(journal, native))
               /\ JournalOK(StageCompaction(journal, native))
    BY <1>0, <2>1, SettledCompaction, CompactionKeeps, Zenon
  <2>3. \/ UNCHANGED journal
        \/ \E conv : TurnStarts(conv, journal)
        \/ \E native \in CompactionKinds, conv \in {<<Summary>>} :
             TurnStarts(conv, StageCompaction(journal, native))
    BY <1>4, Zenon DEF NextTurnStep
  <2>4. ASSUME NEW conv, TurnStarts(conv, journal) PROVE Settled(journal')
    BY <1>0, <2>1, <2>4, TurnStartsSettled
  <2>5. ASSUME NEW native \in CompactionKinds, NEW conv,
               TurnStarts(conv, StageCompaction(journal, native))
        PROVE  Settled(journal')
    BY <1>0, <2>2, <2>5, TurnStartsSettled, Zenon
  <2>6. Settled(journal')
    BY <2>1, <2>3, <2>4, <2>5, Zenon
  <2>7. pc' # "tools"
    BY <1>4 DEF NextTurnStep
  <2>. QED
    BY <1>2, <2>6, <2>7
<1>5. CASE OverflowStep
  <2>1. Settled(journal)
    BY <1>1, <1>5 DEF OverflowStep, CompactAfterOverflow
  <2>2. \/ UNCHANGED journal
        \/ \E native \in CompactionKinds : journal' = StageCompaction(journal, native)
    BY <1>5, Zenon DEF OverflowStep
  <2>3. Settled(journal')
    BY <1>0, <2>1, <2>2, SettledCompaction, Zenon
  <2>4. pc' # "tools"
    BY <1>5 DEF OverflowStep
  <2>. QED
    BY <1>2, <2>3, <2>4
<1>6. CASE AssistantStep
  <2>1. Settled(journal)
    BY <1>1, <1>6 DEF AssistantStep, StreamDone
  <2>2. job' = "run" /\ pc' = "tools"
    BY <1>6 DEF AssistantStep, StreamDone, LoopIsRun, hostVars
  <2>3. BatchInv(batch')
    <3>1. PICK calls \in 0..MaxCalls, kind \in Modes :
            batch' = BeginBatch(calls, kind, Aborted \/ toolInterruptRequested)
      BY <1>6, Zenon DEF AssistantStep, StreamDone
    <3>2. calls \in Nat
      BY BoundsAreNaturals
    <3>3. (Aborted \/ toolInterruptRequested) \in BOOLEAN
      BY Zenon
    <3>. QED
      BY <3>1, <3>2, <3>3, BeginBatchInv
  <2>4. batch'.calls \in Nat /\ batch'.executions \in Seq(Nat)
    BY <1>0 DEF TypeOK, Batches
  <2>5. journal' =
          IF batch'.calls = 0
          THEN Stage(journal, <<Assistant(batch'.calls)>> \o Results(batch'.executions))
          ELSE Flush(Stage(journal,
                           <<Assistant(batch'.calls)>> \o Results(batch'.executions)))
    BY <1>6, Zenon DEF AssistantStep
  <2>6. InBatch(journal', batch')
    BY <1>0, <2>1, <2>3, <2>4, <2>5, BatchBegins, Zenon
  <2>. QED
    BY <2>2, <2>3, <2>6 DEF DueInv
<1>7. CASE ToolStep
  <2>1. pc = "tools" /\ pc' = "tools" /\ job' = "run"
    BY <1>7 DEF ToolStep, ToolSettles, CallSettles, LoopIsRun, hostVars
  <2>2. BatchInv(batch) /\ InBatch(journal, batch) /\ batch \in Batches
    BY <1>0, <2>1 DEF DueInv, TypeOK
  <2>3. /\ BatchInv(batch') /\ batch'.calls = batch.calls
        /\ Len(batch.executions) <= Len(batch'.executions)
    <3>1. PICK k \in 1..batch.calls, abort \in BOOLEAN, endTurn \in BOOLEAN :
            /\ InFlight(batch, k)
            /\ batch' = Settle(batch, k, endTurn, BatchSignal \/ abort)
      BY <1>7, Zenon DEF ToolStep, ToolSettles, CallSettles
    <3>2. (BatchSignal \/ abort) \in BOOLEAN
      BY Zenon
    <3>. QED
      BY <2>2, <3>1, <3>2, SettleGrows
  <2>4. /\ batch.calls \in Nat /\ batch.executions \in Seq(Nat)
        /\ batch'.executions \in Seq(Nat)
    BY <1>0 DEF TypeOK, Batches
  <2>. DEFINE new == SubSeq(batch'.executions, Len(batch.executions) + 1,
                            Len(batch'.executions))
  <2>5. journal' = IF new = <<>> THEN journal ELSE Flush(Stage(journal, Results(new)))
    BY <1>7, Zenon DEF ToolStep
  <2>6. InBatch(IF new = <<>> THEN journal ELSE Flush(Stage(journal, Results(new))), batch')
    BY <1>0, <2>2, <2>3, <2>4, BatchGoesOn
  <2>. HIDE DEF new
  <2>. QED
    BY <2>1, <2>3, <2>5, <2>6 DEF DueInv
<1>8. CASE FinishRunStep
  <2>1. Settled(journal)
    BY <1>1, <1>8 DEF FinishRunStep, FinishRun
  <2>2. Settled(Flush(journal)) /\ JournalOK(Flush(journal))
    BY <1>0, <2>1, SettledFlush, FlushKeeps
  <2>3. "error" \in EntryRoles /\ "error" \in Remarks \cup {"compaction"} /\ 0 \in Nat
    BY DEF EntryRoles, Remarks
  <2>4. Settled(AppendCommitted(Flush(journal), "error", 0))
    BY <2>2, <2>3, SettledAppend
  <2>5. \/ journal' = Flush(journal)
        \/ journal' = AppendCommitted(Flush(journal), "error", 0)
    BY <1>8, Zenon DEF FinishRunStep
  <2>6. pc' # "tools"
    BY <1>8 DEF FinishRunStep, FinishRun
  <2>. QED
    BY <1>2, <2>2, <2>4, <2>5, <2>6
<1>9. CASE FinishCompactionStep
  <2>1. /\ pc = "manual" /\ pc' = "idle" /\ UNCHANGED job
    BY <1>9 DEF FinishCompactionStep, EndManualCompaction
  <2>2. "compaction" \in EntryRoles /\ "compaction" \in Remarks \cup {"compaction"}
    BY DEF EntryRoles
  <2>3. \/ UNCHANGED journal
        \/ \E native \in CompactionKinds :
             journal' = AppendCommitted(journal, "compaction", native)
    BY <1>9, Zenon DEF FinishCompactionStep
  <2>4. CASE job = "run"
    <3>1. Settled(journal)
      BY <2>1, <2>4 DEF DueInv
    <3>2. Settled(journal')
      BY <1>0, <2>2, <2>3, <3>1, SettledAppend
    <3>. QED
      BY <1>2, <2>1, <3>2
  <2>5. CASE job # "run"
    <3>1. Quiet(journal)
      BY <2>5 DEF DueInv
    <3>2. Quiet(journal')
      BY <1>0, <2>2, <2>3, <3>1, QuietAppend
    <3>. QED
      BY <2>1, <2>5, <3>2 DEF DueInv
  <2>. QED
    BY <2>4, <2>5
<1>10. CASE ModeSet \/ EffortSet
  <2>1. UNCHANGED <<pc, job, batch>>
    BY <1>10 DEF ModeSet, EffortSet, ChangeSetting, vars, loopVars
  <2>2. PICK role \in {"mode", "effort"} : journal' = AppendCommitted(journal, role, settings')
    BY <1>10, Zenon DEF ModeSet, EffortSet, ChangeSetting
  <2>3. settings' \in Nat
    BY <1>0 DEF SessionInv, HostOK
  <2>4. role \in EntryRoles /\ role \in Remarks /\ role \in Remarks \cup {"compaction"}
    BY DEF EntryRoles, Remarks
  <2>5. ASSUME pc = "tools" PROVE BatchInv(batch) /\ InBatch(journal', batch)
    BY <1>0, <2>2, <2>3, <2>4, <2>5, InBatchAppend DEF DueInv
  <2>6. ASSUME job = "run", pc # "tools" PROVE Settled(journal')
    BY <1>0, <2>2, <2>3, <2>4, <2>6, SettledAppend DEF DueInv
  <2>7. ASSUME job # "run" PROVE Quiet(journal')
    BY <1>0, <2>2, <2>3, <2>4, <2>7, QuietAppend DEF DueInv
  <2>. QED
    BY <2>1, <2>5, <2>6, <2>7 DEF DueInv
<1>11. CASE PrepareRun
  <2>1. job = "none" /\ job' = "run" /\ UNCHANGED pc
    BY <1>11 DEF PrepareRun, vars, loopVars
  <2>2. pc' # "tools"
    BY <2>1 DEF LoopIsRun
  <2>3. journal' = NewTurn(Repair(journal), Prompt(run + 1))
    BY <1>11 DEF PrepareRun
  <2>4. Prompt(run + 1) \in Kept /\ Prompt(run + 1).role = "prompt"
    <3>1. run + 1 \in Nat
      BY <1>0 DEF TypeOK
    <3>. QED
      BY <3>1, KeptMessages DEF Prompt
  <2>5. Quiet(Repair(journal)) /\ JournalOK(Repair(journal))
    <3>1. Tidy(journal.entries)
      BY <2>1 DEF DueInv, Quiet
    <3>. QED
      BY <1>0, <3>1, RepairIsTidy, RepairKeeps DEF Quiet
  <2>6. Settled(journal')
    BY <2>3, <2>4, <2>5, SettledNewTurn DEF Quiet
  <2>. QED
    BY <1>2, <2>2, <2>6
<1>12. CASE CrashAndResume
  <2>1. job' = "resume" /\ pc' = "idle"
    BY <1>12 DEF CrashAndResume
  <2>2. PICK file \in OnDisk : journal' = Repair(Load(file))
    BY <1>12 DEF CrashAndResume
  <2>3. Quiet(journal')
    BY <2>2, FilesAreQuiet
  <2>. QED
    BY <2>1, <2>3 DEF DueInv
<1>13. CASE QuietStep
  <2>1. UNCHANGED <<job, journal>>
    BY <1>13 DEF QuietStep, sessionVars, hostVars
  <2>2. \/ UNCHANGED <<pc, batch>>
        \/ pc \notin {"tools", "idle", "manual"} /\ pc' # "tools"
        \/ pc = "tools" /\ batch.state = "over" /\ pc' # "tools"
    <3>1. CASE SteerAgent \/ CancelPending \/ InterruptTools \/ UserAbort \/ WorkSettles
      BY <3>1 DEF SteerAgent, CancelPending, InterruptTools, UserAbort, WorkSettles,
                  loopVars
    <3>2. CASE StreamFails \/ StreamOverflows
      BY <3>2 DEF StreamFails, StreamOverflows, Throw
    <3>3. CASE EndToolBatch
      BY <3>3 DEF EndToolBatch, LeaveLoop
    <3>. QED
      BY <1>13, <3>1, <3>2, <3>3 DEF QuietStep
  <2>3. CASE UNCHANGED <<pc, batch>>
    BY <2>1, <2>3 DEF DueInv
  <2>4. CASE pc \notin {"tools", "idle", "manual"} /\ pc' # "tools"
    BY <1>1, <1>2, <2>1, <2>4
  <2>5. CASE pc = "tools" /\ batch.state = "over" /\ pc' # "tools"
    <3>1. Settled(journal)
      BY <2>5, InBatchIs DEF DueInv
    <3>. QED
      BY <1>2, <2>1, <2>5, <3>1
  <2>. QED
    BY <2>2, <2>3, <2>4, <2>5
<1>14. CASE \/ AttachAgent \/ StartAgent \/ PrepareCompaction \/ RestoreForCompaction
            \/ StartCompaction \/ ResolveFails \/ JobReturns \/ UNCHANGED allVars
  <2>1. UNCHANGED <<journal, batch>>
    BY <1>14 DEF AttachAgent, ResolveFails, StartAgent, PrepareCompaction,
                 RestoreForCompaction, StartCompaction, JobReturns, allVars,
                 sessionVars, vars, loopVars, PromptAgent, StartManualCompaction
  <2>2. CASE UNCHANGED <<pc, job>>
    BY <2>1, <2>2 DEF DueInv
  <2>3. CASE pc \in {"idle", "manual"} /\ pc' # "tools" /\ (job' = "run" => job = "run")
    BY <1>0, <2>1, <2>3, SettledIsQuiet DEF DueInv
  <2>4. \/ UNCHANGED <<pc, job>>
        \/ pc \in {"idle", "manual"} /\ pc' # "tools" /\ (job' = "run" => job = "run")
    <3>1. CASE AttachAgent \/ RestoreForCompaction \/ UNCHANGED allVars
      BY <3>1 DEF AttachAgent, RestoreForCompaction, allVars, sessionVars, hostVars, vars,
                  loopVars
    <3>2. CASE StartAgent \/ StartCompaction
      BY <3>2 DEF StartAgent, StartCompaction, PromptAgent, StartManualCompaction
    <3>3. CASE PrepareCompaction
      BY <3>3 DEF PrepareCompaction, LoopIsRun, vars, loopVars
    <3>4. CASE ResolveFails \/ JobReturns
      BY <3>4 DEF ResolveFails, JobReturns, LoopIsRun, vars, loopVars
    <3>. QED
      BY <1>14, <3>1, <3>2, <3>3, <3>4
  <2>. QED
    BY <2>2, <2>3, <2>4
<1>. QED
  BY <1>3, <1>4, <1>5, <1>6, <1>7, <1>8, <1>9, <1>10, <1>11, <1>12, <1>13, <1>14
     DEF SessionNext

\* Nothing is due in an empty log.
LEMMA DueInitially == SessionInit => LoopIsRun /\ DueInv
<1>. SUFFICES ASSUME SessionInit PROVE LoopIsRun /\ DueInv
  OBVIOUS
<1>1. pc = "idle" /\ job = "none"
  BY DEF SessionInit, Init
<1>2. journal.entries = <<>>
  BY DEF SessionInit, EmptyJournal
<1>3. Quiet(journal)
  <2>1. SessionInv
    BY SessionInvInitially
  <2>2. journal.entries \in Seq(Entries) /\ GrowsOn(journal.entries, {0})
    BY <2>1, JournalParts, Zenon DEF SessionInv
  <2>3. Tidy(journal.entries)
    BY <1>2 DEF Tidy
  <2>4. LeafId(journal.entries) = 0
    BY <1>2 DEF LeafId
  <2>5. Due(journal.entries, 0) = 0
    BY <2>2, DueIs
  <2>. QED
    BY <2>3, <2>4, <2>5 DEF Quiet
<1>. QED
  BY <1>1, <1>3 DEF LoopIsRun, DueInv

\* Every file the disk may hold resumes to a context that is paired.
FilesArePaired ==
  \A file \in OnDisk : Paired(ContextMessages(Repair(Load(file)).entries))

\* Whenever the process dies, what the model is sent after the resume pairs every
\* tool call with one result, in order: when nothing is due but what the batch in
\* hand waits for, every file is a prefix of a tidy log, and the repair gives
\* cancelled results to the one batch such a prefix can have cut.
THEOREM ResumesArePaired == SessionSpec => ResumedContextPaired
<1>1. SessionInit => SessionInv /\ LoopIsRun /\ DueInv
  BY SessionInvInitially, DueInitially
<1>2. SessionInv /\ LoopIsRun /\ DueInv /\ [SessionNext]_allVars
        => (SessionInv /\ LoopIsRun /\ DueInv)'
  BY SessionInductive, LoopIsRunInductive, DueInductive
<1>3. SessionInv /\ DueInv => FilesArePaired
  BY FilesAreQuiet DEF FilesArePaired
<1>4. FilesArePaired' =>
        [\A file \in OnDisk' \ OnDisk :
           Paired(ContextMessages(Repair(Load(file)).entries))]_allVars
  BY DEF FilesArePaired
<1>. QED
  BY <1>1, <1>2, <1>3, <1>4, PTL DEF SessionSpec, ResumedContextPaired

-----------------------------------------------------------------------------
(* The mode of the thread, and of the run it goes into *)

\* The mode a resume would find, and the one the next staged entry hangs under.
InForce(j, m) == ModeAt(j.entries, LeafId(j.entries)) = m
InRun(j, m) == InForce(j, m) /\ ModeAt(All(j), j.leaf) = m

\* No message sets the mode.
LEMMA MessagesLeaveMode == ModeStep \in Silent
BY ModeSteps DEF MessageRoles, Silent

\* Staging messages leaves the mode,
LEMMA ModeStage ==
  ASSUME NEW j, JournalOK(j), NEW m, InRun(j, m), NEW ms \in Seq(Kept)
  PROVE  InRun(Stage(j, ms), m)
<1>. DEFINE k == Stage(j, ms)
            a == All(j)
            b == All(k)
<1>1. /\ JournalOK(k) /\ k.entries = j.entries
      /\ b = a \o Chain(ms, j.leaf, j.nextId)
      /\ ms = <<>> => k.leaf = j.leaf /\ b = a
      /\ ms # <<>> => k.leaf = j.nextId + Len(ms) - 1
  BY StagedAll
<1>2. /\ a \in Seq(Entries) /\ GrowsOn(a, {0}) /\ j.leaf \in {0} \cup IdsOf(a)
  BY AllIs, Zenon
<1>3. GrowsOn(b, {0})
  BY <1>1, AllIs, Zenon
<1>4. j.leaf \in Nat /\ j.nextId \in Nat \ {0}
  BY JournalParts, Zenon
<1>. HIDE DEF k, a, b
<1>5. CASE ms = <<>>
  BY <1>1, <1>5 DEF InRun, InForce, k, a, b
<1>6. CASE ms # <<>>
  <2>1. Along(b, j.nextId + Len(ms) - 1, ModeStep) = Along(a, j.leaf, ModeStep)
    <3>. DEFINE parent == j.leaf
                next == j.nextId
    <3>1. ModeStep \in Silent
      BY MessagesLeaveMode
    <3>2. b = a \o Chain(ms, parent, next)
      BY <1>1
    <3>3. a \in Seq(Entries)
      BY <1>2
    <3>4. GrowsOn(a, {0})
      BY <1>2
    <3>5. parent \in {0} \cup IdsOf(a)
      BY <1>2
    <3>6. parent \in Nat
      BY <1>4
    <3>7. next \in Nat \ {0}
      BY <1>4
    <3>. HIDE DEF parent, next
    <3>8. ReadsSame(b, next + Len(ms) - 1, a, parent, ModeStep)
      BY <1>3, <1>6, <3>1, <3>2, <3>3, <3>4, <3>5, <3>6, <3>7, ChainInert, Zenon
    <3>. QED
      BY <3>8 DEF parent, next, ReadsSame
  <2>2. ModeAt(b, k.leaf) = ModeAt(a, j.leaf)
    BY <1>1, <1>6, <2>1 DEF ModeAt
  <2>. QED
    BY <1>1, <2>2 DEF InRun, InForce, k, a, b
<1>. QED
  BY <1>5, <1>6

\* ... and so does committing them.
LEMMA ModeFlush ==
  ASSUME NEW j, JournalOK(j), NEW m, InRun(j, m) PROVE InRun(Flush(j), m)
<1>1. LET k == Flush(j)
      IN  /\ k.entries = All(j) /\ k.staged = <<>> /\ All(k) = All(j) /\ k.leaf = j.leaf
          /\ LeafId(All(j)) = IF j.staged = <<>> THEN LeafId(j.entries) ELSE j.leaf
  BY FlushedAll
<1>2. j.staged = <<>> => All(j) = j.entries
  <2>1. j.entries \in Seq(Entries)
    BY JournalParts, Zenon
  <2>. QED
    BY <2>1 DEF All
<1>. QED
  BY <1>1, <1>2 DEF InRun, InForce

\* What is appended to the committed entries: its mode is the thread's, and of those
\* staged nothing changes.
LEMMA ModeAppend ==
  ASSUME NEW j, JournalOK(j), NEW m, InForce(j, m), NEW role \in EntryRoles, NEW n \in Nat
  PROVE  /\ role = "mode" => InForce(AppendCommitted(j, role, n), n)
         /\ role # "mode" => InForce(AppendCommitted(j, role, n), m)
         /\ role # "mode" /\ InRun(j, m) => InRun(AppendCommitted(j, role, n), m)
<1>. DEFINE k == AppendCommitted(j, role, n)
            e == [id |-> j.nextId, parent |-> LeafId(j.entries), role |-> role, n |-> n]
            a == j.entries
            b == a \o <<e>>
<1>1. /\ JournalOK(k) /\ e \in Entries /\ k.entries = b /\ k.leaf = j.leaf
      /\ \A T : Threads(All(j), All(k), T)
  BY AppendedAll, Zenon
<1>2. a \in Seq(Entries) /\ GrowsOn(a, {0})
  BY JournalParts, Zenon
<1>3. LeafId(a) \in {0} \cup IdsOf(a)
  BY <1>2, LeafIdIs, Zenon
<1>4. b \in Seq(Entries) /\ GrowsOn(b, {0})
  BY <1>1, JournalParts, Zenon
<1>5. /\ All(j) \in Seq(Entries) /\ GrowsOn(All(j), {0}) /\ j.leaf \in {0} \cup IdsOf(All(j))
  BY AllIs, Zenon
<1>6. /\ All(k) \in Seq(Entries) /\ GrowsOn(All(k), {0})
  BY <1>1, AllIs, Zenon
<1>7. e.parent = LeafId(a) /\ e.role = role /\ e.n = n
  OBVIOUS
<1>8. ModeStep \in StepTable /\ ReadsRole(ModeStep)
  BY ModeSteps
<1>. HIDE DEF k, e
<1>9. b = a \o <<e>>
  OBVIOUS
<1>. HIDE DEF a, b
<1>10. LeafId(b) = e.id /\ ModeAt(b, e.id) = ModeStep[e][ModeAt(a, e.parent)]
  <2>1. e.parent \in {0} \cup IdsOf(a)
    BY <1>3, <1>7
  <2>2. e \in Entries
    BY <1>1
  <2>3. a \in Seq(Entries)
    BY <1>2
  <2>4. GrowsOn(a, {0})
    BY <1>2
  <2>5. GrowsOn(b, {0})
    BY <1>4
  <2>6. ModeStep \in StepTable
    BY <1>8
  <2>7. ReadsRole(ModeStep)
    BY <1>8
  <2>8. ReadsLast(a, e, b, ModeStep)
    BY <1>9, <2>1, <2>2, <2>3, <2>4, <2>5, <2>6, <2>7, LastAlong, Zenon
  <2>. QED
    BY <2>8 DEF ModeAt, ReadsLast
<1>11. ModeAt(b, LeafId(b)) = IF role = "mode" THEN n ELSE ModeAt(a, LeafId(a))
  <2>1. ModeStep[e] = [x \in Nat |-> IF e.role = "mode" THEN e.n ELSE x]
    BY <1>1 DEF ModeStep
  <2>2. ModeAt(a, LeafId(a)) \in Nat
    BY <1>2, <1>8, AlongSteps DEF ModeAt
  <2>. DEFINE x == ModeAt(a, LeafId(a))
  <2>3. ModeAt(b, e.id) = ModeStep[e][x] /\ x \in Nat
    BY <1>7, <1>10, <2>2
  <2>. HIDE DEF x
  <2>4. ModeAt(b, e.id) = IF role = "mode" THEN n ELSE x
    BY <1>7, <2>1, <2>3
  <2>. QED
    BY <1>10, <2>4 DEF x
<1>12. ModeAt(All(k), j.leaf) = ModeAt(All(j), j.leaf)
  <2>1. Threads(All(j), All(k), Inert(ModeStep))
    BY <1>1
  <2>2. \A id \in {0} \cup IdsOf(All(j)) :
          Along(All(j), id, ModeStep) = Along(All(k), id, ModeStep)
    BY <1>5, <1>6, <1>8, <2>1, ThreadsAlong
  <2>. QED
    BY <1>5, <2>2 DEF ModeAt
<1>. QED
  BY <1>1, <1>11, <1>12 DEF InForce, InRun, k, a

\* A checkpoint put before what is staged leaves the mode.
LEMMA ModeCompaction ==
  ASSUME NEW j, JournalOK(j), NEW m, InRun(j, m), NEW native \in Nat
  PROVE  InRun(StageCompaction(j, native), m)
<1>. DEFINE k == StageCompaction(j, native)
            base == IF j.staged = <<>> THEN j.leaf ELSE j.staged[1].parent
            e == CompactionEntry(j.nextId, base, native)
            r == Rehung(j.staged, j.nextId)
            a == All(j)
            b == All(k)
<1>1. /\ JournalOK(k) /\ e \in Entries /\ k.entries = j.entries
      /\ r \in Seq(Entries) /\ Len(r) = Len(j.staged)
      /\ b = j.entries \o (<<e>> \o r)
      /\ k.leaf = IF j.staged = <<>> THEN j.nextId ELSE j.leaf
      /\ Threads(a, b, {e})
  BY CompactedAll
<1>2. /\ a \in Seq(Entries) /\ GrowsOn(a, {0}) /\ j.leaf \in {0} \cup IdsOf(a)
  BY AllIs, Zenon
<1>3. b \in Seq(Entries) /\ GrowsOn(b, {0})
  BY <1>1, AllIs, Zenon
<1>4. e.id = j.nextId /\ e.role = "compaction" /\ (j.staged = <<>> => e.parent = j.leaf)
  BY DEF CompactionEntry
<1>5. ModeStep \in StepTable /\ ReadsRole(ModeStep) /\ e \in Inert(ModeStep)
  BY <1>1, <1>4, ModeSteps
<1>6. \A id \in {0} \cup IdsOf(a) : ModeAt(b, id) = ModeAt(a, id)
  <2>. HIDE DEF a, b, e
  <2>1. Threads(a, b, Inert(ModeStep))
    <3>1. {e} \subseteq Inert(ModeStep)
      BY <1>5
    <3>. QED
      BY <1>1, <3>1, ThreadsMore
  <2>2. \A id \in {0} \cup IdsOf(a) : Along(a, id, ModeStep) = Along(b, id, ModeStep)
    BY <1>2, <1>3, <1>5, <2>1, ThreadsAlong
  <2>. QED
    BY <2>2 DEF ModeAt
<1>7. ModeAt(b, e.id) = ModeAt(b, e.parent)
  <2>. DEFINE s == j.entries
              p == Len(s) + 1
  <2>1. s \in Seq(Entries)
    BY JournalParts, Zenon
  <2>. DEFINE c == <<e>> \o r
  <2>. HIDE DEF b, e, r, s
  <2>2. c \in Seq(Entries) /\ Len(c) \in Nat \ {0} /\ c[1] = e
    BY <1>1
  <2>6. b = s \o c
    BY <1>1 DEF s
  <2>. HIDE DEF c
  <2>3. p \in 1..Len(b) /\ b[p] = e
    BY <2>1, <2>2, <2>6
  <2>4. Along(b, b[p].id, ModeStep) = ModeStep[b[p]][Along(b, b[p].parent, ModeStep)]
        /\ Along(b, b[p].parent, ModeStep) \in Nat
    BY <1>3, <1>5, <2>3, AlongSteps
  <2>. HIDE DEF p
  <2>. QED
    BY <1>5, <2>3, <2>4 DEF ModeAt, Inert
<1>. HIDE DEF a, b, e, k, r
<1>8. ModeAt(b, k.leaf) = ModeAt(a, j.leaf)
  <2>1. CASE j.staged = <<>>
    BY <1>1, <1>2, <1>4, <1>6, <1>7, <2>1
  <2>2. CASE j.staged # <<>>
    BY <1>1, <1>2, <1>6, <2>2
  <2>. QED
    BY <2>1, <2>2
<1>. QED
  BY <1>1, <1>8 DEF InForce, InRun, k, a, b

\* A turn begins in the mode of the thread.
LEMMA ModeNewTurn ==
  ASSUME NEW j, JournalOK(j), NEW m, InForce(j, m), NEW message \in Kept
  PROVE  InRun(NewTurn(j, message), m)
<1>. DEFINE leaf == LeafId(j.entries)
            k == Rebase(j, leaf)
            ms == <<message>>
<1>1. leaf \in {0} \cup IdsOf(j.entries)
  BY JournalParts, LeafIdIs
<1>2. /\ JournalOK(k) /\ k.entries = j.entries /\ k.leaf = leaf /\ All(k) = j.entries
  <2>. HIDE DEF leaf
  <2>. QED
    BY <1>1, RebaseIs
<1>3. NewTurn(j, message) = Stage(k, ms)
  BY Zenon DEF NewTurn, Rebase
<1>4. ms \in Seq(Kept)
  OBVIOUS
<1>. HIDE DEF ms, k
<1>5. InRun(k, m)
  BY <1>2 DEF InRun, InForce
<1>. QED
  BY <1>2, <1>3, <1>4, <1>5, ModeStage

\* What joins the conversation at the start of a turn leaves the mode.
LEMMA ModeTurnStarts ==
  ASSUME NEW conv, NEW j, JournalOK(j), NEW m, InRun(j, m), TypeOK, TurnStarts(conv, j)
  PROVE  InRun(journal', m)
<1>1. PICK note \in Notes : journal' = Stage(Flush(j), Steers(pendingSteering) \o note)
  BY DEF TurnStarts
<1>. DEFINE ms == Steers(pendingSteering) \o note
<1>2. ms \in Seq(Kept)
  <2>1. pendingSteering \in Seq(Nat)
    BY DEF TypeOK
  <2>2. Steers(pendingSteering) \in Seq(Kept) /\ note \in Seq(Kept)
    BY <2>1, KeptMessages
  <2>. QED
    BY <2>2
<1>3. journal' = Stage(Flush(j), ms)
  BY <1>1
<1>4. JournalOK(Flush(j)) /\ InRun(Flush(j), m)
  BY FlushKeeps, ModeFlush
<1>. HIDE DEF ms
<1>. QED
  BY <1>2, <1>3, <1>4, ModeStage

\* The inductive form of ModeSurvivesUnlessMidRun: the mode is the one in force at
\* the committed leaf and, while a run has the thread, at what its next entry hangs
\* from, which the settings that are appended beside the run do not reach.
ModeInv ==
  ~changedMidRun => /\ InForce(journal, mode)
                    /\ job = "run" => InRun(journal, mode)

\* No mode is set in an empty log,
LEMMA ModeInitially == SessionInit => ModeInv
<1>. SUFFICES ASSUME SessionInit PROVE InForce(journal, mode) /\ job # "run"
  BY DEF ModeInv
<1>1. journal.entries = <<>> /\ mode = 0 /\ job = "none"
  BY DEF SessionInit, EmptyJournal
<1>2. SessionInv
  BY SessionInvInitially
<1>3. journal.entries \in Seq(Entries) /\ GrowsOn(journal.entries, {0})
  BY <1>2, JournalParts, Zenon DEF SessionInv
<1>4. ModeAt(journal.entries, 0) = 0
  BY <1>3, ModeSteps, AlongSteps DEF ModeAt
<1>5. LeafId(journal.entries) = 0
  BY <1>1 DEF LeafId
<1>. QED
  BY <1>1, <1>4, <1>5 DEF InForce

\* ... and every step keeps the two in agreement.
LEMMA ModeInductive ==
  SessionInv /\ LoopIsRun /\ DueInv /\ ModeInv /\ [SessionNext]_allVars => ModeInv'
<1>. SUFFICES ASSUME SessionInv, LoopIsRun, DueInv, ModeInv, [SessionNext]_allVars
              PROVE  ModeInv'
  OBVIOUS
<1>0. /\ TypeOK /\ TypeOK' /\ JournalOK(journal) /\ SessionInv' /\ JournalOK(journal')
      /\ CompactionKinds \subseteq Nat
  <2>1. SessionInv'
    BY SessionInductive
  <2>2. CompactionKinds \subseteq Nat
    BY SessionBoundsAreNaturals
  <2>. QED
    BY <2>1, <2>2 DEF SessionInv
<1>1. ASSUME pc \notin {"idle", "manual"} PROVE ~changedMidRun => InRun(journal, mode)
  BY <1>1, Zenon DEF ModeInv, LoopIsRun
<1>2. ASSUME UNCHANGED <<mode, changedMidRun>>, ~changedMidRun => InRun(journal', mode)
      PROVE  ModeInv'
  <2>1. ASSUME ~changedMidRun' PROVE InRun(journal', mode')
    BY <1>2, <2>1, Zenon
  <2>. QED
    BY <2>1, Zenon DEF ModeInv, InRun
<1>3. CASE FirstTurnStep
  <2>1. UNCHANGED <<mode, changedMidRun>> /\ pc \notin {"idle", "manual"}
    BY <1>3 DEF FirstTurnStep, CompactBeforePrompt, settingVars
  <2>2. ASSUME ~changedMidRun PROVE InRun(journal', mode)
    <3>1. InRun(journal, mode)
      BY <1>1, <2>1, <2>2, Zenon
    <3>2. ASSUME NEW native \in CompactionKinds
          PROVE  /\ InRun(StageCompaction(journal, native), mode)
                 /\ JournalOK(StageCompaction(journal, native))
      BY <1>0, <3>1, ModeCompaction, CompactionKeeps, Zenon
    <3>3. \/ UNCHANGED journal
          \/ \E conv : TurnStarts(conv, journal)
          \/ \E native \in CompactionKinds :
               \/ journal' = StageCompaction(journal, native)
               \/ \E conv : TurnStarts(conv, StageCompaction(journal, native))
      BY <1>3, Zenon DEF FirstTurnStep
    <3>4. ASSUME NEW conv, TurnStarts(conv, journal) PROVE InRun(journal', mode)
      BY <1>0, <3>1, <3>4, ModeTurnStarts
    <3>5. ASSUME NEW native \in CompactionKinds, NEW conv,
                 TurnStarts(conv, StageCompaction(journal, native))
          PROVE  InRun(journal', mode)
      BY <1>0, <3>2, <3>5, ModeTurnStarts, Zenon
    <3>. QED
      BY <3>1, <3>2, <3>3, <3>4, <3>5, Zenon
  <2>. QED
    BY <1>2, <2>1, <2>2, Zenon
<1>4. CASE NextTurnStep
  <2>1. UNCHANGED <<mode, changedMidRun>> /\ pc \notin {"idle", "manual"}
    BY <1>4 DEF NextTurnStep, CompactBeforeTurn, settingVars
  <2>2. ASSUME ~changedMidRun PROVE InRun(journal', mode)
    <3>1. InRun(journal, mode)
      BY <1>1, <2>1, <2>2, Zenon
    <3>2. ASSUME NEW native \in CompactionKinds
          PROVE  /\ InRun(StageCompaction(journal, native), mode)
                 /\ JournalOK(StageCompaction(journal, native))
      BY <1>0, <3>1, ModeCompaction, CompactionKeeps, Zenon
    <3>3. \/ UNCHANGED journal
          \/ \E conv : TurnStarts(conv, journal)
          \/ \E native \in CompactionKinds, conv \in {<<Summary>>} :
               TurnStarts(conv, StageCompaction(journal, native))
      BY <1>4, Zenon DEF NextTurnStep
    <3>4. ASSUME NEW conv, TurnStarts(conv, journal) PROVE InRun(journal', mode)
      BY <1>0, <3>1, <3>4, ModeTurnStarts
    <3>5. ASSUME NEW native \in CompactionKinds, NEW conv,
                 TurnStarts(conv, StageCompaction(journal, native))
          PROVE  InRun(journal', mode)
      BY <1>0, <3>2, <3>5, ModeTurnStarts, Zenon
    <3>. QED
      BY <3>1, <3>3, <3>4, <3>5, Zenon
  <2>. QED
    BY <1>2, <2>1, <2>2, Zenon
<1>5. CASE OverflowStep
  <2>1. UNCHANGED <<mode, changedMidRun>> /\ pc \notin {"idle", "manual"}
    BY <1>5 DEF OverflowStep, CompactAfterOverflow, settingVars
  <2>2. \/ UNCHANGED journal
        \/ \E native \in CompactionKinds : journal' = StageCompaction(journal, native)
    BY <1>5, Zenon DEF OverflowStep
  <2>3. ASSUME ~changedMidRun PROVE InRun(journal', mode)
    <3>1. InRun(journal, mode)
      BY <1>1, <2>1, <2>3, Zenon
    <3>. QED
      BY <1>0, <2>2, <3>1, ModeCompaction, Zenon
  <2>. QED
    BY <1>2, <2>1, <2>3, Zenon
<1>6. CASE AssistantStep
  <2>1. UNCHANGED <<mode, changedMidRun>> /\ pc \notin {"idle", "manual"}
    BY <1>6 DEF AssistantStep, StreamDone, settingVars
  <2>2. batch'.calls \in Nat /\ batch'.executions \in Seq(Nat)
    BY <1>0 DEF TypeOK, Batches
  <2>. DEFINE ms == <<Assistant(batch'.calls)>> \o Results(batch'.executions)
  <2>3. ms \in Seq(Kept)
    <3>1. /\ <<Assistant(batch'.calls)>> \in Seq(Kept)
          /\ Results(batch'.executions) \in Seq(Kept)
      BY <2>2, KeptMessages
    <3>. QED
      BY <3>1
  <2>4. journal' \in {Stage(journal, ms), Flush(Stage(journal, ms))}
    BY <1>6, Zenon DEF AssistantStep
  <2>. HIDE DEF ms
  <2>5. ASSUME ~changedMidRun PROVE InRun(journal', mode)
    <3>1. InRun(journal, mode)
      BY <1>1, <2>1, <2>5, Zenon
    <3>2. InRun(Stage(journal, ms), mode) /\ JournalOK(Stage(journal, ms))
      BY <1>0, <2>3, <3>1, ModeStage, StageKeeps
    <3>3. InRun(Flush(Stage(journal, ms)), mode)
      BY <3>2, ModeFlush
    <3>. QED
      BY <2>4, <3>2, <3>3
  <2>. QED
    BY <1>2, <2>1, <2>5, Zenon
<1>7. CASE ToolStep
  <2>1. UNCHANGED <<mode, changedMidRun>> /\ pc \notin {"idle", "manual"}
    BY <1>7 DEF ToolStep, ToolSettles, CallSettles, settingVars
  <2>. DEFINE new == SubSeq(batch'.executions, Len(batch.executions) + 1,
                            Len(batch'.executions))
              ms == Results(new)
  <2>2. ms \in Seq(Kept)
    <3>1. batch.executions \in Seq(Nat) /\ batch'.executions \in Seq(Nat)
      BY <1>0 DEF TypeOK, Batches
    <3>2. new \in Seq(Nat)
      BY <3>1
    <3>. QED
      BY <3>2, KeptMessages
  <2>3. journal' \in {journal, Flush(Stage(journal, ms))}
    BY <1>7, Zenon DEF ToolStep
  <2>. HIDE DEF ms
  <2>4. ASSUME ~changedMidRun PROVE InRun(journal', mode)
    <3>1. InRun(journal, mode)
      BY <1>1, <2>1, <2>4, Zenon
    <3>2. InRun(Stage(journal, ms), mode) /\ JournalOK(Stage(journal, ms))
      BY <1>0, <2>2, <3>1, ModeStage, StageKeeps
    <3>3. InRun(Flush(Stage(journal, ms)), mode)
      BY <3>2, ModeFlush
    <3>. QED
      BY <2>3, <3>1, <3>3
  <2>. QED
    BY <1>2, <2>1, <2>4, Zenon
<1>8. CASE FinishRunStep
  <2>1. UNCHANGED <<mode, changedMidRun>> /\ pc \notin {"idle", "manual"}
    BY <1>8 DEF FinishRunStep, FinishRun, settingVars
  <2>2. journal' \in {Flush(journal), AppendCommitted(Flush(journal), "error", 0)}
    BY <1>8, Zenon DEF FinishRunStep
  <2>3. ASSUME ~changedMidRun PROVE InRun(journal', mode)
    <3>1. InRun(journal, mode)
      BY <1>1, <2>1, <2>3, Zenon
    <3>2. InRun(Flush(journal), mode) /\ JournalOK(Flush(journal))
      BY <1>0, <3>1, ModeFlush, FlushKeeps
    <3>3. InRun(AppendCommitted(Flush(journal), "error", 0), mode)
      <4>1. "error" \in EntryRoles /\ "error" # "mode" /\ 0 \in Nat
        BY DEF EntryRoles
      <4>2. InForce(Flush(journal), mode)
        BY <3>2 DEF InRun
      <4>. QED
        BY <3>2, <4>1, <4>2, ModeAppend
    <3>. QED
      BY <2>2, <3>2, <3>3
  <2>. QED
    BY <1>2, <2>1, <2>3, Zenon
<1>9. ASSUME UNCHANGED <<mode, changedMidRun>>, job' = "run" => job = "run",
             \/ UNCHANGED journal
             \/ \E role \in {"effort", "compaction"}, n \in Nat :
                  journal' = AppendCommitted(journal, role, n)
      PROVE  ModeInv'
  <2>1. ASSUME ~changedMidRun' PROVE InForce(journal', mode')
                                     /\ (job' = "run" => InRun(journal', mode'))
    <3>1. /\ InForce(journal, mode) /\ (job = "run" => InRun(journal, mode))
      BY <1>9, <2>1, Zenon DEF ModeInv
    <3>2. ASSUME NEW role \in {"effort", "compaction"}, NEW n \in Nat
          PROVE  /\ InForce(AppendCommitted(journal, role, n), mode)
                 /\ job = "run" => InRun(AppendCommitted(journal, role, n), mode)
      <4>1. role \in EntryRoles /\ role # "mode"
        BY DEF EntryRoles
      <4>. QED
        BY <1>0, <3>1, <4>1, ModeAppend
    <3>3. mode' = mode
      BY <1>9
    <3>. QED
      BY <1>9, <3>1, <3>2, <3>3, Zenon
  <2>. QED
    BY <2>1, Zenon DEF ModeInv
<1>10. CASE FinishCompactionStep
  <2>1. UNCHANGED <<mode, changedMidRun, job>>
    BY <1>10 DEF FinishCompactionStep, settingVars
  <2>2. \/ UNCHANGED journal
        \/ \E native \in CompactionKinds :
             journal' = AppendCommitted(journal, "compaction", native)
    BY <1>10, Zenon DEF FinishCompactionStep
  <2>3. "compaction" \in {"effort", "compaction"}
    OBVIOUS
  <2>. QED
    BY <1>0, <1>9, <2>1, <2>2, <2>3
<1>11. CASE ModeSet
  <2>1. /\ mode' = settings' /\ job' = job
        /\ journal' = AppendCommitted(journal, "mode", settings')
    BY <1>11 DEF ModeSet, ChangeSetting
  <2>2. settings' \in Nat
    BY <1>0 DEF SessionInv, HostOK
  <2>3. ASSUME ~changedMidRun' PROVE InForce(journal', mode') /\ job' # "run"
    <3>1. ~changedMidRun /\ job # "run"
      BY <1>11, <2>3, Zenon DEF ModeSet, ChangeSetting
    <3>2. InForce(journal, mode)
      BY <3>1, Zenon DEF ModeInv
    <3>3. "mode" \in EntryRoles
      BY DEF EntryRoles
    <3>. QED
      BY <1>0, <2>1, <2>2, <3>1, <3>2, <3>3, ModeAppend
  <2>. QED
    BY <2>3, Zenon DEF ModeInv
<1>12. CASE EffortSet
  <2>1. /\ UNCHANGED <<mode, job>>
        /\ journal' = AppendCommitted(journal, "effort", settings')
    BY <1>12 DEF EffortSet, ChangeSetting
  <2>2. settings' \in Nat
    BY <1>0 DEF SessionInv, HostOK
  <2>3. ASSUME ~changedMidRun' PROVE InForce(journal', mode') /\ job' # "run"
    <3>1. ~changedMidRun /\ job # "run"
      BY <1>12, <2>3, Zenon DEF EffortSet, ChangeSetting
    <3>2. InForce(journal, mode)
      BY <3>1, Zenon DEF ModeInv
    <3>3. "effort" \in EntryRoles /\ "effort" # "mode"
      BY DEF EntryRoles
    <3>. QED
      BY <1>0, <2>1, <2>2, <3>1, <3>2, <3>3, ModeAppend
  <2>. QED
    BY <2>3, Zenon DEF ModeInv
<1>13. CASE PrepareRun
  <2>1. job = "none" /\ UNCHANGED <<mode, changedMidRun>>
    BY <1>13 DEF PrepareRun, settingVars
  <2>2. journal' = NewTurn(Repair(journal), Prompt(run + 1))
    BY <1>13 DEF PrepareRun
  <2>3. Repair(journal) = journal
    <3>1. Quiet(journal)
      BY <2>1 DEF DueInv
    <3>. QED
      BY <1>0, <3>1, RepairNothing DEF Quiet
  <2>4. Prompt(run + 1) \in Kept
    <3>1. run + 1 \in Nat
      BY <1>0 DEF TypeOK
    <3>. QED
      BY <3>1, KeptMessages
  <2>5. ASSUME ~changedMidRun PROVE InRun(journal', mode)
    <3>1. InForce(journal, mode)
      BY <2>5, Zenon DEF ModeInv
    <3>. QED
      BY <1>0, <2>2, <2>3, <2>4, <3>1, ModeNewTurn
  <2>. QED
    BY <1>2, <2>1, <2>5, Zenon
<1>14. CASE CrashAndResume
  <2>1. job' = "resume" /\ mode' = ContextMode(journal'.entries)
    BY <1>14 DEF CrashAndResume
  <2>2. journal'.entries \in Seq(Entries) /\ GrowsOn(journal'.entries, {0})
    BY <1>0, JournalParts, Zenon
  <2>3. InForce(journal', mode')
    BY <2>1, <2>2, ModeIsRead DEF InForce
  <2>. QED
    BY <2>1, <2>3 DEF ModeInv
<1>15. CASE QuietStep \/ UNCHANGED allVars
  <2>1. UNCHANGED <<job, journal, mode, changedMidRun>>
    BY <1>15 DEF QuietStep, allVars, sessionVars, hostVars, settingVars
  <2>. QED
    BY <1>9, <2>1
<1>16. CASE \/ AttachAgent \/ StartAgent \/ PrepareCompaction \/ RestoreForCompaction
            \/ StartCompaction \/ ResolveFails \/ JobReturns
  <2>1. UNCHANGED <<journal, mode, changedMidRun>> /\ (job' = "run" => job = "run")
    BY <1>16 DEF AttachAgent, ResolveFails, StartAgent, PrepareCompaction,
                 RestoreForCompaction, StartCompaction, JobReturns, settingVars
  <2>. QED
    BY <1>9, <2>1
<1>. QED
  BY <1>3, <1>4, <1>5, <1>6, <1>7, <1>8, <1>10, <1>11, <1>12, <1>13, <1>14, <1>15, <1>16
     DEF SessionNext

\* Between jobs the mode a resume would find is the one in force, when it was not
\* changed while a run had the thread, whatever was compacted, repaired, failed or
\* aborted since it was set.
THEOREM ModeSurvives == SessionSpec => []ModeSurvivesUnlessMidRun
<1>1. SessionInit => SessionInv /\ LoopIsRun /\ DueInv /\ ModeInv
  BY SessionInvInitially, DueInitially, ModeInitially
<1>2. SessionInv /\ LoopIsRun /\ DueInv /\ ModeInv /\ [SessionNext]_allVars
        => (SessionInv /\ LoopIsRun /\ DueInv /\ ModeInv)'
  BY SessionInductive, LoopIsRunInductive, DueInductive, ModeInductive
<1>3. SessionInv /\ ModeInv => ModeSurvivesUnlessMidRun
  <2>. SUFFICES ASSUME SessionInv, ModeInv, job = "none", ~changedMidRun
                PROVE  ContextMode(journal.entries) = mode
    BY Zenon DEF ModeSurvivesUnlessMidRun
  <2>1. InForce(journal, mode)
    BY Zenon DEF ModeInv
  <2>2. JournalOK(journal)
    BY DEF SessionInv
  <2>3. journal.entries \in Seq(Entries) /\ GrowsOn(journal.entries, {0})
    BY <2>2, JournalParts, Zenon
  <2>. QED
    BY <2>1, <2>3, ModeIsRead DEF InForce
<1>. QED
  BY <1>1, <1>2, <1>3, PTL DEF SessionSpec

=============================================================================
