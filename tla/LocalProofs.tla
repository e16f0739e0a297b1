------------------------------ MODULE LocalProofs ------------------------------
(***************************************************************************)
(* Inside the process.  The gate of the tools admits right and strands     *)
(* nobody, code mode leaves nothing behind, and collaboration agents are   *)
(* accounted for.  The app server's requests find somebody to answer them, *)
(* and reads of an idle thread lose nothing.  For any number of scripts,   *)
(* calls, children, executions, clients, requests, reads and entries.      *)
(***************************************************************************)
EXTENDS CodeMode, Collab, ServerRequests, Reconcile, FiniteSetTheorems,
        FunctionTheorems, SequenceTheorems, WellFoundedInduction, TLAPS

\* A set of natural numbers that is not empty has a least element.
LEMMA LeastNatural ==
  ASSUME NEW S, S \subseteq Nat, S # {}
  PROVE  \E m \in S : \A n \in S : m <= n
<1>. DEFINE R == {ss \in Nat \X Nat : ss[1] < ss[2]}
<1>1. IsWellFoundedOn(R, Nat)
  BY NatLessThanWellFounded DEF OpToRel
<1>. HIDE DEF R
<1>2. PICK m \in S : \A n \in S : <<n, m>> \notin R
  BY <1>1, WFMin
<1>3. \A n \in S : ~(n < m)
  BY <1>2 DEF R
<1>. QED
  BY <1>3

\* The calls at the head of a queue that can overlap: up to the first exclusive one.
LEMMA SharedLeadIs ==
  ASSUME NEW q \in Seq(Callers)
  PROVE  /\ SharedLead(q) \in 0..Len(q)
         /\ \A i \in 1..SharedLead(q) : q[i] \notin Exclusive
         /\ SharedLead(q) < Len(q) => q[SharedLead(q) + 1] \in Exclusive
<1>. DEFINE P(k) == /\ \A i \in 1..k : q[i] \notin Exclusive
                    /\ k < Len(q) => q[k + 1] \in Exclusive
            S == {i \in 1..Len(q) : q[i] \in Exclusive}
<1>1. Len(q) \in Nat
  OBVIOUS
<1>2. \E k \in 0..Len(q) : P(k)
  <2>1. CASE S = {}
    <3>1. P(Len(q))
      BY <1>1, <2>1
    <3>. QED
      BY <1>1, <3>1
  <2>2. CASE S # {}
    <3>. HIDE DEF P
    <3>1. S \subseteq Nat
      BY <1>1
    <3>2. PICK m \in S : \A n \in S : m <= n
      BY <2>2, <3>1, LeastNatural
    <3>3. m \in 1..Len(q) /\ q[m] \in Exclusive
      BY <3>2
    <3>4. P(m - 1)
      BY <1>1, <3>2, <3>3 DEF P
    <3>. QED
      BY <1>1, <3>3, <3>4
  <2>. QED
    BY <2>1, <2>2
<1>. HIDE DEF P
<1>3. P(CHOOSE k \in 0..Len(q) : P(k)) /\ (CHOOSE k \in 0..Len(q) : P(k)) \in 0..Len(q)
  BY <1>2
<1>4. SharedLead(q) = (CHOOSE k \in 0..Len(q) : P(k))
  BY DEF SharedLead, P
<1>. QED
  BY <1>3, <1>4 DEF P

\* A queue without one of its calls: the rest, in order.
LEMMA RemovedIs ==
  ASSUME NEW q \in Seq(Callers), NEW x, \E i \in DOMAIN q : q[i] = x
  PROVE  \E k \in 1..Len(q) :
           /\ q[k] = x
           /\ RemoveFirst(q, x) \in Seq(Callers)
           /\ Len(RemoveFirst(q, x)) = Len(q) - 1
           /\ \A j \in 1..(Len(q) - 1) :
                RemoveFirst(q, x)[j] = q[IF j < k THEN j ELSE j + 1]
<1>. DEFINE S == {i \in 1..Len(q) : q[i] = x}
            k == Min(S)
<1>1. Len(q) \in Nat
  OBVIOUS
<1>2. S # {} /\ S \subseteq Nat
  BY <1>1
<1>3. k \in S
  <2>. HIDE DEF S
  <2>1. \E m \in S : \A n \in S : m <= n
    BY <1>2, LeastNatural
  <2>. QED
    BY <2>1 DEF Min
<1>4. RemoveFirst(q, x) = SubSeq(q, 1, k - 1) \o SubSeq(q, k + 1, Len(q))
  BY <1>2 DEF RemoveFirst, SelectInSeq, RemoveAt
<1>. HIDE DEF k
<1>5. k \in Nat /\ 1 <= k /\ k <= Len(q) /\ q[k] = x
  BY <1>1, <1>3
<1>. DEFINE a == SubSeq(q, 1, k - 1)
            b == SubSeq(q, k + 1, Len(q))
<1>6. a \in Seq(Callers) /\ Len(a) = k - 1 /\ \A j \in 1..(k - 1) : a[j] = q[j]
  BY <1>1, <1>5
<1>7. /\ b \in Seq(Callers) /\ Len(b) = Len(q) - k
      /\ \A j \in 1..(Len(q) - k) : b[j] = q[k + j]
  BY <1>1, <1>5
<1>. HIDE DEF a, b
<1>8. /\ a \o b \in Seq(Callers) /\ Len(a \o b) = Len(a) + Len(b)
      /\ \A i \in 1..Len(a) + Len(b) :
           (a \o b)[i] = IF i <= Len(a) THEN a[i] ELSE b[i - Len(a)]
  BY <1>6, <1>7, ConcatProperties
<1>9. Len(a) + Len(b) = Len(q) - 1
  BY <1>1, <1>5, <1>6, <1>7
<1>10. ASSUME NEW j \in 1..(Len(q) - 1)
       PROVE  (a \o b)[j] = q[IF j < k THEN j ELSE j + 1]
  <2>1. j \in 1..Len(a) + Len(b)
    BY <1>9
  <2>2. CASE j < k
    BY <1>1, <1>5, <1>6, <1>8, <2>1, <2>2
  <2>3. CASE ~(j < k)
    <3>1. j - Len(a) \in 1..(Len(q) - k) /\ ~(j <= Len(a)) /\ k + (j - Len(a)) = j + 1
      BY <1>1, <1>5, <1>6, <2>3, SMTT(30)
    <3>2. (a \o b)[j] = b[j - Len(a)]
      BY <1>8, <2>1, <3>1
    <3>. QED
      BY <1>7, <2>3, <3>1, <3>2
  <2>. QED
    BY <2>2, <2>3
<1>11. RemoveFirst(q, x) = a \o b
  BY <1>4 DEF a, b
<1>12. k \in 1..Len(q)
  BY <1>1, <1>5
<1>. QED
  BY <1>5, <1>8, <1>9, <1>10, <1>11, <1>12

-----------------------------------------------------------------------------
\* The inductive invariant.  Counted: holders is the number of the calls inside, or -1
\* when the one inside is exclusive.  Apart: a call is in one place, once.

Gates == [holders : Int, waiting : Seq(Callers), inside : SUBSET Callers]

Counted(g) ==
  /\ g \in Gates
  /\ g.holders = -1 \/ g.holders \in Nat
  /\ g.holders = -1 => \E x \in Exclusive : g.inside = {x}
  /\ g.holders \in Nat => /\ g.inside \cap Exclusive = {}
                          /\ IsFiniteSet(g.inside) /\ Cardinality(g.inside) = g.holders

Apart(g) ==
  /\ \A i, j \in 1..Len(g.waiting) : g.waiting[i] = g.waiting[j] => i = j
  /\ \A i \in 1..Len(g.waiting) : g.waiting[i] \notin g.inside

Pumped(g) == g.waiting # <<>> => ~Admits(g, Head(g.waiting))

Whole(g) == Counted(g) /\ Apart(g) /\ Pumped(g)

\* The calls the gate knows of.
Members(g) == g.inside \cup Queued(g)

\* A call that is admitted enters; those that wait are others.
LEMMA EnterCounts ==
  ASSUME NEW g, Counted(g), NEW x \in Callers, x \notin g.inside, Admits(g, x)
  PROVE  /\ Counted(Enter(g, x))
         /\ Enter(g, x).waiting = g.waiting /\ Enter(g, x).inside = g.inside \cup {x}
         /\ x \in Exclusive => Enter(g, x).holders = -1
<1>. DEFINE e == Enter(g, x)
<1>1. g \in Gates /\ g.holders \in Int /\ g.inside \subseteq Callers
  BY DEF Counted, Gates
<1>. DEFINE n == IF x \in Exclusive THEN -1 ELSE g.holders + 1
            s == g.inside \cup {x}
<1>2. e = [g EXCEPT !.holders = n, !.inside = s]
  BY DEF Enter
<1>3. s \in SUBSET Callers /\ n \in Int /\ g.waiting \in Seq(Callers)
  BY <1>1 DEF Gates
<1>. HIDE DEF e, n, s
<1>4. /\ e \in Gates /\ e.waiting = g.waiting /\ e.inside = s
      /\ e.holders = n
  BY <1>1, <1>2, <1>3 DEF Gates
<1>5. s = g.inside \cup {x} /\ n = IF x \in Exclusive THEN -1 ELSE g.holders + 1
  BY DEF n, s
<1>6. /\ g.holders \in Nat /\ g.inside \cap Exclusive = {}
      /\ IsFiniteSet(g.inside) /\ Cardinality(g.inside) = g.holders
  BY DEF Counted, Admits
<1>7. CASE x \in Exclusive
  <2>1. g.inside = {}
    BY <1>6, <1>7, FS_EmptySet DEF Admits
  <2>. QED
    BY <1>4, <1>5, <1>7, <2>1 DEF Counted, e
<1>8. CASE x \notin Exclusive
  <2>1. IsFiniteSet(g.inside \cup {x}) /\ Cardinality(g.inside \cup {x}) = g.holders + 1
    BY <1>6, FS_AddElement
  <2>2. e.holders \in Nat /\ e.holders # -1
    BY <1>4, <1>5, <1>6, <1>8
  <2>. QED
    BY <1>4, <1>5, <1>6, <1>8, <2>1, <2>2 DEF Counted, e
<1>. QED
  BY <1>7, <1>8

\* pump() lets in whom it may, and leaves nobody it might have let in.
LEMMA PumpCorrect ==
  ASSUME NEW g, Counted(g), Apart(g)
  PROVE  Whole(Pump(g))
<1>. DEFINE q == g.waiting
            h == Head(q)
<1>1. /\ g \in Gates /\ g.holders \in Int /\ g.inside \subseteq Callers
      /\ q \in Seq(Callers) /\ Len(q) \in Nat
  BY DEF Counted, Gates
<1>2. CASE q = <<>> \/ ~Admits(g, h)
  BY <1>2 DEF Pump, Pumped, Whole
<1>3. CASE q # <<>> /\ Admits(g, h) /\ h \in Exclusive
  <2>. DEFINE t == [g EXCEPT !.waiting = Tail(q)]
              p == Enter(t, h)
  <2>1. Pump(g) = p
    BY <1>3 DEF Pump
  <2>2. /\ t \in Gates /\ t.holders = g.holders /\ t.inside = g.inside /\ t.waiting = Tail(q)
    BY <1>1, <1>3 DEF Gates
  <2>3. /\ Len(q) >= 1 /\ h = q[1] /\ h \in Callers /\ Len(Tail(q)) = Len(q) - 1
        /\ \A i \in 1..(Len(q) - 1) : Tail(q)[i] = q[i + 1]
    BY <1>1, <1>3
  <2>4. h \notin g.inside
    BY <1>1, <2>3 DEF Apart
  <2>5. Counted(t)
    BY <2>2 DEF Counted
  <2>6. Admits(t, h)
    BY <1>3, <2>2 DEF Admits
  <2>. HIDE DEF t
  <2>7. h \in Callers /\ h \notin t.inside
    BY <2>2, <2>3, <2>4
  <2>. HIDE DEF h
  <2>8. /\ Counted(p) /\ p.waiting = t.waiting /\ p.inside = t.inside \cup {h}
        /\ h \in Exclusive => p.holders = -1
    BY <2>5, <2>6, <2>7, EnterCounts
  <2>9. Counted(p) /\ p.waiting = Tail(q) /\ p.inside = g.inside \cup {h} /\ p.holders = -1
    BY <1>3, <2>2, <2>8
  <2>. HIDE DEF p
  <2>10. \A i, j \in 1..Len(Tail(q)) : Tail(q)[i] = Tail(q)[j] => i = j
    BY <1>1, <2>3 DEF Apart
  <2>11. \A i \in 1..Len(Tail(q)) : Tail(q)[i] \notin g.inside \cup {h}
    BY <1>1, <2>3 DEF Apart
  <2>12. Apart(p)
    BY <2>9, <2>10, <2>11 DEF Apart
  <2>13. Pumped(p)
    BY <2>9 DEF Pumped, Admits
  <2>. QED
    BY <2>1, <2>9, <2>12, <2>13 DEF Whole
<1>4. CASE q # <<>> /\ Admits(g, h) /\ h \notin Exclusive
  <2>. DEFINE k == SharedLead(q)
              lead == {q[i] : i \in 1..k}
              rest == SubSeq(q, k + 1, Len(q))
              p == [holders |-> g.holders + k, waiting |-> rest, inside |-> g.inside \cup lead]
  <2>1. Pump(g) = p
    BY <1>4 DEF Pump
  <2>2. /\ k \in 0..Len(q) /\ \A i \in 1..k : q[i] \notin Exclusive
        /\ k < Len(q) => q[k + 1] \in Exclusive
    BY <1>1, SharedLeadIs
  <2>3. Len(q) >= 1 /\ h = q[1]
    BY <1>1, <1>4
  <2>. HIDE DEF k
  <2>4. k \in Nat /\ 1 <= k /\ k <= Len(q)
    BY <1>1, <1>4, <2>2, <2>3
  <2>5. /\ rest \in Seq(Callers) /\ Len(rest) = Len(q) - k
        /\ \A i \in 1..(Len(q) - k) : rest[i] = q[k + i]
    BY <1>1, <2>4
  <2>6. /\ g.holders \in Nat /\ g.inside \cap Exclusive = {}
        /\ IsFiniteSet(g.inside) /\ Cardinality(g.inside) = g.holders
    BY <1>4 DEF Counted, Admits
  <2>7. lead \subseteq Callers /\ lead \cap Exclusive = {} /\ g.inside \cap lead = {}
    BY <1>1, <2>2, <2>4 DEF Apart
  <2>8. IsFiniteSet(lead) /\ Cardinality(lead) = k
    <3>. DEFINE f == [i \in 1..k |-> q[i]]
    <3>1. f \in Bijection(1..k, lead)
      <4>1. f \in [1..k -> lead]
        OBVIOUS
      <4>2. \A i, j \in 1..k : f[i] = f[j] => i = j
        BY <1>1, <2>4 DEF Apart
      <4>3. \A y \in lead : \E i \in 1..k : f[i] = y
        OBVIOUS
      <4>. QED
        BY <4>1, <4>2, <4>3, Fun_IsBij
    <3>2. ExistsBijection(1..k, lead)
      BY <3>1 DEF ExistsBijection
    <3>. QED
      BY <2>4, <3>2, FS_CountingElements, FS_NatBijection
  <2>. HIDE DEF lead, rest
  <2>9. /\ IsFiniteSet(g.inside \cup lead)
        /\ Cardinality(g.inside \cup lead) = g.holders + k
    <3>1. Cardinality(g.inside \cap lead) = 0
      BY <2>7, FS_EmptySet
    <3>2. /\ IsFiniteSet(g.inside \cup lead)
          /\ Cardinality(g.inside \cup lead)
               = Cardinality(g.inside) + Cardinality(lead) - Cardinality(g.inside \cap lead)
      BY <2>6, <2>8, FS_Union
    <3>. QED
      BY <2>4, <2>6, <2>8, <3>1, <3>2
  <2>10. p \in Gates /\ p.holders \in Nat /\ p.holders >= 1
    BY <1>1, <2>4, <2>5, <2>6, <2>7 DEF Gates
  <2>11. Counted(p)
    BY <2>6, <2>7, <2>9, <2>10 DEF Counted
  <2>12. Apart(p)
    <3>1. ASSUME NEW i \in 1..Len(rest), NEW j \in 1..Len(rest), rest[i] = rest[j]
          PROVE  i = j
      <4>1. k + i \in 1..Len(q) /\ k + j \in 1..Len(q)
        BY <1>1, <2>4, <2>5
      <4>2. q[k + i] = q[k + j]
        BY <2>5, <3>1
      <4>3. k + i = k + j
        BY <4>1, <4>2 DEF Apart
      <4>. QED
        BY <2>4, <4>3
    <3>. HIDE DEF rest
    <3>2. ASSUME NEW i \in 1..Len(rest)
          PROVE  rest[i] = q[k + i] /\ k + i \in 1..Len(q) /\ k + i > k
      BY <1>1, <2>4, <2>5
    <3>3. ASSUME NEW i \in 1..Len(rest)
          PROVE  rest[i] \notin g.inside
      BY <3>2 DEF Apart
    <3>4. ASSUME NEW i \in 1..Len(rest)
          PROVE  rest[i] \notin lead
      <4>1. \A j \in 1..k : j \in 1..Len(q) /\ j # k + i
        BY <1>1, <2>4, <3>2
      <4>2. \A j \in 1..k : q[j] # q[k + i]
        BY <3>2, <4>1 DEF Apart
      <4>3. rest[i] = q[k + i]
        BY <3>2
      <4>. QED
        BY <4>2, <4>3 DEF lead
    <3>. QED
      BY <3>1, <3>3, <3>4 DEF Apart
  <2>13. Pumped(p)
    <3>1. ASSUME rest # <<>>
          PROVE  Head(rest) \in Exclusive
      <4>1. Len(rest) >= 1 /\ Head(rest) = rest[1]
        BY <2>5, <3>1
      <4>2. Len(q) \in Nat /\ Len(q) - k >= 1
        BY <1>1, <2>5, <4>1
      <4>3. k < Len(q) /\ 1 \in 1..(Len(q) - k)
        BY <2>4, <4>2
      <4>4. Head(rest) = q[k + 1]
        BY <2>5, <4>1, <4>3
      <4>. QED
        BY <2>2, <4>3, <4>4
    <3>. QED
      BY <2>10, <3>1 DEF Pumped, Admits
  <2>. QED
    BY <2>1, <2>11, <2>12, <2>13 DEF Whole
<1>. QED
  BY <1>2, <1>3, <1>4 DEF Whole

\* ... and forgets nobody.
LEMMA PumpKeepsMembers ==
  ASSUME NEW g, Counted(g)
  PROVE  Members(Pump(g)) = Members(g)
<1>. DEFINE q == g.waiting
            h == Head(q)
<1>1. /\ g \in Gates /\ g.inside \subseteq Callers
      /\ q \in Seq(Callers) /\ Len(q) \in Nat /\ DOMAIN q = 1..Len(q)
  BY DEF Counted, Gates
<1>2. CASE q = <<>> \/ ~Admits(g, h)
  BY <1>2 DEF Pump
<1>3. CASE q # <<>> /\ Admits(g, h)
  <2>. DEFINE k == IF h \in Exclusive THEN 1 ELSE SharedLead(q)
              rest == SubSeq(q, k + 1, Len(q))
  <2>1. Len(q) >= 1 /\ h = q[1] /\ Tail(q) = SubSeq(q, 2, Len(q))
    BY <1>1, <1>3
  <2>2. k \in Nat /\ k <= Len(q)
    BY <1>1, <2>1, SharedLeadIs
  <2>3. /\ Pump(g).inside = g.inside \cup {q[i] : i \in 1..k}
        /\ Pump(g).waiting = rest
    <3>1. CASE h \in Exclusive
      <4>. DEFINE t == [g EXCEPT !.waiting = Tail(q)]
      <4>1. Pump(g) = Enter(t, h)
        BY <1>3, <3>1 DEF Pump
      <4>2. Tail(q) \in Seq(Callers)
        BY <1>1, <1>3
      <4>3. t \in Gates /\ t.inside = g.inside /\ t.waiting = Tail(q)
        BY <1>1, <4>2 DEF Gates
      <4>. HIDE DEF t
      <4>4. Enter(t, h).inside = t.inside \cup {h} /\ Enter(t, h).waiting = t.waiting
        BY <4>3 DEF Enter, Gates
      <4>5. k = 1 /\ rest = Tail(q) /\ {q[i] : i \in 1..k} = {h}
        BY <2>1, <3>1
      <4>. HIDE DEF k, rest
      <4>. QED
        BY <4>1, <4>3, <4>4, <4>5
    <3>2. CASE h \notin Exclusive
      BY <1>3, <3>2 DEF Pump
    <3>. QED
      BY <3>1, <3>2
  <2>. HIDE DEF k
  <2>4. /\ rest \in Seq(Callers) /\ Len(rest) = Len(q) - k /\ DOMAIN rest = 1..(Len(q) - k)
        /\ \A i \in 1..(Len(q) - k) : rest[i] = q[k + i]
    BY <1>1, <2>2
  <2>. HIDE DEF rest
  <2>5. ASSUME NEW i \in 1..Len(q), ~(i \in 1..k) PROVE q[i] \in Queued(Pump(g))
    <3>1. i - k \in 1..(Len(q) - k) /\ k + (i - k) = i
      BY <1>1, <2>2, <2>5
    <3>. QED
      BY <2>3, <2>4, <3>1 DEF Queued
  <2>6. \A i \in DOMAIN rest : k + i \in DOMAIN q /\ rest[i] = q[k + i]
    BY <1>1, <2>2, <2>4
  <2>7. Queued(Pump(g)) \subseteq Queued(g)
    BY <2>3, <2>6 DEF Queued
  <2>8. {q[i] : i \in 1..k} \subseteq Queued(g)
    BY <1>1, <2>2 DEF Queued
  <2>9. Queued(g) \subseteq {q[i] : i \in 1..k} \cup Queued(Pump(g))
    BY <1>1, <2>5 DEF Queued
  <2>. QED
    BY <2>3, <2>7, <2>8, <2>9 DEF Members
<1>. QED
  BY <1>2, <1>3

-----------------------------------------------------------------------------
\* What the operations of the gate do to any gate that is whole.

\* A call that comes goes in, or to the end of the queue.
LEMMA AcquireKeepsWhole ==
  ASSUME NEW g, Whole(g), NEW x \in Callers, x \notin Members(g)
  PROVE  Whole(Acquire(g, x)) /\ Members(Acquire(g, x)) = Members(g) \cup {x}
<1>. DEFINE q == g.waiting
            a == Acquire(g, x)
<1>1. /\ g \in Gates /\ q \in Seq(Callers) /\ Len(q) \in Nat /\ DOMAIN q = 1..Len(q)
      /\ Counted(g) /\ Apart(g) /\ Pumped(g)
  BY DEF Whole, Counted, Gates
<1>2. x \notin g.inside /\ \A i \in 1..Len(q) : q[i] # x
  BY <1>1 DEF Members, Queued
<1>3. CASE q = <<>> /\ Admits(g, x)
  <2>1. a = Enter(g, x)
    BY <1>3 DEF Acquire
  <2>. HIDE DEF a
  <2>2. Counted(a) /\ a.waiting = <<>> /\ a.inside = g.inside \cup {x}
    BY <1>1, <1>2, <1>3, <2>1, EnterCounts
  <2>3. Apart(a) /\ Pumped(a)
    BY <2>2 DEF Apart, Pumped
  <2>4. Queued(a) = {} /\ Queued(g) = {}
    BY <1>1, <1>3, <2>2 DEF Queued
  <2>. QED
    BY <2>2, <2>3, <2>4 DEF Whole, Members, a
<1>4. CASE ~(q = <<>> /\ Admits(g, x))
  <2>1. a = [g EXCEPT !.waiting = Append(q, x)]
    BY <1>4 DEF Acquire
  <2>. HIDE DEF a
  <2>2. Append(q, x) \in Seq(Callers)
    BY <1>1
  <2>3. /\ a \in Gates /\ a.waiting = Append(q, x)
        /\ a.holders = g.holders /\ a.inside = g.inside
    BY <1>1, <2>1, <2>2 DEF Gates
  <2>4. /\ Len(Append(q, x)) = Len(q) + 1
        /\ DOMAIN Append(q, x) = 1..(Len(q) + 1)
        /\ \A i \in 1..Len(q) : Append(q, x)[i] = q[i]
        /\ Append(q, x)[Len(q) + 1] = x
    BY <1>1
  <2>5. Counted(a)
    BY <1>1, <2>3 DEF Counted
  <2>6. Apart(a)
    BY <1>1, <1>2, <2>3, <2>4 DEF Apart
  <2>7. Pumped(a)
    <3>1. CASE q = <<>>
      <4>1. Head(Append(q, x)) = x /\ ~Admits(g, x)
        BY <1>1, <1>4, <2>4, <3>1
      <4>. QED
        BY <2>3, <4>1 DEF Pumped, Admits
    <3>2. CASE q # <<>>
      <4>1. Head(Append(q, x)) = Head(q)
        BY <1>1, <2>4, <3>2
      <4>. QED
        BY <1>1, <2>3, <3>2, <4>1 DEF Pumped, Admits
    <3>. QED
      BY <3>1, <3>2
  <2>8. Queued(a) = Queued(g) \cup {x}
    <3>1. 1..(Len(q) + 1) = 1..Len(q) \cup {Len(q) + 1}
      BY <1>1
    <3>2. \A i \in 1..Len(q) : a.waiting[i] = q[i]
      BY <2>3, <2>4
    <3>3. a.waiting[Len(q) + 1] = x /\ DOMAIN a.waiting = 1..Len(q) \cup {Len(q) + 1}
      BY <2>3, <2>4, <3>1
    <3>. QED
      BY <1>1, <3>2, <3>3 DEF Queued
  <2>. QED
    BY <2>3, <2>5, <2>6, <2>7, <2>8 DEF Whole, Members, a
<1>. QED
  BY <1>3, <1>4

\* A call that gives up leaves the others in place.
LEMMA GiveUpKeepsWhole ==
  ASSUME NEW g, Whole(g), NEW x \in Callers
  PROVE  Whole(GiveUp(g, x)) /\ Members(GiveUp(g, x)) \subseteq Members(g)
<1>. DEFINE q == g.waiting
            r == RemoveFirst(q, x)
            h == [g EXCEPT !.waiting = r]
<1>1. /\ g \in Gates /\ q \in Seq(Callers) /\ Len(q) \in Nat /\ DOMAIN q = 1..Len(q)
      /\ Counted(g) /\ Apart(g)
  BY DEF Whole, Counted, Gates
<1>2. CASE x \notin Queued(g)
  BY <1>2 DEF GiveUp
<1>3. CASE x \in Queued(g)
  <2>1. GiveUp(g, x) = Pump(h)
    BY <1>3 DEF GiveUp
  <2>2. \E i \in DOMAIN q : q[i] = x
    BY <1>3 DEF Queued
  <2>3. PICK k \in 1..Len(q) :
          /\ r \in Seq(Callers) /\ Len(r) = Len(q) - 1
          /\ \A j \in 1..(Len(q) - 1) : r[j] = q[IF j < k THEN j ELSE j + 1]
    BY <1>1, <2>2, RemovedIs
  <2>. HIDE DEF r
  <2>4. /\ h \in Gates /\ h.waiting = r /\ h.holders = g.holders /\ h.inside = g.inside
        /\ DOMAIN r = 1..(Len(q) - 1)
    BY <1>1, <2>3 DEF Gates
  <2>5. Counted(h)
    BY <1>1, <2>4 DEF Counted
  <2>6. Apart(h)
    <3>. DEFINE spot(i) == IF i < k THEN i ELSE i + 1
    <3>1. ASSUME NEW i \in 1..(Len(q) - 1)
          PROVE  spot(i) \in 1..Len(q) /\ r[i] = q[spot(i)]
      BY <1>1, <2>3
    <3>2. ASSUME NEW i \in 1..(Len(q) - 1), NEW j \in 1..(Len(q) - 1), spot(i) = spot(j)
          PROVE  i = j
      BY <1>1, <3>2
    <3>. HIDE DEF spot
    <3>3. ASSUME NEW i \in 1..(Len(q) - 1), NEW j \in 1..(Len(q) - 1), r[i] = r[j]
          PROVE  i = j
      <4>1. spot(i) = spot(j)
        BY <1>1, <3>1, <3>3 DEF Apart
      <4>. QED
        BY <3>2, <4>1
    <3>4. ASSUME NEW i \in 1..(Len(q) - 1)
          PROVE  r[i] \notin g.inside
      BY <1>1, <3>1 DEF Apart
    <3>. QED
      BY <2>3, <2>4, <3>3, <3>4 DEF Apart
  <2>7. Queued(h) \subseteq Queued(g)
    <3>1. \A j \in DOMAIN r : (IF j < k THEN j ELSE j + 1) \in DOMAIN q
      BY <1>1, <2>3, <2>4
    <3>. QED
      BY <2>3, <2>4, <3>1 DEF Queued
  <2>. HIDE DEF h
  <2>8. Whole(Pump(h)) /\ Members(Pump(h)) = Members(h)
    BY <2>5, <2>6, PumpCorrect, PumpKeepsMembers
  <2>. QED
    BY <2>1, <2>4, <2>7, <2>8 DEF Members
<1>. QED
  BY <1>2, <1>3

\* A call that ends makes room.
LEMMA ReleaseKeepsWhole ==
  ASSUME NEW g, Whole(g), NEW x \in Callers, x \in g.inside
  PROVE  Whole(Release(g, x)) /\ Members(Release(g, x)) = Members(g) \ {x}
<1>. DEFINE n == IF x \in Exclusive THEN 0 ELSE g.holders - 1
            s == g.inside \ {x}
            h == [g EXCEPT !.holders = n, !.inside = s]
<1>1. /\ g \in Gates /\ g.holders \in Int /\ g.inside \in SUBSET Callers
      /\ g.waiting \in Seq(Callers) /\ Counted(g) /\ Apart(g)
  BY DEF Whole, Counted, Gates
<1>2. Release(g, x) = Pump(h)
  BY DEF Release
<1>3. n \in Nat /\ s \cap Exclusive = {} /\ IsFiniteSet(s) /\ Cardinality(s) = n
  <2>1. CASE x \in Exclusive
    <3>1. s = {}
      BY <1>1, <2>1 DEF Counted
    <3>. QED
      BY <2>1, <3>1, FS_EmptySet
  <2>2. CASE x \notin Exclusive
    <3>1. g.holders \in Nat /\ g.inside \cap Exclusive = {}
          /\ IsFiniteSet(g.inside) /\ Cardinality(g.inside) = g.holders
      BY <1>1, <2>2 DEF Counted
    <3>2. /\ IsFiniteSet(g.inside \ {x})
          /\ Cardinality(g.inside \ {x})
               = IF x \in g.inside THEN Cardinality(g.inside) - 1
                                   ELSE Cardinality(g.inside)
      BY <3>1, FS_RemoveElement
    <3>3. IsFiniteSet(s) /\ Cardinality(s) = g.holders - 1
      BY <1>1, <3>1, <3>2
    <3>4. Cardinality(s) \in Nat
      BY <3>3, FS_CardinalityType
    <3>. QED
      BY <2>2, <3>1, <3>3, <3>4
  <2>. QED
    BY <2>1, <2>2
<1>4. s \in SUBSET Callers /\ s \subseteq g.inside /\ n \in Int
  BY <1>1, <1>3
<1>. HIDE DEF n
<1>5. h \in Gates /\ h.waiting = g.waiting /\ h.holders = n /\ h.inside = s
  BY <1>1, <1>3, <1>4 DEF Gates
<1>6. Counted(h)
  BY <1>3, <1>5 DEF Counted
<1>7. Apart(h)
  BY <1>1, <1>4, <1>5 DEF Apart
<1>8. x \notin Queued(g)
  BY <1>1 DEF Apart, Queued
<1>. HIDE DEF h
<1>9. Whole(Pump(h)) /\ Members(Pump(h)) = Members(h)
  BY <1>6, <1>7, PumpCorrect, PumpKeepsMembers
<1>10. Queued(h) = Queued(g)
  BY <1>5 DEF Queued
<1>. QED
  BY <1>2, <1>5, <1>8, <1>9, <1>10 DEF Members

\* A gate that is whole is as the property says.
LEMMA WholeIsCorrect == Whole(gate) => GateIsCorrect
<1>. SUFFICES ASSUME Whole(gate) PROVE GateIsCorrect
  OBVIOUS
<1>1. Counted(gate) /\ gate.holders \in Int
  BY DEF Whole, Counted, Gates
<1>2. ExclusiveRunsAlone
  BY <1>1 DEF ExclusiveRunsAlone, Counted
<1>3. NoWaiterIsStranded
  BY DEF Whole, Pumped, NoWaiterIsStranded
<1>. QED
  BY <1>2, <1>3 DEF GateIsCorrect

LEMMA ShutIsWhole == Whole(Shut) /\ Members(Shut) = {}
<1>1. Counted(Shut)
  BY FS_EmptySet DEF Counted, Gates, Shut
<1>2. Apart(Shut) /\ Pumped(Shut) /\ Members(Shut) = {}
  BY DEF Apart, Pumped, Members, Queued, Shut
<1>. QED
  BY <1>1, <1>2 DEF Whole

\* For any calls and any history of arrivals, ends and aborts: an exclusive call is alone
\* inside the gate, and whoever waits could not be let in.
THEOREM GateAdmitsRight == GateSpec => []GateIsCorrect
<1>1. GateInit => Whole(gate)
  BY ShutIsWhole DEF GateInit
<1>2. Whole(gate) /\ [GateNext]_gate => Whole(gate)'
  <2>. SUFFICES ASSUME Whole(gate), [GateNext]_gate PROVE Whole(gate')
    BY DEF Whole, Counted, Apart, Pumped, Admits
  <2>1. CASE GateNext
    <3>1. PICK x \in Callers : Arrive(x) \/ Abort(x) \/ Depart(x)
      BY <2>1 DEF GateNext
    <3>2. CASE Arrive(x)
      BY <3>2, AcquireKeepsWhole DEF Arrive, Members
    <3>3. CASE Abort(x)
      BY <3>3, GiveUpKeepsWhole DEF Abort
    <3>4. CASE Depart(x)
      BY <3>4, ReleaseKeepsWhole DEF Depart
    <3>. QED
      BY <3>1, <3>2, <3>3, <3>4
  <2>2. CASE UNCHANGED gate
    BY <2>2
  <2>. QED
    BY <2>1, <2>2
<1>. QED
  BY <1>1, <1>2, WholeIsCorrect, PTL DEF GateSpec

-----------------------------------------------------------------------------
\* What a fold does to the gate: it goes through the sequence, one operation after another.

LeaveIf(S, g, x) == IF x \in S THEN GiveUp(g, x) ELSE g
AllLeave(S, g, q) == FoldLeft(LAMBDA h, x : IF x \in S THEN GiveUp(h, x) ELSE h, g, q)
AllAcquire(g, q) == FoldLeft(Acquire, g, q)

Op(kind, S, g, x) == IF kind = "leave" THEN LeaveIf(S, g, x) ELSE Acquire(g, x)

\* f is the recursive function by which a fold over n elements is defined.
IsFold(f, kind, S, g, q, n) ==
  f = [s \in SUBSET (1..n) |->
         IF s = {} THEN g ELSE Op(kind, S, f[s \ {Max(s)}], q[Max(s)])]

LEMMA FoldExists ==
  ASSUME NEW kind, NEW S, NEW g, NEW q, NEW n \in Nat
  PROVE  \E f : IsFold(f, kind, S, g, q, n)
<1>. DEFINE Is(f, k) == IsFold(f, kind, S, g, q, k)
            B == {k \in Nat : ~\E f : Is(f, k)}
<1>1. \E f : Is(f, 0)
  <2>1. Is([s \in SUBSET (1..0) |-> g], 0)
    BY 1..0 = {} DEF IsFold
  <2>. QED
    BY <2>1
<1>2. ASSUME NEW k \in Nat, \E f : Is(f, k)
      PROVE  \E f : Is(f, k + 1)
  <2>1. PICK f : Is(f, k)
    BY <1>2
  <2>. DEFINE e == [s \in SUBSET (1..(k + 1)) |->
                      IF k + 1 \in s THEN Op(kind, S, f[s \ {k + 1}], q[k + 1]) ELSE f[s]]
              F(s) == IF s = {} THEN g ELSE Op(kind, S, e[s \ {Max(s)}], q[Max(s)])
  <2>2. 1..(k + 1) = 1..k \cup {k + 1} /\ k + 1 \notin 1..k
    OBVIOUS
  <2>3. ASSUME NEW s \in SUBSET (1..k)
        PROVE  s \in SUBSET (1..(k + 1)) /\ e[s] = f[s] /\ k + 1 \notin s
    BY <2>2
  <2>4. ASSUME NEW s \in SUBSET (1..(k + 1)), k + 1 \in s
        PROVE  Max(s) = k + 1 /\ s \ {k + 1} \in SUBSET (1..k)
    <3>1. k + 1 \in s /\ \A y \in s : y \in Nat /\ k + 1 >= y
      BY <2>4
    <3>2. \A m \in s : (\A y \in s : m >= y) => m = k + 1
      BY <3>1
    <3>3. (CHOOSE m \in s : \A y \in s : m >= y) = k + 1
      BY <3>1, <3>2
    <3>. QED
      BY <2>2, <3>3 DEF Max
  <2>. HIDE DEF e
  <2>5. ASSUME NEW s \in SUBSET (1..(k + 1))
        PROVE  e[s] = F(s)
    <3>1. CASE k + 1 \in s
      <4>1. s # {} /\ e[s] = Op(kind, S, f[s \ {k + 1}], q[k + 1])
        BY <3>1 DEF e
      <4>. QED
        BY <2>3, <2>4, <3>1, <4>1
    <3>2. CASE k + 1 \notin s
      <4>1. s \in SUBSET (1..k) /\ s \ {Max(s)} \in SUBSET (1..k)
        BY <2>2, <3>2
      <4>2. e[s] = f[s] /\ e[s \ {Max(s)}] = f[s \ {Max(s)}]
        BY <2>3, <4>1
      <4>3. f[s] = IF s = {} THEN g ELSE Op(kind, S, f[s \ {Max(s)}], q[Max(s)])
        BY <2>1, <4>1 DEF IsFold
      <4>. QED
        BY <4>2, <4>3
    <3>. QED
      BY <3>1, <3>2
  <2>6. e = [s \in SUBSET (1..(k + 1)) |-> e[s]]
    BY DEF e
  <2>7. Is(e, k + 1)
    BY <2>5, <2>6 DEF IsFold
  <2>. QED
    BY <2>7
<1>. HIDE DEF Is
<1>3. B = {}
  <2>. SUFFICES ASSUME B # {} PROVE FALSE
    OBVIOUS
  <2>1. PICK m \in B : \A k \in B : m <= k
    BY LeastNatural
  <2>2. m # 0
    BY <1>1
  <2>3. m - 1 \in Nat /\ m - 1 \notin B
    BY <2>1, <2>2
  <2>. QED
    BY <1>2, <2>1, <2>3
<1>4. \E f : Is(f, n)
  BY <1>3
<1>. QED
  BY <1>4 DEF Is

\* Its value, one element at a time.
LEMMA FoldSteps ==
  ASSUME NEW kind, NEW S, NEW g, NEW q, NEW n \in Nat, NEW iter, IsFold(iter, kind, S, g, q, n)
  PROVE  iter[1..0] = g /\ \A i \in 1..n : iter[1..i] = Op(kind, S, iter[1..(i - 1)], q[i])
<1>1. iter[1..0] = g
  BY 1..0 = {}, {} \in SUBSET (1..n) DEF IsFold
<1>2. ASSUME NEW i \in 1..n
      PROVE  iter[1..i] = Op(kind, S, iter[1..(i - 1)], q[i])
  <2>1. /\ 1..i \subseteq 1..n /\ i \in 1..i /\ (1..i) \ {i} = 1..(i - 1)
        /\ \A y \in 1..i : i >= y
    OBVIOUS
  <2>2. \A m \in 1..i : (\A y \in 1..i : m >= y) => m = i
    BY <2>1
  <2>3. Max(1..i) = i
    BY <2>1, <2>2 DEF Max
  <2>4. 1..i \in SUBSET (1..n) /\ 1..i # {}
    BY <2>1
  <2>. QED
    BY <2>1, <2>3, <2>4 DEF IsFold
<1>. QED
  BY <1>1, <1>2

LEMMA LeavesFold ==
  ASSUME NEW S, NEW g, NEW q \in Seq(Callers)
  PROVE  \E r : /\ r[0] = g /\ r[Len(q)] = AllLeave(S, g, q)
                /\ \A i \in 1..Len(q) : r[i] = LeaveIf(S, r[i - 1], q[i])
<1>. DEFINE Is(f) == f = [s \in SUBSET DOMAIN q |->
                            IF s = {} THEN g ELSE LeaveIf(S, f[s \ {Max(s)}], q[Max(s)])]
            iter == CHOOSE f : Is(f)
<1>1. Len(q) \in Nat /\ DOMAIN q = 1..Len(q)
  OBVIOUS
<1>2. AllLeave(S, g, q) = iter[DOMAIN q]
  BY Zenon DEF AllLeave, LeaveIf, FoldLeft, MapThenFoldSet
<1>3. PICK f : IsFold(f, "leave", S, g, q, Len(q))
  BY <1>1, FoldExists
<1>4. Is(f)
  BY <1>1, <1>3 DEF Op, IsFold
<1>5. Is(iter)
  BY <1>4, Zenon
<1>. HIDE DEF iter
<1>6. IsFold(iter, "leave", S, g, q, Len(q))
  BY <1>1, <1>5 DEF Op, IsFold
<1>7. /\ iter[1..0] = g
      /\ \A i \in 1..Len(q) : iter[1..i] = Op("leave", S, iter[1..(i - 1)], q[i])
  BY <1>1, <1>6, FoldSteps
<1>. DEFINE r == [i \in 0..Len(q) |-> iter[1..i]]
<1>8. \A i \in 1..Len(q) : r[i] = LeaveIf(S, r[i - 1], q[i])
  <2>. TAKE i \in 1..Len(q)
  <2>1. i \in 0..Len(q) /\ i - 1 \in 0..Len(q)
    BY <1>1
  <2>. QED
    BY <1>7, <2>1 DEF Op
<1>9. r[0] = g /\ r[Len(q)] = iter[DOMAIN q]
  BY <1>1, <1>7
<1>. QED
  BY <1>2, <1>8, <1>9, Zenon

LEMMA AcquiresFold ==
  ASSUME NEW g, NEW q \in Seq(Callers)
  PROVE  \E r : /\ r[0] = g /\ r[Len(q)] = AllAcquire(g, q)
                /\ \A i \in 1..Len(q) : r[i] = Acquire(r[i - 1], q[i])
<1>. DEFINE Is(f) == f = [s \in SUBSET DOMAIN q |->
                            IF s = {} THEN g ELSE Acquire(f[s \ {Max(s)}], q[Max(s)])]
            iter == CHOOSE f : Is(f)
<1>1. Len(q) \in Nat /\ DOMAIN q = 1..Len(q)
  OBVIOUS
<1>2. AllAcquire(g, q) = iter[DOMAIN q]
  BY Zenon DEF AllAcquire, FoldLeft, MapThenFoldSet
<1>3. PICK f : IsFold(f, "acquire", {}, g, q, Len(q))
  BY <1>1, FoldExists
<1>4. Is(f)
  BY <1>1, <1>3 DEF Op, IsFold
<1>5. Is(iter)
  BY <1>4, Zenon
<1>. HIDE DEF iter
<1>6. IsFold(iter, "acquire", {}, g, q, Len(q))
  BY <1>1, <1>5 DEF Op, IsFold
<1>7. /\ iter[1..0] = g
      /\ \A i \in 1..Len(q) : iter[1..i] = Op("acquire", {}, iter[1..(i - 1)], q[i])
  BY <1>1, <1>6, FoldSteps
<1>. DEFINE r == [i \in 0..Len(q) |-> iter[1..i]]
<1>8. \A i \in 1..Len(q) : r[i] = Acquire(r[i - 1], q[i])
  <2>. TAKE i \in 1..Len(q)
  <2>1. i \in 0..Len(q) /\ i - 1 \in 0..Len(q)
    BY <1>1
  <2>. QED
    BY <1>7, <2>1 DEF Op
<1>9. r[0] = g /\ r[Len(q)] = iter[DOMAIN q]
  BY <1>1, <1>7
<1>. QED
  BY <1>2, <1>8, <1>9, Zenon

LEMMA LeavesKeepWhole ==
  ASSUME NEW S, NEW g, Whole(g), NEW q \in Seq(Callers)
  PROVE  /\ Whole(AllLeave(S, g, q))
         /\ Members(AllLeave(S, g, q)) \subseteq Members(g)
<1>1. PICK r : /\ r[0] = g /\ r[Len(q)] = AllLeave(S, g, q)
               /\ \A i \in 1..Len(q) : r[i] = LeaveIf(S, r[i - 1], q[i])
  BY LeavesFold
<1>. DEFINE Fits(i) == Whole(r[i]) /\ Members(r[i]) \subseteq Members(g)
            B == {i \in 0..Len(q) : ~Fits(i)}
<1>2. Len(q) \in Nat /\ \A i \in 1..Len(q) : q[i] \in Callers
  OBVIOUS
<1>3. Fits(0)
  BY <1>1
<1>4. ASSUME NEW i \in 1..Len(q), Fits(i - 1)
      PROVE  Fits(i)
  <2>1. r[i] = LeaveIf(S, r[i - 1], q[i]) /\ q[i] \in Callers
    BY <1>1, <1>2
  <2>. QED
    BY <1>4, <2>1, GiveUpKeepsWhole DEF LeaveIf
<1>. HIDE DEF Fits
<1>5. Fits(Len(q))
  <2>. SUFFICES ASSUME ~Fits(Len(q)) PROVE FALSE
    OBVIOUS
  <2>1. B # {} /\ B \subseteq Nat
    BY <1>2
  <2>2. PICK m \in B : \A i \in B : m <= i
    BY <2>1, LeastNatural
  <2>3. m \in 1..Len(q) /\ m - 1 \in 0..Len(q) /\ m - 1 \notin B
    BY <1>2, <1>3, <2>2
  <2>. QED
    BY <1>4, <2>2, <2>3
<1>. QED
  BY <1>1, <1>5, Zenon DEF Fits

LEMMA AcquiresKeepWhole ==
  ASSUME NEW g, Whole(g), NEW q \in Seq(Callers),
         \A i, j \in 1..Len(q) : q[i] = q[j] => i = j,
         \A i \in 1..Len(q) : q[i] \notin Members(g)
  PROVE  /\ Whole(AllAcquire(g, q))
         /\ Members(AllAcquire(g, q)) = Members(g) \cup {q[i] : i \in 1..Len(q)}
<1>1. PICK r : /\ r[0] = g /\ r[Len(q)] = AllAcquire(g, q)
               /\ \A i \in 1..Len(q) : r[i] = Acquire(r[i - 1], q[i])
  BY AcquiresFold
<1>. DEFINE Fits(i) == /\ Whole(r[i])
                       /\ Members(r[i]) = Members(g) \cup {q[j] : j \in 1..i}
            B == {i \in 0..Len(q) : ~Fits(i)}
<1>2. Len(q) \in Nat /\ \A i \in 1..Len(q) : q[i] \in Callers
  OBVIOUS
<1>3. Fits(0)
  BY <1>1
<1>4. ASSUME NEW i \in 1..Len(q), Fits(i - 1)
      PROVE  Fits(i)
  <2>1. r[i] = Acquire(r[i - 1], q[i]) /\ q[i] \in Callers
    BY <1>1, <1>2
  <2>2. q[i] \notin Members(r[i - 1])
    BY <1>2, <1>4
  <2>3. Whole(r[i]) /\ Members(r[i]) = Members(r[i - 1]) \cup {q[i]}
    BY <1>4, <2>1, <2>2, AcquireKeepsWhole
  <2>4. 1..i = 1..(i - 1) \cup {i}
    BY <1>2
  <2>. QED
    BY <1>4, <2>3, <2>4
<1>. HIDE DEF Fits
<1>5. Fits(Len(q))
  <2>. SUFFICES ASSUME ~Fits(Len(q)) PROVE FALSE
    OBVIOUS
  <2>1. B # {} /\ B \subseteq Nat
    BY <1>2
  <2>2. PICK m \in B : \A i \in B : m <= i
    BY <2>1, LeastNatural
  <2>3. m \in 1..Len(q) /\ m - 1 \in 0..Len(q) /\ m - 1 \notin B
    BY <1>2, <1>3, <2>2
  <2>. QED
    BY <1>4, <2>2, <2>3
<1>. QED
  BY <1>1, <1>5, Zenon DEF Fits

-----------------------------------------------------------------------------
\* The invariant of code mode.

\* What a cell holds are its calls that wait for a driver, each once.
HeldFit ==
  /\ held \in [Cells -> Seq(Nested)]
  /\ \A c \in Cells :
       /\ \A i, j \in 1..Len(held[c]) : held[c][i] = held[c][j] => i = j
       /\ \A i \in 1..Len(held[c]) : at[held[c][i]] = "held" /\ owner[held[c][i]] = c
  /\ \A x \in Callers :
       at[x] = "held" => x \in Nested /\ \E i \in 1..Len(held[owner[x]]) : held[owner[x]][i] = x

\* Nothing is driven once the run closes, and nothing is left when it is over.
RunFits ==
  /\ run \in {"closing", "idle"} => (\A c \in Cells : driver[c] = "none") /\ Live \cap Direct = {}
  /\ run = "idle" => Live = {}

\* A cell is collected when its calls are settled and their records told.
RecordsFit ==
  \A x \in Nested :
    /\ record[x] # "none" => at[x] = "done"
    /\ record[x] = "kept" \/ at[x] = "live" => status[owner[x]] # "collected"

CodeInv == CodeModeTypeOK /\ Whole(gate) /\ HeldFit /\ RunFits /\ RecordsFit

LEMMA AbortedKeepsWhole ==
  ASSUME NEW g, Whole(g), NEW S
  PROVE  Whole(Aborted(g, S)) /\ Members(Aborted(g, S)) \subseteq Members(g)
<1>1. ASSUME NEW h, Whole(h), NEW T
      PROVE  Whole(Leave(h, T)) /\ Members(Leave(h, T)) \subseteq Members(h)
  <2>1. h.waiting \in Seq(Callers)
    BY <1>1 DEF Whole, Counted, Gates
  <2>2. Leave(h, T) = AllLeave(T, h, h.waiting)
    BY Zenon DEF Leave, AllLeave
  <2>. QED
    BY <1>1, <2>1, <2>2, LeavesKeepWhole
<1>. DEFINE h == Leave(g, S \ Nested)
<1>2. Whole(h) /\ Members(h) \subseteq Members(g)
  BY <1>1
<1>. HIDE DEF h
<1>3. Aborted(g, S) = Leave(h, S \cap Nested)
  BY DEF Aborted, h
<1>. QED
  BY <1>1, <1>2, <1>3

LEMMA HeldCalls ==
  ASSUME HeldFit, NEW c \in Cells
  PROVE  /\ held[c] \in Seq(Nested) /\ held[c] \in Seq(Callers) /\ Len(held[c]) \in Nat
         /\ \A i, j \in 1..Len(held[c]) : held[c][i] = held[c][j] => i = j
         /\ \A i \in 1..Len(held[c]) :
              /\ held[c][i] \in Nested /\ held[c][i] \in Callers
              /\ at[held[c][i]] = "held" /\ owner[held[c][i]] = c
<1>1. held[c] \in Seq(Nested) /\ Nested \subseteq Callers
  BY CodeModeConstants DEF HeldFit
<1>2. held[c] \in Seq(Callers) /\ Len(held[c]) \in Nat
  BY <1>1
<1>3. \A i \in 1..Len(held[c]) : held[c][i] \in Nested /\ held[c][i] \in Callers
  BY <1>1
<1>. QED
  BY <1>1, <1>2, <1>3 DEF HeldFit

\* No call is held that was not, and none that was is not.
LEMMA HeldKept ==
  ASSUME HeldFit, UNCHANGED <<held, owner>>, \A x \in Callers : at'[x] = "held" <=> at[x] = "held"
  PROVE  HeldFit'
<1>1. \A c \in Cells : \A i \in 1..Len(held[c]) : held[c][i] \in Callers
  BY HeldCalls
<1>. QED
  BY <1>1 DEF HeldFit

\* A step that leaves the calls and the gate as they are.
LEMMA CallsKept ==
  ASSUME CodeInv, UNCHANGED <<gate, at, held, owner>>
  PROVE  Whole(gate)' /\ HeldFit' /\ Live' = Live /\ Live' = gate'.inside \cup Queued(gate')
<1>1. gate' = gate /\ at' = at /\ held' = held /\ owner' = owner
  OBVIOUS
<1>2. Whole(gate)'
  BY <1>1 DEF CodeInv, Whole, Counted, Apart, Pumped, Admits
<1>3. HeldFit'
  BY <1>1 DEF CodeInv, HeldFit
<1>4. Live' = Live
  BY <1>1 DEF Live
<1>. QED
  BY <1>1, <1>2, <1>3, <1>4 DEF CodeInv, CodeModeTypeOK

\* Records that are told are neither kept nor new.
LEMMA ToldRecords ==
  ASSUME CodeInv, NEW S, Told(S)
  PROVE  /\ record' \in [Nested -> {"none", "kept", "told"}]
         /\ \A x \in Nested : /\ record'[x] # "none" => record[x] # "none"
                              /\ record'[x] = "kept" => record[x] = "kept" /\ owner[x] \notin S
BY DEF Told, CodeInv, CodeModeTypeOK

LEMMA BeginRunStep ==
  ASSUME CodeInv, BeginRun
  PROVE  CodeInv'
<1>1. UNCHANGED <<gate, at, held, owner>>
  BY DEF BeginRun
<1>2. Whole(gate)' /\ HeldFit' /\ Live' = Live /\ Live' = gate'.inside \cup Queued(gate')
  BY <1>1, CallsKept
<1>3. CodeModeTypeOK'
  BY <1>1, <1>2 DEF BeginRun, CodeInv, CodeModeTypeOK
<1>4. RunFits'
  BY DEF BeginRun, RunFits
<1>5. RecordsFit'
  BY DEF BeginRun, CodeInv, RecordsFit
<1>. QED
  BY <1>2, <1>3, <1>4, <1>5 DEF CodeInv

LEMMA EndBatchStep ==
  ASSUME CodeInv, EndBatch
  PROVE  CodeInv'
<1>1. UNCHANGED <<gate, at, held, owner>>
  BY DEF EndBatch
<1>2. Whole(gate)' /\ HeldFit' /\ Live' = Live /\ Live' = gate'.inside \cup Queued(gate')
  BY <1>1, CallsKept
<1>3. CodeModeTypeOK'
  BY <1>1, <1>2 DEF EndBatch, CodeInv, CodeModeTypeOK
<1>4. RunFits'
  BY DEF EndBatch, RunFits
<1>5. RecordsFit'
  BY DEF EndBatch, CodeInv, RecordsFit
<1>. QED
  BY <1>2, <1>3, <1>4, <1>5 DEF CodeInv

\* The calls of a batch are over when the run closes, and so are all drivers.
LEMMA CloseRunStep ==
  ASSUME CodeInv, CloseRun
  PROVE  CodeInv'
<1>1. UNCHANGED <<gate, at, held, owner>>
  BY DEF CloseRun
<1>2. Whole(gate)' /\ HeldFit' /\ Live' = Live /\ Live' = gate'.inside \cup Queued(gate')
  BY <1>1, CallsKept
<1>3. CodeModeTypeOK'
  BY <1>1, <1>2 DEF CloseRun, DriversAfterClose, CodeInv, CodeModeTypeOK
<1>4. RunFits'
  BY <1>2 DEF CloseRun, BatchOver, DriversAfterClose, RunFits
<1>5. RecordsFit'
  BY DEF CloseRun, CodeInv, RecordsFit
<1>. QED
  BY <1>2, <1>3, <1>4, <1>5 DEF CodeInv

LEMMA EndRunStep ==
  ASSUME CodeInv, EndRun
  PROVE  CodeInv'
<1>1. UNCHANGED <<gate, at, held, owner>>
  BY DEF EndRun
<1>2. Whole(gate)' /\ HeldFit' /\ Live' = Live /\ Live' = gate'.inside \cup Queued(gate')
  BY <1>1, CallsKept
<1>3. CodeModeTypeOK'
  BY <1>1, <1>2 DEF EndRun, CodeInv, CodeModeTypeOK
<1>4. RunFits'
  <2>1. Live \subseteq Callers /\ Live \cap Direct = {} /\ Live \cap Nested = {}
    BY DEF EndRun, CodeInv, RunFits, Live
  <2>2. Live = {}
    BY <2>1 DEF Direct
  <2>. QED
    BY <1>2, <2>2 DEF EndRun, CodeInv, RunFits
<1>5. RecordsFit'
  BY DEF EndRun, CodeInv, RecordsFit
<1>. QED
  BY <1>2, <1>3, <1>4, <1>5 DEF CodeInv

LEMMA ExecStep ==
  ASSUME CodeInv, NEW c \in Cells, Exec(c)
  PROVE  CodeInv'
<1>1. UNCHANGED <<gate, at, held, owner>>
  BY DEF Exec
<1>2. Whole(gate)' /\ HeldFit' /\ Live' = Live /\ Live' = gate'.inside \cup Queued(gate')
  BY <1>1, CallsKept
<1>3. PICK evicted \in SUBSET Kept :
        /\ status' = [d \in Cells |-> IF d \in evicted THEN "discarded"
                                      ELSE IF d = c THEN "running" ELSE status[d]]
        /\ driver' = [d \in Cells |-> IF d \in evicted THEN "none"
                                      ELSE IF d = c THEN "batch" ELSE driver[d]]
  BY DEF Exec
<1>4. CodeModeTypeOK'
  BY <1>1, <1>2, <1>3 DEF Exec, CodeInv, CodeModeTypeOK
<1>5. RunFits'
  BY DEF Exec, Turn, Batching, RunFits
<1>6. RecordsFit'
  BY <1>3 DEF Exec, CodeInv, CodeModeTypeOK, RecordsFit
<1>. QED
  BY <1>2, <1>4, <1>5, <1>6 DEF CodeInv

LEMMA CollectStep ==
  ASSUME CodeInv, NEW c \in Cells, Collect(c)
  PROVE  CodeInv'
<1>1. UNCHANGED <<gate, at, held, owner>>
  BY DEF Collect
<1>2. Whole(gate)' /\ HeldFit' /\ Live' = Live /\ Live' = gate'.inside \cup Queued(gate')
  BY <1>1, CallsKept
<1>3. CodeModeTypeOK'
  BY <1>1, <1>2 DEF Collect, CodeInv, CodeModeTypeOK
<1>4. RunFits'
  BY DEF Collect, Turn, Batching, RunFits
<1>5. RecordsFit'
  BY DEF Collect, CodeInv, RecordsFit
<1>. QED
  BY <1>2, <1>3, <1>4, <1>5 DEF CodeInv

LEMMA DiscardStep ==
  ASSUME CodeInv, NEW c \in Cells, Discard(c)
  PROVE  CodeInv'
<1>1. UNCHANGED <<gate, at, held, owner>> /\ Told({c})
  BY DEF Discard
<1>2. Whole(gate)' /\ HeldFit' /\ Live' = Live /\ Live' = gate'.inside \cup Queued(gate')
  BY <1>1, CallsKept
<1>3. /\ record' \in [Nested -> {"none", "kept", "told"}]
      /\ \A x \in Nested : /\ record'[x] # "none" => record[x] # "none"
                           /\ record'[x] = "kept" => record[x] = "kept" /\ owner[x] \notin {c}
  BY <1>1, ToldRecords
<1>4. CodeModeTypeOK'
  BY <1>1, <1>2, <1>3 DEF Discard, CodeInv, CodeModeTypeOK
<1>5. RunFits'
  BY DEF Discard, Turn, Batching, RunFits
<1>6. RecordsFit'
  BY <1>1, <1>3 DEF Discard, CodeInv, CodeModeTypeOK, RecordsFit
<1>. QED
  BY <1>2, <1>4, <1>5, <1>6 DEF CodeInv

LEMMA YieldStep ==
  ASSUME CodeInv, NEW c \in Cells, Yield(c)
  PROVE  CodeInv'
<1>1. UNCHANGED <<gate, at, held, owner>> /\ Told({c})
  BY DEF Yield
<1>2. Whole(gate)' /\ HeldFit' /\ Live' = Live /\ Live' = gate'.inside \cup Queued(gate')
  BY <1>1, CallsKept
<1>3. /\ record' \in [Nested -> {"none", "kept", "told"}]
      /\ \A x \in Nested : /\ record'[x] # "none" => record[x] # "none"
                           /\ record'[x] = "kept" => record[x] = "kept" /\ owner[x] \notin {c}
  BY <1>1, ToldRecords
<1>4. CodeModeTypeOK'
  BY <1>1, <1>2, <1>3 DEF Yield, CodeInv, CodeModeTypeOK
<1>5. RunFits'
  BY <1>2 DEF Yield, CodeInv, RunFits
<1>6. RecordsFit'
  BY <1>1, <1>3 DEF Yield, CodeInv, RecordsFit
<1>. QED
  BY <1>2, <1>4, <1>5, <1>6 DEF CodeInv

\* The cell is collected once its calls are settled, with all they have recorded.
LEMMA DriveReturnsStep ==
  ASSUME CodeInv, NEW c \in Cells, DriveReturns(c)
  PROVE  CodeInv'
<1>1. UNCHANGED <<gate, at, held, owner>> /\ Told({c})
  BY DEF DriveReturns
<1>2. Whole(gate)' /\ HeldFit' /\ Live' = Live /\ Live' = gate'.inside \cup Queued(gate')
  BY <1>1, CallsKept
<1>3. /\ record' \in [Nested -> {"none", "kept", "told"}]
      /\ \A x \in Nested : /\ record'[x] # "none" => record[x] # "none"
                           /\ record'[x] = "kept" => record[x] = "kept" /\ owner[x] \notin {c}
  BY <1>1, ToldRecords
<1>4. CodeModeTypeOK'
  BY <1>1, <1>2, <1>3 DEF DriveReturns, CodeInv, CodeModeTypeOK
<1>5. RunFits'
  BY <1>2 DEF DriveReturns, CodeInv, RunFits
<1>6. RecordsFit'
  <2>1. \A x \in Nested : at[x] = "live" => owner[x] # c
    BY CodeModeConstants DEF DriveReturns, Settled, InFlight, Live
  <2>. QED
    BY <1>1, <1>3, <2>1 DEF DriveReturns, CodeInv, CodeModeTypeOK, RecordsFit
<1>. QED
  BY <1>2, <1>4, <1>5, <1>6 DEF CodeInv

\* Signals are aborted: calls that give up are over, and the others stay where they are.
LEMMA ThroughSettles ==
  ASSUME CodeInv, NEW g, Whole(g), Members(g) \subseteq Members(gate), Through(g),
         UNCHANGED <<held, owner>>
  PROVE  /\ Whole(gate)' /\ HeldFit'
         /\ at' \in [Callers -> {"free", "held", "live", "done"}]
         /\ Live' = gate'.inside \cup Queued(gate') /\ Live' \subseteq Live
         /\ \A x \in Callers : at'[x] = at[x] \/ (at[x] = "live" /\ at'[x] = "done")
<1>1. gate' = g /\ held' = held /\ owner' = owner
  BY DEF Through
<1>2. at' = [x \in Callers |->
               IF at[x] = "live" /\ x \notin Members(g) THEN "done" ELSE at[x]]
  BY Zenon DEF Through, Members
<1>3. Whole(gate)'
  BY <1>1 DEF Whole, Counted, Apart, Pumped, Admits
<1>4. /\ at' \in [Callers -> {"free", "held", "live", "done"}]
      /\ \A x \in Callers : at'[x] = at[x] \/ (at[x] = "live" /\ at'[x] = "done")
  <2>1. at \in [Callers -> {"free", "held", "live", "done"}]
    BY DEF CodeInv, CodeModeTypeOK
  <2>. QED
    BY <1>2, <2>1
<1>5. Live = Members(gate)
  BY DEF CodeInv, CodeModeTypeOK, Members
<1>6. Live' = {x \in Live : x \in Members(g)}
  BY <1>2 DEF Live
<1>7. Live' = Members(g)
  BY <1>5, <1>6
<1>8. HeldFit'
  BY <1>1, <1>4, HeldKept DEF CodeInv
<1>. QED
  BY <1>1, <1>3, <1>4, <1>5, <1>7, <1>8 DEF Members

LEMMA TerminatedCells ==
  ASSUME CodeInv, NEW S, S \subseteq Running, Terminated(S)
  PROVE  /\ status' \in [Cells -> {"new", "running", "ended", "terminated", "collected",
                                   "discarded"}]
         /\ awaited' \in [Cells -> BOOLEAN]
         /\ \A c \in Cells : status'[c] = "collected" => status[c] = "collected"
         /\ record' \in [Nested -> {"none", "kept", "told"}]
         /\ \A x \in Nested : /\ record'[x] # "none" => record[x] # "none"
                              /\ record'[x] = "kept" => record[x] = "kept"
<1>1. Told({c \in S : awaited[c]})
  BY DEF Terminated
<1>2. /\ record' \in [Nested -> {"none", "kept", "told"}]
      /\ \A x \in Nested : /\ record'[x] # "none" => record[x] # "none"
                           /\ record'[x] = "kept" => record[x] = "kept"
  BY <1>1, ToldRecords
<1>3. status' = [c \in Cells |-> IF c \notin S THEN status[c]
                                 ELSE IF awaited[c] THEN "discarded" ELSE "terminated"]
  BY DEF Terminated
<1>4. awaited' = [c \in Cells |-> awaited[c] /\ c \notin S]
  BY DEF Terminated
<1>5. awaited' \in [Cells -> BOOLEAN]
  BY <1>4, Zenon
<1>. QED
  BY <1>2, <1>3, <1>5 DEF CodeInv, CodeModeTypeOK

\* Records and cells go with their calls, which are settled.
LEMMA RecordsKept ==
  ASSUME CodeInv, owner' = owner,
         \A x \in Callers : at'[x] = at[x] \/ (at[x] = "live" /\ at'[x] = "done"),
         \A c \in Cells : status'[c] = "collected" => status[c] = "collected",
         \A x \in Nested : /\ record'[x] # "none" => record[x] # "none"
                           /\ record'[x] = "kept" => record[x] = "kept"
  PROVE  RecordsFit'
BY CodeModeConstants DEF CodeInv, CodeModeTypeOK, RecordsFit

LEMMA InterruptBatchStep ==
  ASSUME CodeInv, InterruptBatch
  PROVE  CodeInv'
<1>. DEFINE g == Aborted(gate, batch)
            S == {c \in Running : awaited[c]}
<1>1. Whole(g) /\ Members(g) \subseteq Members(gate)
  BY AbortedKeepsWhole DEF CodeInv
<1>2. /\ Terminated(S) /\ Through(g) /\ run = "open" /\ run' = run /\ interrupted' = TRUE
      /\ UNCHANGED <<held, owner, batch>>
      /\ driver' = [c \in Cells |->
                      IF awaited[c] THEN "none"
                      ELSE IF driver[c] = "batch" THEN "aborted" ELSE driver[c]]
  BY DEF InterruptBatch, Batching
<1>. HIDE DEF g
<1>3. /\ Whole(gate)' /\ HeldFit'
      /\ at' \in [Callers -> {"free", "held", "live", "done"}]
      /\ Live' = gate'.inside \cup Queued(gate')
      /\ \A x \in Callers : at'[x] = at[x] \/ (at[x] = "live" /\ at'[x] = "done")
  BY <1>1, <1>2, ThroughSettles
<1>4. /\ status' \in [Cells -> {"new", "running", "ended", "terminated", "collected",
                                "discarded"}]
      /\ awaited' \in [Cells -> BOOLEAN]
      /\ \A c \in Cells : status'[c] = "collected" => status[c] = "collected"
      /\ record' \in [Nested -> {"none", "kept", "told"}]
      /\ \A x \in Nested : /\ record'[x] # "none" => record[x] # "none"
                           /\ record'[x] = "kept" => record[x] = "kept"
  BY <1>2, TerminatedCells
<1>5. driver' \in [Cells -> {"none", "batch", "past", "aborted"}]
  BY <1>2 DEF CodeInv, CodeModeTypeOK
<1>6. CodeModeTypeOK'
  BY <1>2, <1>3, <1>4, <1>5 DEF CodeInv, CodeModeTypeOK
<1>7. RunFits'
  BY <1>2 DEF RunFits
<1>8. RecordsFit'
  BY <1>2, <1>3, <1>4, RecordsKept
<1>. QED
  BY <1>3, <1>6, <1>7, <1>8 DEF CodeInv

LEMMA AbortRunStep ==
  ASSUME CodeInv, AbortRun
  PROVE  CodeInv'
<1>. DEFINE g == Aborted(gate, Live)
            S == {c \in Running : awaited[c] \/ driver[c] # "none"}
<1>1. Whole(g) /\ Members(g) \subseteq Members(gate)
  BY AbortedKeepsWhole DEF CodeInv
<1>2. /\ Terminated(S) /\ Through(g) /\ run \in {"open", "closing"}
      /\ run' = IF run = "open" THEN "aborted" ELSE run
      /\ UNCHANGED <<interrupted, held, owner, batch>>
      /\ driver' = [c \in Cells |-> "none"]
  BY DEF AbortRun
<1>. HIDE DEF g
<1>3. /\ Whole(gate)' /\ HeldFit'
      /\ at' \in [Callers -> {"free", "held", "live", "done"}]
      /\ Live' = gate'.inside \cup Queued(gate') /\ Live' \subseteq Live
      /\ \A x \in Callers : at'[x] = at[x] \/ (at[x] = "live" /\ at'[x] = "done")
  BY <1>1, <1>2, ThroughSettles
<1>4. /\ status' \in [Cells -> {"new", "running", "ended", "terminated", "collected",
                                "discarded"}]
      /\ awaited' \in [Cells -> BOOLEAN]
      /\ \A c \in Cells : status'[c] = "collected" => status[c] = "collected"
      /\ record' \in [Nested -> {"none", "kept", "told"}]
      /\ \A x \in Nested : /\ record'[x] # "none" => record[x] # "none"
                           /\ record'[x] = "kept" => record[x] = "kept"
  BY <1>2, TerminatedCells
<1>5. driver' \in [Cells -> {"none", "batch", "past", "aborted"}]
  BY <1>2
<1>6. CodeModeTypeOK'
  BY <1>2, <1>3, <1>4, <1>5 DEF CodeInv, CodeModeTypeOK
<1>7. RunFits'
  BY <1>2, <1>3 DEF CodeInv, RunFits
<1>8. RecordsFit'
  BY <1>2, <1>3, <1>4, RecordsKept
<1>. QED
  BY <1>3, <1>6, <1>7, <1>8 DEF CodeInv

LEMMA ScriptEndsStep ==
  ASSUME CodeInv, NEW c \in Cells, ScriptEnds(c)
  PROVE  CodeInv'
<1>. DEFINE g == Aborted(gate, InFlight(c))
<1>1. Whole(g) /\ Members(g) \subseteq Members(gate)
  BY AbortedKeepsWhole DEF CodeInv
<1>2. /\ status' = [status EXCEPT ![c] = "ended"] /\ driver' = [driver EXCEPT ![c] = "none"]
      /\ Through(g) /\ UNCHANGED <<run, interrupted, awaited, held, owner, batch, record>>
  BY DEF ScriptEnds
<1>. HIDE DEF g
<1>3. /\ Whole(gate)' /\ HeldFit'
      /\ at' \in [Callers -> {"free", "held", "live", "done"}]
      /\ Live' = gate'.inside \cup Queued(gate') /\ Live' \subseteq Live
      /\ \A x \in Callers : at'[x] = at[x] \/ (at[x] = "live" /\ at'[x] = "done")
  BY <1>1, <1>2, ThroughSettles
<1>4. \A d \in Cells : status'[d] = "collected" => status[d] = "collected"
  BY <1>2 DEF CodeInv, CodeModeTypeOK
<1>5. CodeModeTypeOK'
  BY <1>2, <1>3 DEF CodeInv, CodeModeTypeOK
<1>6. RunFits'
  BY <1>2, <1>3 DEF CodeInv, CodeModeTypeOK, RunFits
<1>7. RecordsFit'
  BY <1>2, <1>3, <1>4, RecordsKept
<1>. QED
  BY <1>3, <1>5, <1>6, <1>7 DEF CodeInv

LEMMA ToolEndsStep ==
  ASSUME CodeInv, NEW x \in Callers, ToolEnds(x)
  PROVE  CodeInv'
<1>. DEFINE g == Release(gate, x)
<1>1. Whole(g) /\ Members(g) = Members(gate) \ {x} /\ at[x] = "live"
  BY ReleaseKeepsWhole DEF ToolEnds, CodeInv, CodeModeTypeOK, Live
<1>2. /\ gate' = g /\ at' = [at EXCEPT ![x] = "done"]
      /\ record' = IF x \in Nested THEN [record EXCEPT ![x] = "kept"] ELSE record
      /\ UNCHANGED <<run, interrupted, status, awaited, driver, held, owner, batch>>
  BY DEF ToolEnds
<1>. HIDE DEF g
<1>3. Whole(gate)'
  BY <1>1, <1>2 DEF Whole, Counted, Apart, Pumped, Admits
<1>4. Live = Members(gate) /\ Live' = Live \ {x}
  BY <1>2 DEF CodeInv, CodeModeTypeOK, Members, Live
<1>5. Live' = gate'.inside \cup Queued(gate')
  BY <1>1, <1>2, <1>4 DEF Members
<1>6. CodeModeTypeOK'
  BY <1>2, <1>5 DEF CodeInv, CodeModeTypeOK
<1>7. HeldFit'
  BY <1>1, <1>2, HeldKept DEF CodeInv, CodeModeTypeOK
<1>8. RunFits'
  BY <1>2, <1>4 DEF CodeInv, RunFits
<1>9. RecordsFit'
  BY <1>1, <1>2, CodeModeConstants DEF CodeInv, CodeModeTypeOK, RecordsFit
<1>. QED
  BY <1>3, <1>6, <1>7, <1>8, <1>9 DEF CodeInv

LEMMA CallDirectlyStep ==
  ASSUME CodeInv, NEW x \in Callers, CallDirectly(x)
  PROVE  CodeInv'
<1>. DEFINE g == Acquire(gate, x)
<1>1. /\ x \in Direct /\ at[x] = "free" /\ run = "open"
      /\ gate' = g /\ at' = [at EXCEPT ![x] = "live"] /\ batch' = batch \cup {x}
      /\ UNCHANGED <<run, interrupted, status, awaited, driver, held, owner, record>>
  BY DEF CallDirectly, Batching
<1>2. Live = Members(gate) /\ x \notin Live
  BY <1>1 DEF CodeInv, CodeModeTypeOK, Members, Live
<1>3. Whole(g) /\ Members(g) = Members(gate) \cup {x}
  BY <1>2, AcquireKeepsWhole DEF CodeInv
<1>. HIDE DEF g
<1>4. Whole(gate)'
  BY <1>1, <1>3 DEF Whole, Counted, Apart, Pumped, Admits
<1>5. Live' = Live \cup {x}
  BY <1>1 DEF CodeInv, CodeModeTypeOK, Live
<1>6. Live' = gate'.inside \cup Queued(gate')
  BY <1>1, <1>2, <1>3, <1>5 DEF Members
<1>7. CodeModeTypeOK'
  BY <1>1, <1>6 DEF CodeInv, CodeModeTypeOK
<1>8. HeldFit'
  <2>1. \A y \in Callers : at'[y] = "held" <=> at[y] = "held"
    BY <1>1 DEF CodeInv, CodeModeTypeOK
  <2>. QED
    BY <1>1, <2>1, HeldKept DEF CodeInv
<1>9. RunFits'
  BY <1>1 DEF RunFits
<1>10. RecordsFit'
  BY <1>1 DEF CodeInv, CodeModeTypeOK, RecordsFit, Direct
<1>. QED
  BY <1>4, <1>7, <1>8, <1>9, <1>10 DEF CodeInv

\* What was held is dispatched in order: each call is let in or joins the queue.
LEMMA DriveStep ==
  ASSUME CodeInv, NEW c \in Cells, Drive(c)
  PROVE  CodeInv'
<1>. DEFINE q == held[c]
            g == AllAcquire(gate, q)
            asked == {x \in Callers : at[x] = "held" /\ owner[x] = c}
<1>1. /\ q \in Seq(Nested) /\ q \in Seq(Callers) /\ Len(q) \in Nat
      /\ \A i, j \in 1..Len(q) : q[i] = q[j] => i = j
      /\ \A i \in 1..Len(q) : /\ q[i] \in Nested /\ q[i] \in Callers
                              /\ at[q[i]] = "held" /\ owner[q[i]] = c
  BY HeldCalls DEF CodeInv
<1>2. Live = Members(gate)
  BY DEF CodeInv, CodeModeTypeOK, Members
<1>3. \A i \in 1..Len(q) : q[i] \notin Members(gate)
  BY <1>1, <1>2 DEF Live
<1>4. asked = {q[i] : i \in 1..Len(q)} /\ asked \subseteq Nested
  BY <1>1 DEF CodeInv, HeldFit
<1>5. g = FoldLeft(Acquire, gate, held[c])
  BY Zenon DEF AllAcquire
<1>6. Whole(g) /\ Members(g) = Members(gate) \cup asked
  BY <1>1, <1>3, <1>4, AcquiresKeepWhole DEF CodeInv
<1>7. /\ awaited' = [awaited EXCEPT ![c] = TRUE] /\ driver' = [driver EXCEPT ![c] = "batch"]
      /\ held' = [held EXCEPT ![c] = <<>>]
      /\ at' = [x \in Callers |-> IF at[x] = "held" /\ owner[x] = c THEN "live" ELSE at[x]]
      /\ batch' = batch \cup {x \in Nested : at[x] = "held" /\ owner[x] = c}
      /\ status[c] = "running" /\ run = "open"
      /\ UNCHANGED <<run, interrupted, status, owner, record>>
  BY Zenon DEF Drive, Turn, Batching
<1>8. gate' = g
  BY <1>5, Zenon DEF Drive
<1>. HIDE DEF g
<1>9. Whole(gate)'
  BY <1>6, <1>8 DEF Whole, Counted, Apart, Pumped, Admits
<1>10. /\ at' \in [Callers -> {"free", "held", "live", "done"}]
       /\ \A x \in Callers : at'[x] = IF x \in asked THEN "live" ELSE at[x]
  <2>1. at \in [Callers -> {"free", "held", "live", "done"}]
    BY DEF CodeInv, CodeModeTypeOK
  <2>. QED
    BY <1>7, <2>1
<1>11. Live' = Live \cup asked
  BY <1>10 DEF Live
<1>12. Live' = gate'.inside \cup Queued(gate')
  BY <1>2, <1>6, <1>8, <1>11 DEF Members
<1>13. CodeModeTypeOK'
  BY <1>4, <1>7, <1>10, <1>12, CodeModeConstants DEF CodeInv, CodeModeTypeOK
<1>14. HeldFit'
  <2>1. \A d \in Cells : held'[d] = IF d = c THEN <<>> ELSE held[d]
    BY <1>7 DEF CodeInv, HeldFit
  <2>4. held' \in [Cells -> Seq(Nested)]
    BY <1>7, <<>> \in Seq(Nested) DEF CodeInv, HeldFit
  <2>2. ASSUME NEW d \in Cells
        PROVE  /\ \A i, j \in 1..Len(held'[d]) : held'[d][i] = held'[d][j] => i = j
               /\ \A i \in 1..Len(held'[d]) : at'[held'[d][i]] = "held" /\ owner'[held'[d][i]] = d
    <3>1. CASE d = c
      BY <2>1, <3>1
    <3>2. CASE d # c
      <4>1. \A i \in 1..Len(held[d]) : /\ held[d][i] \in Callers /\ at[held[d][i]] = "held"
                                       /\ owner[held[d][i]] = d
        BY HeldCalls DEF CodeInv
      <4>2. \A i, j \in 1..Len(held[d]) : held[d][i] = held[d][j] => i = j
        BY HeldCalls DEF CodeInv
      <4>. QED
        BY <1>7, <1>10, <2>1, <3>2, <4>1, <4>2
    <3>. QED
      BY <3>1, <3>2
  <2>3. ASSUME NEW x \in Callers, at'[x] = "held"
        PROVE  x \in Nested /\ \E i \in 1..Len(held'[owner'[x]]) : held'[owner'[x]][i] = x
    <3>1. at[x] = "held" /\ x \notin asked
      BY <1>10, <2>3
    <3>2. x \in Nested /\ owner[x] \in Cells /\ owner[x] # c
      BY <3>1 DEF CodeInv, HeldFit, CodeModeTypeOK
    <3>. QED
      BY <1>7, <2>1, <3>1, <3>2 DEF CodeInv, HeldFit
  <2>. QED
    BY <2>2, <2>3, <2>4 DEF HeldFit
<1>15. RunFits'
  BY <1>7 DEF RunFits
<1>16. RecordsFit'
  BY <1>7, <1>10, CodeModeConstants DEF CodeInv, RecordsFit
<1>. QED
  BY <1>9, <1>13, <1>14, <1>15, <1>16 DEF CodeInv

\* A call of a script is held, fails, or goes to the gate, as its driver is.
LEMMA ScriptCallsStep ==
  ASSUME CodeInv, NEW c \in Cells, NEW x \in Nested, ScriptCalls(c, x)
  PROVE  CodeInv'
<1>1. /\ status[c] = "running" /\ at[x] = "free" /\ owner' = [owner EXCEPT ![x] = c]
      /\ UNCHANGED <<run, interrupted, status, awaited, driver, record>>
  BY DEF ScriptCalls
<1>2. x \in Callers /\ Live = Members(gate) /\ x \notin Live
  BY <1>1, CodeModeConstants DEF CodeInv, CodeModeTypeOK, Members, Live
<1>3. /\ owner' \in [Nested -> Cells]
      /\ \A y \in Nested : owner'[y] = IF y = x THEN c ELSE owner[y]
  BY <1>1 DEF CodeInv, CodeModeTypeOK
<1>4. \A d \in Cells : \A i \in 1..Len(held[d]) : held[d][i] \in Nested /\ held[d][i] # x
  BY <1>1, HeldCalls DEF CodeInv
<1>5. record[x] = "none"
  BY <1>1 DEF CodeInv, RecordsFit, CodeModeTypeOK
<1>6. CASE driver[c] = "none"
  <2>1. /\ held' = [held EXCEPT ![c] = Append(@, x)] /\ at' = [at EXCEPT ![x] = "held"]
        /\ UNCHANGED <<gate, batch>>
    BY <1>6, Zenon DEF ScriptCalls
  <2>2. Whole(gate)'
    BY <2>1 DEF CodeInv, Whole, Counted, Apart, Pumped, Admits
  <2>3. Live' = Live
    BY <1>1, <2>1 DEF CodeInv, CodeModeTypeOK, Live
  <2>4. CodeModeTypeOK'
    BY <1>1, <1>2, <1>3, <2>1, <2>3 DEF CodeInv, CodeModeTypeOK
  <2>5. HeldFit'
    <3>. DEFINE q == held[c]
    <3>1. \A d \in Cells : held'[d] = IF d = c THEN Append(q, x) ELSE held[d]
      BY <2>1 DEF CodeInv, HeldFit
    <3>2. \A y \in Callers : at'[y] = IF y = x THEN "held" ELSE at[y]
      BY <2>1 DEF CodeInv, CodeModeTypeOK
    <3>3. /\ q \in Seq(Nested) /\ Append(q, x) \in Seq(Nested) /\ Len(q) \in Nat
          /\ Len(Append(q, x)) = Len(q) + 1 /\ Append(q, x)[Len(q) + 1] = x
          /\ \A i \in 1..Len(q) : Append(q, x)[i] = q[i]
      BY DEF CodeInv, HeldFit
    <3>4. ASSUME NEW d \in Cells
          PROVE  /\ \A i, j \in 1..Len(held'[d]) : held'[d][i] = held'[d][j] => i = j
                 /\ \A i \in 1..Len(held'[d]) :
                      at'[held'[d][i]] = "held" /\ owner'[held'[d][i]] = d
      <4>1. CASE d = c
        <5>1. \A i \in 1..(Len(q) + 1) : i \in 1..Len(q) \/ i = Len(q) + 1
          BY <3>3
        <5>2. \A i, j \in 1..Len(q) : q[i] = q[j] => i = j
          BY HeldCalls DEF CodeInv
        <5>3. \A i \in 1..Len(q) : /\ q[i] \in Nested /\ q[i] \in Callers /\ q[i] # x
                                   /\ at[q[i]] = "held" /\ owner[q[i]] = c
          BY <1>4, HeldCalls DEF CodeInv
        <5>4. \A i \in 1..Len(q) : at'[q[i]] = "held" /\ owner'[q[i]] = c
          BY <1>3, <3>2, <5>3
        <5>5. at'[x] = "held" /\ owner'[x] = c
          BY <1>2, <1>3, <3>2
        <5>6. held'[d] = Append(q, x)
          BY <3>1, <4>1
        <5>. HIDE DEF q
        <5>7. ASSUME NEW i \in 1..(Len(q) + 1), NEW j \in 1..(Len(q) + 1),
                     Append(q, x)[i] = Append(q, x)[j]
              PROVE  i = j
          BY <3>3, <5>1, <5>2, <5>3, <5>7
        <5>8. \A i \in 1..(Len(q) + 1) :
                at'[Append(q, x)[i]] = "held" /\ owner'[Append(q, x)[i]] = c
          BY <3>3, <5>1, <5>4, <5>5
        <5>. QED
          BY <3>3, <4>1, <5>6, <5>7, <5>8
      <4>2. CASE d # c
        <5>1. \A i \in 1..Len(held[d]) :
                /\ held[d][i] \in Nested /\ held[d][i] \in Callers /\ held[d][i] # x
                /\ at[held[d][i]] = "held" /\ owner[held[d][i]] = d
          BY <1>4, HeldCalls DEF CodeInv
        <5>2. \A i, j \in 1..Len(held[d]) : held[d][i] = held[d][j] => i = j
          BY HeldCalls DEF CodeInv
        <5>. QED
          BY <1>3, <3>1, <3>2, <4>2, <5>1, <5>2
      <4>. QED
        BY <4>1, <4>2
    <3>5. ASSUME NEW y \in Callers, at'[y] = "held"
          PROVE  y \in Nested /\ \E i \in 1..Len(held'[owner'[y]]) : held'[owner'[y]][i] = y
      <4>1. CASE y = x
        <5>1. owner'[y] = c /\ held'[c] = Append(q, x) /\ y \in Nested
          BY <1>3, <3>1, <4>1
        <5>. HIDE DEF q
        <5>2. Len(q) + 1 \in 1..Len(Append(q, x))
          BY <3>3
        <5>. QED
          BY <3>3, <4>1, <5>1, <5>2
      <4>2. CASE y # x
        <5>1. at[y] = "held" /\ y \in Nested /\ owner'[y] = owner[y] /\ owner[y] \in Cells
          BY <1>3, <3>2, <3>5, <4>2 DEF CodeInv, HeldFit, CodeModeTypeOK
        <5>2. PICK i \in 1..Len(held[owner[y]]) : held[owner[y]][i] = y
          BY <5>1 DEF CodeInv, HeldFit
        <5>3. i \in 1..Len(held'[owner[y]]) /\ held'[owner[y]][i] = y
          <6>1. CASE owner[y] = c
            <7>1. i \in 1..Len(q) /\ q[i] = y /\ held'[owner[y]] = Append(q, x)
              BY <3>1, <5>2, <6>1
            <7>2. i \in 1..(Len(q) + 1) /\ Append(q, x)[i] = y
              BY <3>3, <7>1
            <7>. QED
              BY <3>3, <7>1, <7>2
          <6>2. CASE owner[y] # c
            BY <3>1, <5>1, <5>2, <6>2
          <6>. QED
            BY <6>1, <6>2
        <5>. QED
          BY <5>1, <5>3
      <4>. QED
        BY <4>1, <4>2
    <3>6. held' \in [Cells -> Seq(Nested)]
      BY <2>1, <3>3 DEF CodeInv, HeldFit
    <3>. QED
      BY <3>4, <3>5, <3>6 DEF HeldFit
  <2>6. RunFits'
    BY <1>1, <2>3 DEF CodeInv, RunFits
  <2>7. RecordsFit'
    BY <1>1, <1>3, <1>5, <2>1, CodeModeConstants DEF CodeInv, CodeModeTypeOK, RecordsFit
  <2>. QED
    BY <2>2, <2>4, <2>5, <2>6, <2>7 DEF CodeInv
<1>7. CASE driver[c] # "none"
  <2>1. held' = held /\ at' \in {[at EXCEPT ![x] = "done"], [at EXCEPT ![x] = "live"]}
    BY <1>7 DEF ScriptCalls
  <2>2. HeldFit'
    <3>1. \A y \in Callers : at'[y] = "held" => y # x /\ at[y] = "held"
      BY <1>2, <2>1 DEF CodeInv, CodeModeTypeOK
    <3>2. ASSUME NEW d \in Cells, NEW i \in 1..Len(held[d])
          PROVE  at'[held'[d][i]] = "held" /\ owner'[held'[d][i]] = d
      <4>1. /\ held[d][i] \in Nested /\ held[d][i] \in Callers /\ held[d][i] # x
            /\ at[held[d][i]] = "held" /\ owner[held[d][i]] = d
        BY <1>4, HeldCalls DEF CodeInv
      <4>. QED
        BY <1>3, <2>1, <4>1 DEF CodeInv, CodeModeTypeOK
    <3>3. ASSUME NEW y \in Callers, at'[y] = "held"
          PROVE  y \in Nested /\ \E i \in 1..Len(held'[owner'[y]]) : held'[owner'[y]][i] = y
      <4>1. y # x /\ at[y] = "held" /\ y \in Nested
        BY <3>1, <3>3 DEF CodeInv, HeldFit
      <4>. QED
        BY <1>3, <2>1, <4>1 DEF CodeInv, HeldFit
    <3>4. /\ held' \in [Cells -> Seq(Nested)]
          /\ \A d \in Cells : \A i, j \in 1..Len(held'[d]) : held'[d][i] = held'[d][j] => i = j
      BY <2>1 DEF CodeInv, HeldFit
    <3>5. \A d \in Cells : \A i \in 1..Len(held'[d]) :
             at'[held'[d][i]] = "held" /\ owner'[held'[d][i]] = d
      BY <2>1, <3>2
    <3>. QED
      BY <3>3, <3>4, <3>5 DEF HeldFit
  <2>3. CASE driver[c] = "aborted"
    <3>1. at' = [at EXCEPT ![x] = "done"] /\ UNCHANGED <<gate, batch>>
      BY <1>7, <2>3 DEF ScriptCalls
    <3>2. Whole(gate)'
      BY <3>1 DEF CodeInv, Whole, Counted, Apart, Pumped, Admits
    <3>3. Live' = Live
      BY <1>1, <3>1 DEF CodeInv, CodeModeTypeOK, Live
    <3>4. CodeModeTypeOK'
      BY <1>1, <1>2, <1>3, <3>1, <3>3 DEF CodeInv, CodeModeTypeOK
    <3>5. RunFits'
      BY <1>1, <3>3 DEF CodeInv, RunFits
    <3>6. RecordsFit'
      BY <1>1, <1>3, <1>5, <3>1, CodeModeConstants DEF CodeInv, CodeModeTypeOK, RecordsFit
    <3>. QED
      BY <2>2, <3>2, <3>4, <3>5, <3>6 DEF CodeInv
  <2>4. CASE driver[c] # "aborted"
    <3>. DEFINE g == Acquire(gate, x)
    <3>1. /\ gate' = g /\ at' = [at EXCEPT ![x] = "live"]
          /\ batch' = IF driver[c] = "batch" THEN batch \cup {x} ELSE batch
      BY <1>7, <2>4 DEF ScriptCalls
    <3>2. Whole(g) /\ Members(g) = Members(gate) \cup {x}
      BY <1>2, AcquireKeepsWhole DEF CodeInv
    <3>. HIDE DEF g
    <3>3. Whole(gate)'
      BY <3>1, <3>2 DEF Whole, Counted, Apart, Pumped, Admits
    <3>4. Live' = Live \cup {x}
      BY <1>2, <3>1 DEF CodeInv, CodeModeTypeOK, Live
    <3>5. Live' = gate'.inside \cup Queued(gate')
      BY <1>2, <3>1, <3>2, <3>4 DEF Members
    <3>6. CodeModeTypeOK'
      BY <1>1, <1>2, <1>3, <3>1, <3>5 DEF CodeInv, CodeModeTypeOK
    <3>7. RunFits'
      BY <1>1, <1>7 DEF CodeInv, RunFits
    <3>8. RecordsFit'
      BY <1>1, <1>3, <1>5, <3>1, CodeModeConstants DEF CodeInv, CodeModeTypeOK, RecordsFit
    <3>. QED
      BY <2>2, <3>3, <3>6, <3>7, <3>8 DEF CodeInv
  <2>. QED
    BY <2>3, <2>4
<1>. QED
  BY <1>6, <1>7

LEMMA InitCode ==
  ASSUME CodeModeInit
  PROVE  CodeInv
<1>1. Whole(gate) /\ gate.inside = {} /\ Queued(gate) = {}
  <2>1. gate = Shut
    BY DEF CodeModeInit, GateInit
  <2>2. gate.inside = {} /\ gate.waiting = <<>>
    BY <2>1 DEF Shut
  <2>. QED
    BY <2>1, <2>2, ShutIsWhole DEF Queued
<1>2. CodeModeTypeOK /\ Live = {}
  BY <1>1, CodeModeConstants DEF CodeModeInit, CodeModeTypeOK, Live
<1>3. HeldFit
  BY <<>> \in Seq(Nested) DEF CodeModeInit, HeldFit
<1>4. RunFits
  BY <1>2 DEF CodeModeInit, RunFits
<1>5. RecordsFit
  BY CodeModeConstants DEF CodeModeInit, RecordsFit
<1>. QED
  BY <1>1, <1>2, <1>3, <1>4, <1>5 DEF CodeInv

LEMMA StepCode ==
  ASSUME CodeInv, [CodeModeNext]_codeModeVars
  PROVE  CodeInv'
<1>1. CASE BeginRun \/ EndBatch \/ InterruptBatch \/ AbortRun \/ CloseRun \/ EndRun
  BY <1>1, BeginRunStep, EndBatchStep, InterruptBatchStep, AbortRunStep, CloseRunStep,
     EndRunStep, Zenon
<1>2. ASSUME NEW x \in Callers, CallDirectly(x) \/ ToolEnds(x)
      PROVE  CodeInv'
  BY <1>2, CallDirectlyStep, ToolEndsStep, Zenon
<1>3. ASSUME NEW c \in Cells,
             \/ Exec(c) \/ Drive(c) \/ Collect(c) \/ Discard(c) \/ Yield(c)
             \/ ScriptEnds(c) \/ DriveReturns(c)
      PROVE  CodeInv'
  BY <1>3, ExecStep, DriveStep, CollectStep, DiscardStep, YieldStep, ScriptEndsStep,
     DriveReturnsStep, Zenon
<1>4. ASSUME NEW c \in Cells, NEW x \in Nested, ScriptCalls(c, x)
      PROVE  CodeInv'
  BY <1>4, ScriptCallsStep, Zenon
<1>5. CASE UNCHANGED codeModeVars
  <2>1. /\ UNCHANGED <<gate, at, held, owner>>
        /\ UNCHANGED <<run, interrupted, status, awaited, driver, batch, record>>
    BY <1>5 DEF codeModeVars
  <2>2. Whole(gate)' /\ HeldFit' /\ Live' = Live /\ Live' = gate'.inside \cup Queued(gate')
    BY <2>1, CallsKept
  <2>3. CodeModeTypeOK'
    BY <2>1, <2>2 DEF CodeInv, CodeModeTypeOK
  <2>4. RunFits' /\ RecordsFit'
    BY <2>1, <2>2 DEF CodeInv, RunFits, RecordsFit
  <2>. QED
    BY <2>2, <2>3, <2>4 DEF CodeInv
<1>. QED
  BY <1>1, <1>2, <1>3, <1>4, <1>5, Zenon DEF CodeModeNext

LEMMA AlwaysCodeInv == CodeModeSpec => []CodeInv
<1>1. CodeInv /\ [CodeModeNext]_codeModeVars => CodeInv'
  BY StepCode
<1>. QED
  BY InitCode, <1>1, PTL DEF CodeModeSpec

\* The run, its cells, and its calls have their types, and a call is live just when the
\* gate knows of it: none is lost in the queue, and none is let in that has given up.
THEOREM CodeModeTyped == CodeModeSpec => []CodeModeTypeOK
BY AlwaysCodeInv, PTL DEF CodeInv

\* The gate admits by its rule under all that code mode asks of it: calls dispatched
\* together, a run of waiters that leave at once, and a tool that ends meanwhile.
THEOREM ScriptsShareTheGate == CodeModeSpec => []GateIsCorrect
<1>1. CodeInv => GateIsCorrect
  BY WholeIsCorrect DEF CodeInv
<1>. QED
  BY AlwaysCodeInv, <1>1, PTL

\* close() waits for what the run dispatched: when it is over, no call of it is inside
\* the gate or waits there, whatever its scripts did after they yielded.
THEOREM RunsEndQuietly == CodeModeSpec => []QuietAfterTheRun
<1>1. CodeInv => QuietAfterTheRun
  <2>. SUFFICES ASSUME CodeInv, run = "idle" PROVE gate.inside = {} /\ gate.waiting = <<>>
    BY DEF QuietAfterTheRun
  <2>1. gate.inside = {} /\ Queued(gate) = {}
    BY DEF CodeInv, CodeModeTypeOK, RunFits
  <2>2. gate.waiting \in Seq(Callers)
    BY DEF CodeInv, Whole, Counted, Gates
  <2>3. \A i \in 1..Len(gate.waiting) : gate.waiting[i] \in Queued(gate)
    BY <2>2 DEF Queued
  <2>4. Len(gate.waiting) = 0
    BY <2>1, <2>2, <2>3
  <2>. QED
    BY <2>1, <2>2, <2>4
<1>. QED
  BY AlwaysCodeInv, <1>1, PTL

\* Each nested call's record is in the result that ends its cell, or in an earlier one:
\* the drive returns only after the calls the end of the script aborted have settled.
THEOREM RecordsAreTold == CodeModeSpec => []RecordsReachTheModel
<1>1. CodeInv => RecordsReachTheModel
  BY DEF CodeInv, RecordsFit, RecordsReachTheModel
<1>. QED
  BY AlwaysCodeInv, <1>1, PTL

-----------------------------------------------------------------------------
\* Collaboration agents

ActiveChildren == {c \in Registered : ~Final(c)}
Bare == turn \notin {"live", "cancelled"} /\ ~mayCreate /\ goalChildren = {}

\* An execution is started once, of a child; the registry has the last one of each.
Started ==
  /\ IsFiniteSet(Unfinished)
  /\ \A e \in Executions : IF progress[e] = "none" THEN e \notin orphans ELSE child[e] \in Children
  /\ \A c \in Children : entry[c] \in Executions =>
                           progress[entry[c]] # "none" /\ child[entry[c]] = c

\* An agent is discarded when no goal can have children, and no turn can get a goal.
DiscardFits ==
  /\ ~agent /\ ~slipped => Bare
  /\ mayCreate => turn = "none"

\* While a tool waits the registry stays as it is, and runs can only end.
Waiting ==
  tool # "none" =>
    turn # "idle" /\ \A c \in named : entry[c] \in Unfinished => entry[c] \in pending

CollabInv == CollabTypeOK /\ Started /\ DiscardFits /\ Waiting /\ ChildrenAreAccounted

-----------------------------------------------------------------------------
(* Types *)

LEMMA InitTyped == CollabInit => CollabTypeOK
BY DEF CollabInit, CollabTypeOK

LEMMA StepTyped == CollabTypeOK /\ [CollabNext]_collabVars => CollabTypeOK'
<1>. SUFFICES ASSUME CollabTypeOK, [CollabNext]_collabVars PROVE CollabTypeOK'
  OBVIOUS
<1>. USE DEF CollabTypeOK
<1>1. ASSUME NEW scope \in {"none", "live"}, StartTurn(scope) PROVE CollabTypeOK'
  BY <1>1 DEF StartTurn, Unfinished
<1>2. CASE OwnTurn \/ EndTurn
  BY <1>2 DEF OwnTurn, EndTurn
<1>3. CASE InvalidateGoal
  BY <1>3 DEF InvalidateGoal, AbortAll
<1>4. CASE DiscardAgent \/ BeginReload
  BY <1>4 DEF DiscardAgent, BeginReload
<1>5. CASE EndReload
  BY <1>5 DEF EndReload, CleanupPending
<1>6. ASSUME NEW c \in Children, CloseChild(c) PROVE CollabTypeOK'
  BY <1>6 DEF CloseChild, AbortAll, Unfinished
<1>7. ASSUME NEW c \in Children, NEW e \in Executions, Spawn(c, e) PROVE CollabTypeOK'
  BY <1>7 DEF Spawn
<1>8. ASSUME NEW e \in Executions, Settles(e) PROVE CollabTypeOK'
  BY <1>8 DEF Settles
<1>9. ASSUME NEW S \in SUBSET Children, Wait(S) PROVE CollabTypeOK'
  BY <1>9 DEF Wait, Unfinished
<1>10. CASE ToolReturns \/ GiveUpWait
  BY <1>10 DEF ToolReturns, GiveUpWait
<1>11. CASE UNCHANGED collabVars
  BY <1>11 DEF collabVars
<1>. QED
  BY <1>1, <1>2, <1>3, <1>4, <1>5, <1>6, <1>7, <1>8, <1>9, <1>10, <1>11 DEF CollabNext

\* The types of the registry, its executions and its tools.
THEOREM CollabTyped == CollabSpec => []CollabTypeOK
BY InitTyped, StepTyped, PTL DEF CollabSpec

-----------------------------------------------------------------------------
(* What an execution that only goes on to its end cannot disturb *)

\* Runs may be aborted; nothing else happens to them.
LEMMA RunsGoOn ==
  ASSUME CollabInv, UNCHANGED <<entry, child, owned, orphans, goalChildren>>,
         NEW S, progress' = progress \/ AbortAll(S)
  PROVE  /\ Unfinished' = Unfinished /\ Started'
         /\ slipped' = slipped \/ slipped' => OneRunPerChild' /\ GoalCountsItsChildren'
         /\ \A c \in Children : Final(c)' <=> Final(c)
<1>1. Unfinished' = Unfinished
  BY DEF Unfinished, AbortAll
<1>2. \A e \in Executions : progress'[e] = "none" <=> progress[e] = "none"
  BY DEF AbortAll, CollabInv, CollabTypeOK
<1>3. Started'
  BY <1>1, <1>2 DEF CollabInv, Started
<1>4. \A c \in Children : Final(c)' <=> Final(c)
  BY <1>1 DEF Final
<1>5. ASSUME slipped' = slipped \/ slipped' PROVE OneRunPerChild' /\ GoalCountsItsChildren'
  BY <1>1, <1>5 DEF CollabInv, ChildrenAreAccounted, OneRunPerChild, GoalCountsItsChildren
<1>. QED
  BY <1>1, <1>3, <1>4, <1>5

\* Nothing of the turn's tool changes, nor what it waits for.
LEMMA ToolKept ==
  ASSUME CollabInv, UNCHANGED <<entry, child, orphans, tool, named, pending, told>>,
         Unfinished' = Unfinished, turn # "idle" => turn' # "idle"
  PROVE  Waiting' /\ FinishedIsFinished'
BY DEF CollabInv, Waiting, ChildrenAreAccounted, FinishedIsFinished

LEMMA ImageIsFinite ==
  ASSUME NEW f, NEW S, IsFiniteSet(S)
  PROVE  LET T == {f[x] : x \in S} IN IsFiniteSet(T) /\ Cardinality(T) <= Cardinality(S)
<1>. DEFINE T == {f[x] : x \in S}
            g == [x \in S |-> f[x]]
<1>1. g \in Surjection(S, T)
  BY DEF Surjection
<1>. QED
  BY <1>1, FS_Surjection

LEMMA ActiveIsFinite ==
  ASSUME CollabInv
  PROVE  /\ IsFiniteSet(ActiveChildren)
         /\ Unfinished \ orphans \subseteq {entry[c] : c \in ActiveChildren}
<1>1. ActiveChildren \subseteq {child[e] : e \in Unfinished}
  BY CollabConstants DEF ActiveChildren, Registered, Final, CollabInv, Started, CollabTypeOK
<1>2. IsFiniteSet({child[e] : e \in Unfinished})
  BY ImageIsFinite DEF CollabInv, Started
<1>3. IsFiniteSet(ActiveChildren)
  BY <1>1, <1>2, FS_Subset
<1>4. ASSUME NEW e \in Unfinished \ orphans PROVE e \in {entry[c] : c \in ActiveChildren}
  <2>1. e \in Executions /\ progress[e] # "none"
    BY DEF Unfinished
  <2>2. child[e] \in Children /\ entry[child[e]] = e
    BY <2>1 DEF CollabInv, Started, ChildrenAreAccounted, OneRunPerChild
  <2>3. child[e] \in ActiveChildren
    BY <2>1, <2>2, CollabConstants DEF ActiveChildren, Registered, Final
  <2>. QED
    BY <2>2, <2>3
<1>. QED
  BY <1>3, <1>4

LEMMA FewRuns ==
  ASSUME CollabInv, ActiveCount < MaxAgents, NEW e
  PROVE  /\ IsFiniteSet((Unfinished \ orphans) \cup {e})
         /\ Cardinality((Unfinished \ orphans) \cup {e}) <= MaxAgents
<1>1. IsFiniteSet(ActiveChildren) /\ Unfinished \ orphans \subseteq {entry[c] : c \in ActiveChildren}
  BY ActiveIsFinite
<1>2. /\ IsFiniteSet({entry[c] : c \in ActiveChildren})
      /\ Cardinality({entry[c] : c \in ActiveChildren}) <= Cardinality(ActiveChildren)
  BY <1>1, ImageIsFinite
<1>3. /\ IsFiniteSet(Unfinished \ orphans)
      /\ Cardinality(Unfinished \ orphans) <= Cardinality({entry[c] : c \in ActiveChildren})
  BY <1>1, <1>2, FS_Subset
<1>4. Cardinality(ActiveChildren) < MaxAgents
  BY DEF ActiveCount, ActiveChildren
<1>5. /\ IsFiniteSet((Unfinished \ orphans) \cup {e})
      /\ Cardinality((Unfinished \ orphans) \cup {e}) <= Cardinality(Unfinished \ orphans) + 1
  <2>. DEFINE S == Unfinished \ orphans
  <2>1. /\ IsFiniteSet(S \cup {e})
        /\ Cardinality(S \cup {e}) = IF e \in S THEN Cardinality(S) ELSE Cardinality(S) + 1
    BY <1>3, FS_AddElement, Zenon
  <2>2. Cardinality(S) \in Nat
    BY <1>3, FS_CardinalityType, Zenon
  <2>. QED
    BY <2>1, <2>2
<1>6. /\ Cardinality(ActiveChildren) \in Nat /\ Cardinality(Unfinished \ orphans) \in Nat
      /\ Cardinality({entry[c] : c \in ActiveChildren}) \in Nat
      /\ Cardinality((Unfinished \ orphans) \cup {e}) \in Nat
  BY <1>1, <1>2, <1>3, <1>5, FS_CardinalityType
<1>. QED
  BY <1>2, <1>3, <1>4, <1>5, <1>6, CollabConstants

-----------------------------------------------------------------------------
(* The steps of the thread *)

LEMMA StartTurnKeeps ==
  ASSUME CollabInv, NEW scope \in {"none", "live"}, StartTurn(scope)
  PROVE  CollabInv'
<1>1. CollabTypeOK'
  BY StepTyped DEF CollabNext, CollabInv
<1>2. /\ turn = "idle" /\ tool = "none" /\ Unfinished' = Unfinished
      /\ UNCHANGED <<slipped, child, owned, progress, goalChildren, tool, told>>
  BY DEF StartTurn, Unfinished, CollabInv, Waiting
<1>3. DiscardFits' /\ Waiting'
  BY <1>2 DEF StartTurn, CollabInv, DiscardFits, Waiting
<1>4. CASE agent
  <2>1. UNCHANGED <<entry, orphans, named, pending>>
    BY <1>4 DEF StartTurn
  <2>2. Started' /\ OneRunPerChild' /\ GoalCountsItsChildren'
    BY <1>2, <2>1, RunsGoOn
  <2>3. FinishedIsFinished'
    BY <1>2, <2>1, ToolKept
  <2>. QED
    BY <1>1, <1>3, <2>2, <2>3 DEF CollabInv, ChildrenAreAccounted
<1>5. CASE ~agent
  <2>1. /\ orphans' = orphans \cup Unfinished
        /\ entry' = [c \in Children |-> IF entry[c] = Unknown THEN Unknown ELSE Restored]
    BY <1>5 DEF StartTurn
  <2>2. Unfinished' \ orphans' = {}
    BY <1>2, <2>1
  <2>3. Started'
    BY <1>2, <2>1, CollabConstants DEF CollabInv, Started, Unfinished
  <2>4. ~slipped => \A e \in Unfinished : ~owned[e]
    BY <1>5 DEF CollabInv, DiscardFits, Bare, ChildrenAreAccounted, GoalCountsItsChildren
  <2>5. OneRunPerChild'
    <3>1. Cardinality({}) = 0
      BY FS_EmptySet
    <3>2. Cardinality(Unfinished' \ orphans') <= MaxAgents
      BY <2>2, <3>1, CollabConstants
    <3>3. ~slipped' => \A e \in orphans' : ~owned'[e]
      BY <1>2, <2>1, <2>4 DEF CollabInv, ChildrenAreAccounted, OneRunPerChild
    <3>. QED
      BY <2>2, <3>2, <3>3 DEF OneRunPerChild
  <2>6. GoalCountsItsChildren'
    BY <1>2 DEF CollabInv, ChildrenAreAccounted, GoalCountsItsChildren
  <2>7. FinishedIsFinished'
    BY <2>2 DEF FinishedIsFinished
  <2>. QED
    BY <1>1, <1>3, <2>3, <2>5, <2>6, <2>7 DEF CollabInv, ChildrenAreAccounted
<1>. QED
  BY <1>4, <1>5

LEMMA ThreadKeeps ==
  ASSUME CollabInv, OwnTurn \/ InvalidateGoal \/ EndTurn \/ DiscardAgent \/ BeginReload \/ EndReload
  PROVE  CollabInv'
<1>1. CollabTypeOK'
  BY StepTyped DEF CollabNext, CollabInv
<1>2. /\ UNCHANGED <<entry, child, owned, orphans, goalChildren, tool, named, pending, told>>
      /\ slipped' = slipped \/ slipped'
  BY DEF OwnTurn, InvalidateGoal, EndTurn, DiscardAgent, BeginReload, EndReload, CollabInv, CollabTypeOK
<1>. PICK S : progress' = progress \/ AbortAll(S)
  BY DEF OwnTurn, InvalidateGoal, EndTurn, DiscardAgent, BeginReload, EndReload
<1>3. Unfinished' = Unfinished /\ Started' /\ OneRunPerChild' /\ GoalCountsItsChildren'
  BY <1>2, RunsGoOn
<1>4. turn # "idle" /\ tool # "none" => turn' # "idle"
  BY DEF OwnTurn, InvalidateGoal, EndTurn, DiscardAgent, BeginReload, EndReload
<1>5. Waiting' /\ FinishedIsFinished'
  BY <1>2, <1>3, <1>4 DEF CollabInv, Waiting, ChildrenAreAccounted, FinishedIsFinished
<1>6. DiscardFits'
  <2>. USE DEF CollabInv, DiscardFits, Bare
  <2>1. CASE OwnTurn \/ EndTurn
    BY <2>1 DEF OwnTurn, EndTurn
  <2>2. CASE InvalidateGoal
    BY <2>2 DEF InvalidateGoal
  <2>3. CASE DiscardAgent \/ BeginReload
    BY <2>3 DEF DiscardAgent, BeginReload, CleanupPending
  <2>4. CASE EndReload
    BY <2>4 DEF EndReload, CleanupPending
  <2>. QED
    BY <2>1, <2>2, <2>3, <2>4
<1>. QED
  BY <1>1, <1>3, <1>5, <1>6 DEF CollabInv, ChildrenAreAccounted

-----------------------------------------------------------------------------
(* The steps of the tools and of the children *)

LEMMA SpawnKeeps ==
  ASSUME CollabInv, NEW c \in Children, NEW e \in Executions, Spawn(c, e)
  PROVE  CollabInv'
<1>1. CollabTypeOK'
  BY StepTyped DEF CollabNext, CollabInv
<1>2. /\ tool = "none" /\ turn # "idle" /\ turn # "cancelled" /\ progress[e] = "none"
      /\ ActiveCount < MaxAgents /\ Spawnable(c)
      /\ UNCHANGED <<agent, mayCreate, slipped, orphans, turn, tool>>
  BY DEF Spawn, Calls
<1>3. /\ entry'[c] = e /\ \A d \in Children \ {c} : entry'[d] = entry[d]
      /\ child'[e] = c /\ progress'[e] = "running" /\ owned'[e] = (turn = "live")
      /\ \A x \in Executions \ {e} :
           child'[x] = child[x] /\ progress'[x] = progress[x] /\ owned'[x] = owned[x]
  BY DEF Spawn, CollabInv, CollabTypeOK
<1>4. Unfinished' = Unfinished \cup {e} /\ e \notin Unfinished /\ e \notin orphans
  BY <1>2, <1>3 DEF Unfinished, CollabInv, Started
<1>5. \A x \in Unfinished \ orphans : child[x] # c
  <2>. SUFFICES ASSUME NEW x \in Unfinished \ orphans, child[x] = c PROVE FALSE
    OBVIOUS
  <2>1. x \in Executions /\ entry[c] = x
    BY DEF Unfinished, CollabInv, ChildrenAreAccounted, OneRunPerChild
  <2>2. entry[c] # Unknown /\ Final(c)
    BY <1>2, <2>1, CollabConstants DEF Spawnable
  <2>. QED
    BY <2>1, <2>2, CollabConstants DEF Final
<1>6. Started'
  <2>1. IsFiniteSet(Unfinished')
    BY <1>4, FS_AddElement DEF CollabInv, Started
  <2>2. \A d \in Children : entry[d] # e
    BY <1>2 DEF CollabInv, Started
  <2>. QED
    BY <1>2, <1>3, <2>1, <2>2 DEF CollabInv, Started
<1>7. OneRunPerChild'
  <2>1. Unfinished' \ orphans' = (Unfinished \ orphans) \cup {e}
    BY <1>2, <1>4
  <2>2. \A x \in Unfinished' \ orphans' : entry'[child'[x]] = x
    <3>1. \A x \in Unfinished \ orphans : child[x] \in Children \ {c} /\ x \in Executions \ {e}
      BY <1>4, <1>5 DEF CollabInv, Started, Unfinished
    <3>. QED
      BY <1>3, <2>1, <3>1 DEF CollabInv, ChildrenAreAccounted, OneRunPerChild
  <2>3. Cardinality(Unfinished' \ orphans') <= MaxAgents
    BY <1>2, <2>1, FewRuns
  <2>4. ~slipped' => \A x \in orphans' : ~owned'[x]
    BY <1>2, <1>3, <1>4 DEF CollabInv, CollabTypeOK, ChildrenAreAccounted, OneRunPerChild
  <2>. QED
    BY <2>2, <2>3, <2>4 DEF OneRunPerChild
<1>8. GoalCountsItsChildren'
  <2>1. goalChildren' = IF turn = "live" THEN goalChildren \cup {c} ELSE goalChildren
    BY DEF Spawn
  <2>2. ASSUME ~slipped PROVE goalChildren = {child[x] : x \in {y \in Unfinished : owned[y]}}
    BY <2>2 DEF CollabInv, ChildrenAreAccounted, GoalCountsItsChildren
  <2>3. \A x \in Unfinished : x \in Executions \ {e}
    BY <1>4 DEF Unfinished
  <2>4. {child'[x] : x \in {y \in Unfinished : owned'[y]}} =
        {child[x] : x \in {y \in Unfinished : owned[y]}}
    BY <1>3, <2>3
  <2>5. CASE turn = "live"
    <3>1. {y \in Unfinished' : owned'[y]} = {y \in Unfinished : owned'[y]} \cup {e}
      BY <1>3, <1>4, <2>5
    <3>. QED
      BY <1>2, <1>3, <2>1, <2>2, <2>4, <2>5, <3>1 DEF GoalCountsItsChildren
  <2>6. CASE turn # "live"
    <3>1. {y \in Unfinished' : owned'[y]} = {y \in Unfinished : owned'[y]}
      BY <1>3, <1>4, <2>6
    <3>. QED
      BY <1>2, <2>1, <2>2, <2>4, <2>6, <3>1 DEF GoalCountsItsChildren
  <2>. QED
    BY <2>5, <2>6
<1>9. FinishedIsFinished'
  <2>1. told' = told \ {c}
    BY DEF Spawn
  <2>. QED
    BY <1>2, <1>3, <1>4, <2>1 DEF CollabInv, ChildrenAreAccounted, FinishedIsFinished, Unfinished
<1>10. DiscardFits' /\ Waiting'
  <2>1. turn = "none" => goalChildren' = goalChildren
    BY DEF Spawn
  <2>. QED
    BY <1>2, <2>1 DEF CollabInv, CollabTypeOK, DiscardFits, Bare, Waiting
<1>. QED
  BY <1>1, <1>6, <1>7, <1>8, <1>9, <1>10 DEF CollabInv, ChildrenAreAccounted

LEMMA SettlesKeeps ==
  ASSUME CollabInv, NEW e \in Executions, Settles(e)
  PROVE  CollabInv'
<1>1. CollabTypeOK'
  BY StepTyped DEF CollabNext, CollabInv
<1>2. UNCHANGED <<agent, mayCreate, slipped, entry, child, owned, orphans, turn, tool, named,
                  pending, told>>
  BY DEF Settles
<1>3. /\ Unfinished' = Unfinished \ {e} /\ e \in Unfinished
      /\ \A x \in Executions : progress'[x] = "none" <=> progress[x] = "none"
  BY DEF Settles, Unfinished, CollabInv, CollabTypeOK
<1>4. Started'
  BY <1>2, <1>3, FS_Subset DEF CollabInv, Started
<1>5. OneRunPerChild'
  <2>1. Unfinished' \ orphans' \in SUBSET (Unfinished \ orphans)
    BY <1>2, <1>3
  <2>2. IsFiniteSet(Unfinished \ orphans)
    BY FS_Subset DEF CollabInv, Started
  <2>3. /\ Cardinality(Unfinished' \ orphans') <= Cardinality(Unfinished \ orphans)
        /\ Cardinality(Unfinished' \ orphans') \in Nat /\ Cardinality(Unfinished \ orphans) \in Nat
    BY <2>1, <2>2, FS_Subset, FS_CardinalityType
  <2>. QED
    BY <1>2, <2>1, <2>3, CollabConstants DEF CollabInv, ChildrenAreAccounted, OneRunPerChild
<1>6. GoalCountsItsChildren'
  <2>. SUFFICES ASSUME ~slipped
                PROVE  goalChildren' = {child[x] : x \in {y \in Unfinished \ {e} : owned[y]}}
    BY <1>2, <1>3 DEF GoalCountsItsChildren
  <2>1. goalChildren = {child[x] : x \in {y \in Unfinished : owned[y]}}
    BY DEF CollabInv, ChildrenAreAccounted, GoalCountsItsChildren
  <2>2. goalChildren' = IF owned[e] THEN goalChildren \ {child[e]} ELSE goalChildren
    BY DEF Settles
  <2>3. \A x, y \in Unfinished : owned[x] /\ owned[y] /\ child[x] = child[y] => x = y
    BY DEF CollabInv, ChildrenAreAccounted, OneRunPerChild
  <2>. QED
    BY <1>3, <2>1, <2>2, <2>3
<1>7. FinishedIsFinished' /\ Waiting' /\ DiscardFits'
  BY <1>2, <1>3 DEF Settles, CollabInv, ChildrenAreAccounted, FinishedIsFinished, Waiting, DiscardFits, Bare
<1>. QED
  BY <1>1, <1>4, <1>5, <1>6, <1>7 DEF CollabInv, ChildrenAreAccounted

LEMMA CallKeeps ==
  ASSUME CollabInv, \/ \E S \in SUBSET Children : Wait(S)
              \/ \E c \in Children : CloseChild(c)
  PROVE  CollabInv'
<1>1. CollabTypeOK'
  BY StepTyped DEF CollabNext, CollabInv
<1>2. /\ UNCHANGED <<agent, mayCreate, slipped, entry, child, owned, orphans, goalChildren, turn>>
      /\ turn # "idle" /\ told' = {}
  BY DEF Wait, CloseChild, Calls
<1>. PICK S : progress' = progress \/ AbortAll(S)
  BY DEF Wait, CloseChild
<1>3. Unfinished' = Unfinished /\ Started' /\ OneRunPerChild' /\ GoalCountsItsChildren'
  BY <1>2, RunsGoOn
<1>4. pending' = {entry[c] : c \in named'} \cap Unfinished
  BY DEF Wait, CloseChild
<1>5. Waiting' /\ FinishedIsFinished' /\ DiscardFits'
  BY <1>2, <1>3, <1>4 DEF CollabInv, Waiting, FinishedIsFinished, DiscardFits, Bare
<1>. QED
  BY <1>1, <1>3, <1>5 DEF CollabInv, ChildrenAreAccounted

LEMMA ReturnKeeps ==
  ASSUME CollabInv, ToolReturns \/ GiveUpWait
  PROVE  CollabInv'
<1>1. CollabTypeOK'
  BY StepTyped DEF CollabNext, CollabInv
<1>2. /\ UNCHANGED <<agent, mayCreate, slipped, entry, child, owned, progress, orphans,
                     goalChildren, turn>>
      /\ tool # "none" /\ tool' = "none"
  BY DEF ToolReturns, GiveUpWait
<1>3. Unfinished' = Unfinished /\ Started' /\ OneRunPerChild' /\ GoalCountsItsChildren'
  BY <1>2, RunsGoOn
<1>4. \A e \in Unfinished \ orphans : child[e] \notin told'
  <2>. SUFFICES ASSUME NEW e \in Unfinished \ orphans, child[e] \in told' PROVE FALSE
    OBVIOUS
  <2>1. e \in Executions /\ child[e] \in Children /\ entry[child[e]] = e
    BY DEF Unfinished, CollabInv, Started, ChildrenAreAccounted, OneRunPerChild
  <2>2. CASE ToolReturns
    BY <1>2, <2>1, <2>2 DEF ToolReturns, AllSettled, CollabInv, Waiting
  <2>3. CASE GiveUpWait
    BY <2>1, <2>3, CollabConstants DEF GiveUpWait, Final
  <2>. QED
    BY <2>2, <2>3
<1>5. FinishedIsFinished' /\ Waiting' /\ DiscardFits'
  BY <1>2, <1>3, <1>4 DEF FinishedIsFinished, Waiting, CollabInv, DiscardFits, Bare
<1>. QED
  BY <1>1, <1>3, <1>5 DEF CollabInv, ChildrenAreAccounted

LEMMA InitInv == CollabInit => CollabInv
<1>. SUFFICES ASSUME CollabInit PROVE CollabInv
  OBVIOUS
<1>1. Unfinished = {} /\ IsFiniteSet({}) /\ Cardinality({}) = 0
  BY FS_EmptySet DEF CollabInit, Unfinished
<1>2. Started /\ DiscardFits /\ Waiting
  BY <1>1, CollabConstants DEF CollabInit, Started, DiscardFits, Bare, Waiting
<1>3. ChildrenAreAccounted
  BY <1>1, CollabConstants DEF CollabInit, ChildrenAreAccounted, OneRunPerChild,
     GoalCountsItsChildren, FinishedIsFinished
<1>. QED
  BY <1>2, <1>3, InitTyped DEF CollabInv

LEMMA StepInv == CollabInv /\ [CollabNext]_collabVars => CollabInv'
<1>1. CollabInv /\ UNCHANGED collabVars => CollabInv'
  BY DEF collabVars, CollabInv, CollabTypeOK, Started, DiscardFits, Bare, Waiting, ChildrenAreAccounted,
     OneRunPerChild, GoalCountsItsChildren, FinishedIsFinished, Unfinished
<1>. QED
  BY <1>1, StartTurnKeeps, ThreadKeeps, SpawnKeeps, SettlesKeeps, CallKeeps, ReturnKeeps, Zenon
     DEF CollabNext

\* A child session has one run at a time, the one the registry knows; a goal knows the
\* children it waits for; who was said to be finished is.  Orphans and what a reload
\* let slip aside, as the parts of the property say.
THEOREM ChildrenAccounted == CollabSpec => []ChildrenAreAccounted
<1>1. CollabInv => ChildrenAreAccounted
  BY DEF CollabInv
<1>. QED
  BY <1>1, InitInv, StepInv, PTL DEF CollabSpec

-----------------------------------------------------------------------------
Showing == {"pending", "announcing", "stranded"}

\* A client that is not connected shows nothing.
GoneShowNothing == \A c \in Clients \ connected : open[c] = {}

\* Whoever still shows an answered request is still to be told.
ShownIsToTell ==
  \A r \in Asked, c \in Clients : request[r] = "announcing" /\ r \in open[c] => c \in toTell[r]

\* The serializer holds every prompt once that is asked and not over, first the one that is
\* shown, which has no timeout.
InSerializer(r) == \E i \in 1..Len(prompts) : prompts[i] = r
PromptsInLine ==
  /\ \A i, j \in 1..Len(prompts) : prompts[i] = prompts[j] => i = j
  /\ \A r \in Prompts : InSerializer(r) <=> request[r] \notin {"none", "done"}
  /\ \A r \in Prompts : request[r] \in Showing => prompts[1] = r /\ durable[r]
  /\ \A r \in Approvals : request[r] # "queued"

RequestsInv ==
  /\ RequestsTypeOK /\ ClientsAreTold /\ PendingHasResponder
  /\ GoneShowNothing /\ ShownIsToTell /\ PromptsInLine

\* A request that is over leaves the line in order: a prompt was the first in it.
LEMMA OverInLine ==
  ASSUME RequestsInv, NEW r \in Asked, request[r] \notin {"none", "done"},
         r \in Prompts => prompts[1] = r, Over(r), UNCHANGED durable
  PROVE  PromptsInLine' /\ prompts' \in Seq(Prompts)
<1>1. /\ prompts \in Seq(Prompts) /\ Len(prompts) \in Nat /\ PromptsInLine
      /\ request' = [request EXCEPT ![r] = "done"] /\ DOMAIN request = Asked
  BY DEF RequestsInv, RequestsTypeOK, Over
<1>2. CASE r \in Prompts
  <2>1. prompts' = Tail(prompts)
    BY <1>2 DEF Over
  <2>2. Len(prompts) >= 1
    BY <1>1, <1>2 DEF PromptsInLine, InSerializer
  <2>3. /\ prompts' \in Seq(Prompts) /\ Len(prompts') = Len(prompts) - 1
        /\ \A i \in 1..(Len(prompts) - 1) : prompts'[i] = prompts[i + 1]
    BY <1>1, <2>1, <2>2
  <2>4. \A p \in Prompts : request'[p] = IF p = r THEN "done" ELSE request[p]
    BY <1>1 DEF Asked
  <2>5. \A i, j \in 1..Len(prompts') : prompts'[i] = prompts'[j] => i = j
    BY <1>1, <2>3, SMTT(20) DEF PromptsInLine
  <2>6. ASSUME NEW p \in Prompts
        PROVE  (\E i \in 1..Len(prompts') : prompts'[i] = p) <=> request'[p] \notin {"none", "done"}
    <3>1. CASE p = r
      <4>1. ASSUME NEW i \in 1..Len(prompts')
            PROVE  prompts'[i] # r
        <5>1. /\ 1 \in 1..Len(prompts) /\ i + 1 \in 1..Len(prompts) /\ i + 1 # 1
              /\ prompts'[i] = prompts[i + 1]
          BY <1>1, <2>2, <2>3
        <5>. QED
          BY <1>1, <1>2, <5>1 DEF PromptsInLine
      <4>. QED
        BY <2>4, <3>1, <4>1
    <3>2. CASE p # r
      <4>1. (\E i \in 1..Len(prompts) : prompts[i] = p) <=> request[p] \notin {"none", "done"}
        BY <1>1 DEF PromptsInLine, InSerializer
      <4>2. ASSUME NEW i \in 1..Len(prompts), prompts[i] = p
            PROVE  \E j \in 1..Len(prompts') : prompts'[j] = p
        <5>1. i # 1
          BY <1>2, <3>2, <4>2
        <5>2. i - 1 \in 1..Len(prompts') /\ prompts'[i - 1] = p
          BY <1>1, <2>2, <2>3, <4>2, <5>1
        <5>. QED
          BY <5>2
      <4>3. ASSUME NEW j \in 1..Len(prompts'), prompts'[j] = p
            PROVE  \E i \in 1..Len(prompts) : prompts[i] = p
        <5>1. j + 1 \in 1..Len(prompts) /\ prompts[j + 1] = p
          BY <1>1, <2>2, <2>3, <4>3
        <5>. QED
          BY <5>1
      <4>. QED
        BY <2>4, <3>2, <4>1, <4>2, <4>3
    <3>. QED
      BY <3>1, <3>2
  <2>7. \A p \in Prompts : request'[p] \notin Showing
    BY <1>1, <1>2, <2>4 DEF PromptsInLine, Showing
  <2>8. \A p \in Approvals : request'[p] # "queued"
    BY <1>1 DEF PromptsInLine, Asked
  <2>. QED
    BY <1>1, <2>3, <2>5, <2>6, <2>7, <2>8 DEF PromptsInLine, InSerializer
<1>3. CASE r \notin Prompts
  <2>1. prompts' = prompts /\ \A p \in Prompts : request'[p] = request[p]
    BY <1>1, <1>3 DEF Over, Asked
  <2>2. \A p \in Approvals : request'[p] # "queued"
    BY <1>1 DEF PromptsInLine, Asked
  <2>. QED
    BY <1>1, <2>1, <2>2 DEF PromptsInLine, InSerializer
<1>. QED
  BY <1>2, <1>3

\* A connection comes: it shows nothing yet.
LEMMA ConnectStep ==
  ASSUME RequestsInv, NEW c \in Clients, Connect(c)
  PROVE  RequestsInv'
<1>1. RequestsTypeOK'
  BY RequestConstants DEF RequestsInv, Connect, RequestsTypeOK, Asked
<1>2. ClientsAreTold'
  BY RequestConstants DEF RequestsInv, Connect, RequestsTypeOK, ClientsAreTold,
     GoneShowNothing, ShownIsToTell, Asked
<1>3. PendingHasResponder'
  BY RequestConstants DEF RequestsInv, Connect, RequestsTypeOK, PendingHasResponder, Pending, Asked
<1>4. GoneShowNothing'
  BY RequestConstants DEF RequestsInv, Connect, RequestsTypeOK, ClientsAreTold,
     GoneShowNothing, Asked
<1>5. ShownIsToTell'
  BY RequestConstants DEF RequestsInv, Connect, RequestsTypeOK, ClientsAreTold,
     GoneShowNothing, ShownIsToTell, Asked
<1>6. PromptsInLine'
  BY RequestConstants DEF RequestsInv, Connect, RequestsTypeOK, PromptsInLine, InSerializer,
     Showing, Asked
<1>. QED
  BY <1>1, <1>2, <1>3, <1>4, <1>5, <1>6 DEF RequestsInv

\* A client subscribes to the thread, and is sent what it has missed.
LEMMA SubscribeStep ==
  ASSUME RequestsInv, NEW c \in Clients, Subscribe(c)
  PROVE  RequestsInv'
<1>1. RequestsTypeOK'
  BY RequestConstants DEF RequestsInv, Subscribe, Redelivered, Pending, RequestsTypeOK, Asked
<1>2. ClientsAreTold'
  BY RequestConstants DEF RequestsInv, Subscribe, Redelivered, Pending, RequestsTypeOK,
     ClientsAreTold, GoneShowNothing, ShownIsToTell, Asked
<1>3. PendingHasResponder'
  BY RequestConstants DEF RequestsInv, Subscribe, Redelivered, Pending, RequestsTypeOK,
     PendingHasResponder, Pending, Asked
<1>4. GoneShowNothing'
  BY RequestConstants DEF RequestsInv, Subscribe, Redelivered, Pending, RequestsTypeOK,
     ClientsAreTold, GoneShowNothing, Asked
<1>5. ShownIsToTell'
  BY RequestConstants DEF RequestsInv, Subscribe, Redelivered, Pending, RequestsTypeOK,
     ClientsAreTold, GoneShowNothing, ShownIsToTell, Asked
<1>6. PromptsInLine'
  BY RequestConstants DEF RequestsInv, Subscribe, Redelivered, Pending, RequestsTypeOK,
     PromptsInLine, InSerializer, Showing, Asked
<1>. QED
  BY <1>1, <1>2, <1>3, <1>4, <1>5, <1>6 DEF RequestsInv

\* It no longer follows the thread.
LEMMA UnsubscribeStep ==
  ASSUME RequestsInv, NEW c \in Clients, Unsubscribe(c)
  PROVE  RequestsInv'
<1>1. RequestsTypeOK'
  BY RequestConstants DEF RequestsInv, Unsubscribe, RequestsTypeOK, Asked
<1>2. ClientsAreTold'
  BY RequestConstants DEF RequestsInv, Unsubscribe, RequestsTypeOK, ClientsAreTold,
     GoneShowNothing, ShownIsToTell, Asked
<1>3. PendingHasResponder'
  BY RequestConstants DEF RequestsInv, Unsubscribe, RequestsTypeOK, PendingHasResponder,
     Pending, Asked
<1>4. GoneShowNothing'
  BY RequestConstants DEF RequestsInv, Unsubscribe, RequestsTypeOK, ClientsAreTold,
     GoneShowNothing, Asked
<1>5. ShownIsToTell'
  BY RequestConstants DEF RequestsInv, Unsubscribe, RequestsTypeOK, ClientsAreTold,
     GoneShowNothing, ShownIsToTell, Asked
<1>6. PromptsInLine'
  BY RequestConstants DEF RequestsInv, Unsubscribe, RequestsTypeOK, PromptsInLine,
     InSerializer, Showing, Asked
<1>. QED
  BY <1>1, <1>2, <1>3, <1>4, <1>5, <1>6 DEF RequestsInv

\* A connection is lost, and with it the requests only it could answer.
LEMMA DisconnectStep ==
  ASSUME RequestsInv, NEW c \in Clients, Disconnect(c)
  PROVE  RequestsInv'
<1>1. RequestsTypeOK'
  BY RequestConstants DEF RequestsInv, Disconnect, Abandoned, Pending, RequestsTypeOK, Asked
<1>2. ClientsAreTold'
  BY RequestConstants DEF RequestsInv, Disconnect, Abandoned, Pending, RequestsTypeOK,
     ClientsAreTold, GoneShowNothing, ShownIsToTell, Asked
<1>3. PendingHasResponder'
  BY RequestConstants DEF RequestsInv, Disconnect, Abandoned, Pending, RequestsTypeOK,
     PendingHasResponder, Pending, Asked
<1>4. GoneShowNothing'
  BY RequestConstants DEF RequestsInv, Disconnect, Abandoned, Pending, RequestsTypeOK,
     ClientsAreTold, GoneShowNothing, Asked
<1>5. ShownIsToTell'
  BY RequestConstants DEF RequestsInv, Disconnect, Abandoned, Pending, RequestsTypeOK,
     ClientsAreTold, GoneShowNothing, ShownIsToTell, Asked
<1>6. PromptsInLine'
  BY RequestConstants DEF RequestsInv, Disconnect, Abandoned, Pending, RequestsTypeOK,
     PromptsInLine, InSerializer, Showing, Asked
<1>. QED
  BY <1>1, <1>2, <1>3, <1>4, <1>5, <1>6 DEF RequestsInv

\* The next approval is asked of whoever is connected.
LEMMA AskApprovalStep ==
  ASSUME RequestsInv, NEW r \in Approvals, NEW goalOwned \in BOOLEAN, AskApproval(r, goalOwned)
  PROVE  RequestsInv'
<1>1. RequestsTypeOK'
  BY RequestConstants DEF RequestsInv, AskApproval, Broadcast, Over, RequestsTypeOK, Asked
<1>2. ClientsAreTold'
  BY RequestConstants DEF RequestsInv, AskApproval, Broadcast, Over, RequestsTypeOK,
     ClientsAreTold, GoneShowNothing, ShownIsToTell, Asked
<1>3. PendingHasResponder'
  BY RequestConstants DEF RequestsInv, AskApproval, Broadcast, Over, RequestsTypeOK,
     PendingHasResponder, Pending, Asked
<1>4. GoneShowNothing'
  BY RequestConstants DEF RequestsInv, AskApproval, Broadcast, Over, RequestsTypeOK,
     ClientsAreTold, GoneShowNothing, Asked
<1>5. ShownIsToTell'
  BY RequestConstants DEF RequestsInv, AskApproval, Broadcast, Over, RequestsTypeOK,
     ClientsAreTold, GoneShowNothing, ShownIsToTell, Asked
<1>6. PromptsInLine'
  BY RequestConstants DEF RequestsInv, AskApproval, Broadcast, Over, RequestsTypeOK,
     PromptsInLine, InSerializer, Showing, Asked
<1>. QED
  BY <1>1, <1>2, <1>3, <1>4, <1>5, <1>6 DEF RequestsInv

\* A prompt takes its place in line.
LEMMA AskInputStep ==
  ASSUME RequestsInv, NEW r \in Prompts, AskInput(r)
  PROVE  RequestsInv'
<1>1. RequestsTypeOK'
  BY RequestConstants DEF RequestsInv, AskInput, RequestsTypeOK, Asked
<1>2. ClientsAreTold'
  BY RequestConstants DEF RequestsInv, AskInput, RequestsTypeOK, ClientsAreTold,
     GoneShowNothing, ShownIsToTell, Asked
<1>3. PendingHasResponder'
  BY RequestConstants DEF RequestsInv, AskInput, RequestsTypeOK, PendingHasResponder, Pending, Asked
<1>4. GoneShowNothing'
  BY RequestConstants DEF RequestsInv, AskInput, RequestsTypeOK, ClientsAreTold,
     GoneShowNothing, Asked
<1>5. ShownIsToTell'
  BY RequestConstants DEF RequestsInv, AskInput, RequestsTypeOK, ClientsAreTold,
     GoneShowNothing, ShownIsToTell, Asked
<1>6. PromptsInLine'
  BY RequestConstants DEF RequestsInv, AskInput, RequestsTypeOK, PromptsInLine, InSerializer,
     Showing, Asked
<1>. QED
  BY <1>1, <1>2, <1>3, <1>4, <1>5, <1>6 DEF RequestsInv

\* The first in line is shown, unless its caller has gone.
LEMMA StartPromptStep ==
  ASSUME RequestsInv, NEW r \in Prompts, NEW goalOwned \in BOOLEAN, StartPrompt(r, goalOwned)
  PROVE  RequestsInv'
<1>1. PromptsInLine' /\ prompts' \in Seq(Prompts)
  <2>1. /\ request[r] = "queued" /\ prompts \in Seq(Prompts) /\ PromptsInLine
        /\ r \in Asked /\ r = Head(prompts)
    BY DEF StartPrompt, NextPrompt, RequestsInv, RequestsTypeOK, Asked
  <2>2. prompts[1] = r
    BY <2>1 DEF PromptsInLine, InSerializer
  <2>3. CASE Over(r) /\ durable' = durable
    BY <2>1, <2>2, <2>3, OverInLine
  <2>4. CASE ~(Over(r) /\ durable' = durable)
    <3>1. /\ request' = [request EXCEPT ![r] = "pending"] /\ prompts' = prompts
          /\ durable' = [durable EXCEPT ![r] = TRUE]
      BY <2>4 DEF StartPrompt, Broadcast
    <3>2. \A p \in Prompts : p # r => request[p] \notin Showing
      BY <2>1, <2>2 DEF PromptsInLine, Showing
    <3>. QED
      BY <2>1, <2>2, <3>1, <3>2 DEF RequestsInv, RequestsTypeOK, PromptsInLine,
         InSerializer, Showing, Asked
  <2>. QED
    BY <2>3, <2>4
<1>2. RequestsTypeOK'
  <2>1. connected' \subseteq Clients /\ subscribed' \subseteq connected'
    BY RequestConstants DEF RequestsInv, StartPrompt, NextPrompt, Broadcast, Over,
       RequestsTypeOK, Asked
  <2>2. open' \in [Clients -> SUBSET Asked]
    BY RequestConstants DEF RequestsInv, StartPrompt, NextPrompt, Broadcast, Over,
       RequestsTypeOK, Asked
  <2>3. request' \in [Asked -> {"none", "queued", "pending", "announcing", "stranded", "done"}]
    BY RequestConstants DEF RequestsInv, StartPrompt, NextPrompt, Broadcast, Over,
       RequestsTypeOK, Asked
  <2>4. durable' \in [Asked -> BOOLEAN]
    BY RequestConstants DEF RequestsInv, StartPrompt, NextPrompt, Broadcast, Over,
       RequestsTypeOK, Asked
  <2>5. sentTo' \in [Asked -> SUBSET connected'] /\ toTell' \in [Asked -> SUBSET connected']
    BY RequestConstants DEF RequestsInv, StartPrompt, NextPrompt, Broadcast, Over,
       RequestsTypeOK, Asked
  <2>6. cancelled' \subseteq Prompts /\ answered' \subseteq Asked /\ failedSends' \in Nat
    BY RequestConstants DEF RequestsInv, StartPrompt, RequestsTypeOK, PromptsInLine, Asked,
       NextPrompt, Broadcast
  <2>. QED
    BY <1>1, <2>1, <2>2, <2>3, <2>4, <2>5, <2>6 DEF RequestsTypeOK
<1>3. ClientsAreTold'
  BY RequestConstants DEF RequestsInv, StartPrompt, NextPrompt, Broadcast, Over,
     RequestsTypeOK, ClientsAreTold, GoneShowNothing, ShownIsToTell, Asked
<1>4. PendingHasResponder'
  BY RequestConstants DEF RequestsInv, StartPrompt, NextPrompt, Broadcast, Over,
     RequestsTypeOK, PendingHasResponder, Pending, Asked
<1>5. GoneShowNothing'
  BY RequestConstants DEF RequestsInv, StartPrompt, NextPrompt, Broadcast, Over,
     RequestsTypeOK, ClientsAreTold, GoneShowNothing, Asked
<1>6. ShownIsToTell'
  BY RequestConstants DEF RequestsInv, StartPrompt, NextPrompt, Broadcast, Over,
     RequestsTypeOK, ClientsAreTold, GoneShowNothing, ShownIsToTell, Asked
<1>. QED
  BY <1>1, <1>2, <1>3, <1>4, <1>5, <1>6 DEF RequestsInv

\* Telling a client fails, and the request is never over.
LEMMA SendFailsStep ==
  ASSUME RequestsInv, NEW r \in Asked, SendFails(r)
  PROVE  RequestsInv'
<1>1. RequestsTypeOK'
  BY RequestConstants DEF RequestsInv, SendFails, RequestsTypeOK, Asked
<1>2. ClientsAreTold'
  BY RequestConstants DEF RequestsInv, SendFails, RequestsTypeOK, ClientsAreTold,
     GoneShowNothing, ShownIsToTell, Asked
<1>3. PendingHasResponder'
  BY RequestConstants DEF RequestsInv, SendFails, RequestsTypeOK, PendingHasResponder,
     Pending, Asked
<1>4. GoneShowNothing'
  BY RequestConstants DEF RequestsInv, SendFails, RequestsTypeOK, ClientsAreTold,
     GoneShowNothing, Asked
<1>5. ShownIsToTell'
  BY RequestConstants DEF RequestsInv, SendFails, RequestsTypeOK, ClientsAreTold,
     GoneShowNothing, ShownIsToTell, Asked
<1>6. PromptsInLine'
  BY RequestConstants DEF RequestsInv, SendFails, RequestsTypeOK, PromptsInLine, InSerializer,
     Showing, Asked
<1>. QED
  BY <1>1, <1>2, <1>3, <1>4, <1>5, <1>6 DEF RequestsInv

\* An answered request is over when all have been told.
LEMMA AnsweredStep ==
  ASSUME RequestsInv, NEW r \in Asked, Answered(r)
  PROVE  RequestsInv'
<1>1. PromptsInLine' /\ prompts' \in Seq(Prompts)
  <2>1. request[r] = "announcing" /\ Over(r) /\ durable' = durable
    BY DEF Answered, AllTold
  <2>2. r \in Prompts => prompts[1] = r
    BY <2>1 DEF RequestsInv, PromptsInLine, Showing
  <2>. QED
    BY <2>1, <2>2, OverInLine
<1>2. RequestsTypeOK'
  BY <1>1, RequestConstants DEF RequestsInv, Answered, AllTold, Over, RequestsTypeOK, Asked
<1>3. ClientsAreTold'
  BY RequestConstants DEF RequestsInv, Answered, AllTold, Over, RequestsTypeOK,
     ClientsAreTold, GoneShowNothing, ShownIsToTell, Asked
<1>4. PendingHasResponder'
  BY RequestConstants DEF RequestsInv, Answered, AllTold, Over, RequestsTypeOK,
     PendingHasResponder, Pending, Asked
<1>5. GoneShowNothing'
  BY RequestConstants DEF RequestsInv, Answered, AllTold, Over, RequestsTypeOK,
     ClientsAreTold, GoneShowNothing, Asked
<1>6. ShownIsToTell'
  BY RequestConstants DEF RequestsInv, Answered, AllTold, Over, RequestsTypeOK,
     ClientsAreTold, GoneShowNothing, ShownIsToTell, Asked
<1>. QED
  BY <1>1, <1>2, <1>3, <1>4, <1>5, <1>6 DEF RequestsInv

\* The time of a request is over.
LEMMA TimeOutStep ==
  ASSUME RequestsInv, NEW r \in Asked, TimeOut(r)
  PROVE  RequestsInv'
<1>1. PromptsInLine' /\ prompts' \in Seq(Prompts)
  <2>1. request[r] = "pending" /\ Over(r) /\ durable' = durable
    BY DEF TimeOut
  <2>2. r \in Prompts => prompts[1] = r
    BY <2>1 DEF RequestsInv, PromptsInLine, Showing
  <2>. QED
    BY <2>1, <2>2, OverInLine
<1>2. RequestsTypeOK'
  BY <1>1, RequestConstants DEF RequestsInv, TimeOut, Over, Tell, RequestsTypeOK, Asked
<1>3. ClientsAreTold'
  BY RequestConstants DEF RequestsInv, TimeOut, Over, Tell, RequestsTypeOK, ClientsAreTold,
     GoneShowNothing, ShownIsToTell, Asked
<1>4. PendingHasResponder'
  BY RequestConstants DEF RequestsInv, TimeOut, Over, Tell, RequestsTypeOK,
     PendingHasResponder, Pending, Asked
<1>5. GoneShowNothing'
  BY RequestConstants DEF RequestsInv, TimeOut, Over, Tell, RequestsTypeOK, ClientsAreTold,
     GoneShowNothing, Asked
<1>6. ShownIsToTell'
  BY RequestConstants DEF RequestsInv, TimeOut, Over, Tell, RequestsTypeOK, ClientsAreTold,
     GoneShowNothing, ShownIsToTell, Asked
<1>. QED
  BY <1>1, <1>2, <1>3, <1>4, <1>5, <1>6 DEF RequestsInv

\* The caller of a request is aborted.
LEMMA CancelStep ==
  ASSUME RequestsInv, NEW r \in Asked, Cancel(r)
  PROVE  RequestsInv'
<1>1. PromptsInLine' /\ prompts' \in Seq(Prompts)
  <2>1. CASE request[r] \in Showing
    <3>1. Over(r) /\ durable' = durable
      BY <2>1 DEF Cancel, Showing
    <3>2. r \in Prompts => prompts[1] = r
      BY <2>1 DEF RequestsInv, PromptsInLine
    <3>. QED
      BY <2>1, <3>1, <3>2, OverInLine DEF Showing
  <2>2. CASE request[r] \notin Showing
    <3>1. UNCHANGED <<request, prompts, durable>>
      BY <2>2 DEF Cancel, Showing
    <3>. QED
      BY <3>1 DEF RequestsInv, RequestsTypeOK, PromptsInLine, InSerializer
  <2>. QED
    BY <2>1, <2>2
<1>2. RequestsTypeOK'
  <2>1. connected' \subseteq Clients /\ subscribed' \subseteq connected'
    BY RequestConstants DEF RequestsInv, Cancel, Over, Tell, RequestsTypeOK, Asked
  <2>2. open' \in [Clients -> SUBSET Asked]
    BY RequestConstants DEF RequestsInv, Cancel, Over, Tell, RequestsTypeOK, Asked
  <2>3. request' \in [Asked -> {"none", "queued", "pending", "announcing", "stranded", "done"}]
    BY RequestConstants DEF RequestsInv, Cancel, Over, Tell, RequestsTypeOK, Asked
  <2>4. durable' \in [Asked -> BOOLEAN]
    BY RequestConstants DEF RequestsInv, Cancel, Over, Tell, RequestsTypeOK, Asked
  <2>5. sentTo' \in [Asked -> SUBSET connected'] /\ toTell' \in [Asked -> SUBSET connected']
    BY RequestConstants DEF RequestsInv, Cancel, Over, Tell, RequestsTypeOK, Asked
  <2>6. cancelled' \subseteq Prompts /\ answered' \subseteq Asked /\ failedSends' \in Nat
    BY RequestConstants DEF RequestsInv, Cancel, RequestsTypeOK, PromptsInLine, Asked
  <2>. QED
    BY <1>1, <2>1, <2>2, <2>3, <2>4, <2>5, <2>6 DEF RequestsTypeOK
<1>3. ClientsAreTold'
  BY RequestConstants DEF RequestsInv, Cancel, Over, Tell, RequestsTypeOK, ClientsAreTold,
     GoneShowNothing, ShownIsToTell, Asked
<1>4. PendingHasResponder'
  BY RequestConstants DEF RequestsInv, Cancel, Over, Tell, RequestsTypeOK,
     PendingHasResponder, Pending, Asked
<1>5. GoneShowNothing'
  BY RequestConstants DEF RequestsInv, Cancel, Over, Tell, RequestsTypeOK, ClientsAreTold,
     GoneShowNothing, Asked
<1>6. ShownIsToTell'
  BY RequestConstants DEF RequestsInv, Cancel, Over, Tell, RequestsTypeOK, ClientsAreTold,
     GoneShowNothing, ShownIsToTell, Asked
<1>. QED
  BY <1>1, <1>2, <1>3, <1>4, <1>5, <1>6 DEF RequestsInv

\* A client answers.
LEMMA AnswerStep ==
  ASSUME RequestsInv, NEW r \in Asked, NEW c \in Clients, Answer(r, c)
  PROVE  RequestsInv'
<1>1. RequestsTypeOK'
  BY RequestConstants DEF RequestsInv, Answer, RequestsTypeOK, Asked
<1>2. ClientsAreTold'
  BY RequestConstants DEF RequestsInv, Answer, RequestsTypeOK, ClientsAreTold,
     GoneShowNothing, ShownIsToTell, Asked
<1>3. PendingHasResponder'
  BY RequestConstants DEF RequestsInv, Answer, RequestsTypeOK, PendingHasResponder, Pending, Asked
<1>4. GoneShowNothing'
  BY RequestConstants DEF RequestsInv, Answer, RequestsTypeOK, ClientsAreTold,
     GoneShowNothing, Asked
<1>5. ShownIsToTell'
  BY RequestConstants DEF RequestsInv, Answer, RequestsTypeOK, ClientsAreTold,
     GoneShowNothing, ShownIsToTell, Asked
<1>6. PromptsInLine'
  BY RequestConstants DEF RequestsInv, Answer, RequestsTypeOK, PromptsInLine, InSerializer,
     Showing, Asked
<1>. QED
  BY <1>1, <1>2, <1>3, <1>4, <1>5, <1>6 DEF RequestsInv

\* One of the others is told.
LEMMA AnnounceStep ==
  ASSUME RequestsInv, NEW r \in Asked, NEW c \in Clients, Announce(r, c)
  PROVE  RequestsInv'
<1>1. RequestsTypeOK'
  BY RequestConstants DEF RequestsInv, Announce, Tell, RequestsTypeOK, Asked
<1>2. ClientsAreTold'
  BY RequestConstants DEF RequestsInv, Announce, Tell, RequestsTypeOK, ClientsAreTold,
     GoneShowNothing, ShownIsToTell, Asked
<1>3. PendingHasResponder'
  BY RequestConstants DEF RequestsInv, Announce, Tell, RequestsTypeOK, PendingHasResponder,
     Pending, Asked
<1>4. GoneShowNothing'
  BY RequestConstants DEF RequestsInv, Announce, Tell, RequestsTypeOK, ClientsAreTold,
     GoneShowNothing, Asked
<1>5. ShownIsToTell'
  BY RequestConstants DEF RequestsInv, Announce, Tell, RequestsTypeOK, ClientsAreTold,
     GoneShowNothing, ShownIsToTell, Asked
<1>6. PromptsInLine'
  BY RequestConstants DEF RequestsInv, Announce, Tell, RequestsTypeOK, PromptsInLine,
     InSerializer, Showing, Asked
<1>. QED
  BY <1>1, <1>2, <1>3, <1>4, <1>5, <1>6 DEF RequestsInv

\* Nothing has been asked.
LEMMA InitStep == RequestsInit => RequestsInv
<1>. SUFFICES ASSUME RequestsInit PROVE RequestsInv
  OBVIOUS
<1>1. RequestsTypeOK
  BY DEF RequestsInit, RequestsTypeOK
<1>2. ClientsAreTold /\ PendingHasResponder /\ GoneShowNothing /\ ShownIsToTell
  BY DEF RequestsInit, ClientsAreTold, PendingHasResponder, GoneShowNothing, ShownIsToTell, Pending
<1>3. PromptsInLine
  BY DEF RequestsInit, PromptsInLine, InSerializer, Showing, Asked
<1>. QED
  BY <1>1, <1>2, <1>3 DEF RequestsInv

\* What a client shows of prompts is at most the first in line.
LEMMA InvShowsOne == RequestsInv => OnePromptAtATime
<1>. SUFFICES ASSUME RequestsInv, NEW c \in Clients
              PROVE  Cardinality(open[c] \cap Prompts) <= 1
  BY DEF OnePromptAtATime
<1>. DEFINE S == open[c] \cap Prompts
<1>1. S \subseteq {prompts[1]}
  BY DEF RequestsInv, RequestsTypeOK, ClientsAreTold, GoneShowNothing, PromptsInLine, Showing, Asked
<1>. HIDE DEF S
<1>2. S = {} \/ S = {prompts[1]}
  BY <1>1
<1>3. Cardinality(S) = 0 \/ Cardinality(S) = 1
  BY <1>2, FS_EmptySet, FS_Singleton
<1>. QED
  BY <1>3 DEF S

LEMMA RequestsInvHolds == RequestsSpec => []RequestsInv
<1>1. RequestsInv /\ [RequestsNext]_requestVars => RequestsInv'
  <2>. SUFFICES ASSUME RequestsInv, [RequestsNext]_requestVars PROVE RequestsInv'
    OBVIOUS
  <2>1. CASE RequestsNext
    BY <2>1, ConnectStep, SubscribeStep, UnsubscribeStep, DisconnectStep, AskApprovalStep,
       AskInputStep, StartPromptStep, SendFailsStep, AnsweredStep, TimeOutStep, CancelStep,
       AnswerStep, AnnounceStep DEF RequestsNext
  <2>2. CASE UNCHANGED requestVars
    BY <2>2 DEF requestVars, RequestsInv, RequestsTypeOK, ClientsAreTold, PendingHasResponder,
                GoneShowNothing, ShownIsToTell, PromptsInLine, InSerializer, Pending
  <2>. QED
    BY <2>1, <2>2
<1>. QED
  BY <1>1, InitStep, PTL DEF RequestsSpec

\* The types of the requests, of who was sent them and is to be told, and of the prompts
\* in line.
THEOREM RequestsTyped == RequestsSpec => []RequestsTypeOK
<1>1. RequestsInv => RequestsTypeOK
  BY DEF RequestsInv
<1>. QED
  BY <1>1, RequestsInvHolds, PTL

\* Every request that waits has a connection that can answer it, or will have one.
THEOREM RequestsHaveResponders == RequestsSpec => []PendingHasResponder
<1>1. RequestsInv => PendingHasResponder
  BY DEF RequestsInv
<1>. QED
  BY <1>1, RequestsInvHolds, PTL

\* No client is left showing a request that is settled.
THEOREM EveryClientIsTold == RequestsSpec => []ClientsAreTold
<1>1. RequestsInv => ClientsAreTold
  BY DEF RequestsInv
<1>. QED
  BY <1>1, RequestsInvHolds, PTL

\* No client shows two prompts.
THEOREM PromptsComeOneByOne == RequestsSpec => []OnePromptAtATime
<1>. QED
  BY InvShowsOne, RequestsInvHolds, PTL

-----------------------------------------------------------------------------
\* Reads

Increasing(g, n) ==
  /\ g \in [1..n -> Nat \ {0}]
  /\ \A i, j \in 1..n : i < j => g[i] < g[j]

\* Numbers that increase are as far apart as their positions.
LEMMA IncreasingSteps ==
  ASSUME NEW n \in Nat, NEW g, Increasing(g, n), NEW i \in 1..n, NEW j \in i..n
  PROVE  g[j] >= g[i] + (j - i)
<1>. DEFINE B == {k \in i..n : ~(g[k] >= g[i] + (k - i))}
<1>. SUFFICES ASSUME B # {} PROVE FALSE
  OBVIOUS
<1>1. B \subseteq Nat
  OBVIOUS
<1>2. PICK k \in B : \A l \in B : k <= l
  BY <1>1, LeastNatural
<1>3. \A l \in 1..n : g[l] \in Nat
  BY DEF Increasing
<1>4. k # i
  BY <1>3
<1>5. k - 1 \in i..n /\ k - 1 \notin B /\ k \in i..n /\ k - 1 \in 1..n /\ k \in 1..n
  BY <1>2, <1>4
<1>6. g[k - 1] >= g[i] + (k - 1 - i)
  BY <1>5
<1>7. g[k - 1] < g[k]
  BY <1>5 DEF Increasing
<1>. QED
  BY <1>2, <1>3, <1>5, <1>6, <1>7

LEMMA IncreasingIsAbove ==
  ASSUME NEW n \in Nat, NEW g, Increasing(g, n), NEW i \in 1..n
  PROVE  g[i] \in Nat /\ g[i] >= i
<1>1. 1 \in 1..n /\ i \in 1..n
  OBVIOUS
<1>2. g[1] \in Nat \ {0} /\ g[i] \in Nat
  BY <1>1 DEF Increasing
<1>3. g[i] >= g[1] + (i - 1)
  BY <1>1, IncreasingSteps
<1>. QED
  BY <1>2, <1>3

\* Everything written, or still to be written, in the order of the file.
All == file \o unwritten

\* s has some of the entries of all, in the same order.
InOrder(s, all) ==
  \E g : /\ Increasing(g, Len(s))
         /\ \A i \in 1..Len(s) : g[i] \in 1..Len(all) /\ all[g[i]] = s[i]

Entry == 1..MaxEntries
ReadRecord == [stage : {"none", "waiting", "comparing", "adopting"}, shared : BOOLEAN,
               list : Seq(Entry), leaf : Nat, known : Nat, waits : Nat,
               lines : Seq(Entry), compared : Nat, undisturbed : BOOLEAN]

TurnFits ==
  /\ turnStage \in {"none", "starting", "preparing", "running", "ending"}
  /\ pendingEntries \in Seq(Entry) /\ staged \in Seq(Entry)
  /\ staged # <<>> => turnStage \in {"preparing", "running"} /\ pendingEntries \in {<<>>, staged}

EntryTypes ==
  /\ newest \in 0..MaxEntries
  /\ committed \in Seq(Entry) /\ unwritten \in Seq(Entry) /\ file \in Seq(Entry)

ReadTypes ==
  /\ read \in [Reads -> ReadRecord]
  /\ \A r \in Reads : read[r].waits <= Len(unwritten)

\* An entry is made once.
Once(s, n) ==
  /\ \A a \in 1..Len(s) : s[a] <= n
  /\ \A a, b \in 1..Len(s) : s[a] = s[b] => a = b

IsPrefixOf(s, t) == Len(s) <= Len(t) /\ \A i \in 1..Len(s) : s[i] = t[i]

\* What the thread had when it was seen idle is in the file or will be when it is read.
KnownFits(r) ==
  read[r].shared =>
    /\ read[r].known <= Len(committed)
    /\ read[r].undisturbed => read[r].known = Len(committed)
    /\ read[r].stage = "waiting" =>
         \A i \in 1..read[r].known : \E k \in 1..(Len(file) + read[r].waits) :
           k <= Len(All) /\ committed[i] = All[k]
    /\ read[r].stage \in {"comparing", "adopting"} =>
         \A i \in 1..read[r].known : \E k \in 1..Len(read[r].lines) :
           committed[i] = read[r].lines[k]

\* What is adopted is no shorter than the list was.
ComparedFits(r) ==
  read[r].stage = "adopting" =>
    /\ read[r].shared => read[r].compared <= Len(committed)
    /\ read[r].compared <= Len(read[r].lines)

LinesFit(r) ==
  read[r].stage \in {"comparing", "adopting"} => IsPrefixOf(read[r].lines, file)

ReadFits(r) ==
  read[r].stage # "none" =>
    /\ KnownFits(r) /\ ComparedFits(r) /\ LinesFit(r)
    /\ read[r].undisturbed => read[r].shared

ReconcileInv ==
  /\ TurnFits /\ EntryTypes /\ ReadTypes
  /\ Once(All \o staged, newest) /\ InOrder(committed, All)
  /\ \A r \in Reads : ReadFits(r)

LEMMA ConcatIs ==
  ASSUME NEW s \in Seq(Entry), NEW t \in Seq(Entry)
  PROVE  /\ s \o t \in Seq(Entry) /\ Len(s \o t) = Len(s) + Len(t)
         /\ \A i \in 1..(Len(s) + Len(t)) :
              (s \o t)[i] = IF i <= Len(s) THEN s[i] ELSE t[i - Len(s)]
OBVIOUS

LEMMA ConcatAssociates ==
  ASSUME NEW s \in Seq(Entry), NEW t \in Seq(Entry), NEW u \in Seq(Entry)
  PROVE  (s \o t) \o u = s \o (t \o u)
<1>. DEFINE v == s \o t
            w == t \o u
            n == Len(s)
            m == Len(t)
            l == Len(u)
<1>1. n \in Nat /\ m \in Nat /\ l \in Nat
  OBVIOUS
<1>2. /\ v \in Seq(Entry) /\ Len(v) = n + m
      /\ \A i \in 1..(n + m) : v[i] = IF i <= n THEN s[i] ELSE t[i - n]
  OBVIOUS
<1>3. /\ w \in Seq(Entry) /\ Len(w) = m + l
      /\ \A i \in 1..(m + l) : w[i] = IF i <= m THEN t[i] ELSE u[i - m]
  OBVIOUS
<1>. HIDE DEF v, w
<1>4. /\ v \o u \in Seq(Entry) /\ Len(v \o u) = n + m + l
      /\ \A i \in 1..(n + m + l) : (v \o u)[i] = IF i <= n + m THEN v[i] ELSE u[i - (n + m)]
  <2>1. /\ v \o u \in Seq(Entry) /\ Len(v \o u) = Len(v) + Len(u)
        /\ \A i \in 1..(Len(v) + Len(u)) :
             (v \o u)[i] = IF i <= Len(v) THEN v[i] ELSE u[i - Len(v)]
    BY <1>2, ConcatIs
  <2>2. Len(v) + Len(u) = n + m + l
    BY <1>1, <1>2
  <2>. QED
    BY <1>2, <2>1, <2>2
<1>5. /\ s \o w \in Seq(Entry) /\ Len(s \o w) = n + (m + l)
      /\ \A i \in 1..(n + (m + l)) : (s \o w)[i] = IF i <= n THEN s[i] ELSE w[i - n]
  <2>1. /\ s \o w \in Seq(Entry) /\ Len(s \o w) = Len(s) + Len(w)
        /\ \A i \in 1..(Len(s) + Len(w)) :
             (s \o w)[i] = IF i <= Len(s) THEN s[i] ELSE w[i - Len(s)]
    BY <1>3, ConcatIs
  <2>. QED
    BY <1>3, <2>1
<1>. DEFINE x == v \o u
            y == s \o w
<1>. HIDE DEF n, m, l, x, y
<1>6. ASSUME NEW i \in 1..(n + m + l)
      PROVE  x[i] = y[i]
  <2>1. CASE i <= n
    BY <1>1, <1>2, <1>4, <1>5, <2>1 DEF x, y
  <2>2. CASE ~(i <= n) /\ i <= n + m
    <3>1. i - n \in 1..(m + l) /\ i - n <= m /\ i \in 1..(n + m) /\ i \in 1..(n + (m + l))
      BY <1>1, <2>2
    <3>2. x[i] = v[i] /\ v[i] = t[i - n]
      BY <1>2, <1>4, <2>2, <3>1 DEF x
    <3>3. y[i] = w[i - n] /\ w[i - n] = t[i - n]
      BY <1>3, <1>5, <2>2, <3>1 DEF y
    <3>. QED
      BY <3>2, <3>3
  <2>3. CASE ~(i <= n + m)
    <3>1. /\ i - n \in 1..(m + l) /\ ~(i - n <= m) /\ ~(i <= n) /\ i \in 1..(n + (m + l))
          /\ (i - n) - m = i - (n + m)
      BY <1>1, <2>3
    <3>2. x[i] = u[i - (n + m)]
      BY <1>4, <2>3, <3>1 DEF x
    <3>3. y[i] = w[i - n] /\ w[i - n] = u[(i - n) - m]
      BY <1>3, <1>5, <2>3, <3>1 DEF y
    <3>. QED
      BY <3>1, <3>2, <3>3
  <2>4. i <= n \/ (~(i <= n) /\ i <= n + m) \/ ~(i <= n + m)
    OBVIOUS
  <2>. QED
    BY <2>1, <2>2, <2>3, <2>4, Zenon
<1>7. x \in Seq(Entry) /\ y \in Seq(Entry) /\ Len(x) = n + m + l /\ Len(y) = n + m + l
  BY <1>1, <1>4, <1>5 DEF x, y
<1>8. x = y
  BY <1>6, <1>7, SeqEqual
<1>. QED
  BY <1>8 DEF x, y, v, w

LEMMA ConcatAppend ==
  ASSUME NEW s \in Seq(Entry), NEW t \in Seq(Entry), NEW e \in Entry
  PROVE  /\ s \o Append(t, e) = Append(s \o t, e)
         /\ s \o (<<e>> \o t) = Append(s, e) \o t
         /\ s \o <<e>> = Append(s, e) /\ s \o <<>> = s
<1>1. s \o <<e>> = Append(s, e) /\ s \o <<>> = s /\ <<e>> \in Seq(Entry)
  OBVIOUS
<1>2. t \o <<e>> = Append(t, e) /\ s \o t \in Seq(Entry)
  OBVIOUS
<1>3. (s \o t) \o <<e>> = Append(s \o t, e)
  BY <1>2
<1>4. (s \o t) \o <<e>> = s \o (t \o <<e>>)
  BY <1>1, ConcatAssociates
<1>5. (s \o <<e>>) \o t = s \o (<<e>> \o t)
  BY <1>1, ConcatAssociates
<1>. QED
  BY <1>1, <1>2, <1>3, <1>4, <1>5

\* What is in the first of two sequences is among both.
LEMMA OnceFirst ==
  ASSUME NEW s \in Seq(Entry), NEW t \in Seq(Entry), NEW n \in Nat, Once(s \o t, n)
  PROVE  Once(s, n)
<1>1. /\ Len(s) \in Nat /\ Len(t) \in Nat /\ Len(s \o t) = Len(s) + Len(t)
      /\ \A a \in 1..Len(s) : a \in 1..Len(s \o t) /\ (s \o t)[a] = s[a]
  OBVIOUS
<1>. QED
  BY <1>1 DEF Once

\* A new entry between two sequences is the only one of its number.
LEMMA OnceMore ==
  ASSUME NEW s \in Seq(Entry), NEW t \in Seq(Entry), NEW n \in Nat, n + 1 \in Entry,
         Once(s \o t, n)
  PROVE  Once(Append(s, n + 1) \o t, n + 1)
<1>. DEFINE m == Len(s)
            l == Len(t)
            old == s \o t
            new == Append(s, n + 1) \o t
            Old(a) == IF a <= m THEN a ELSE a - 1
<1>1. m \in Nat /\ l \in Nat /\ Len(old) = m + l /\ Len(new) = m + l + 1
      /\ old \in Seq(Entry) /\ new \in Seq(Entry)
  OBVIOUS
<1>2. \A a \in 1..(m + l) : old[a] = IF a <= m THEN s[a] ELSE t[a - m]
  OBVIOUS
<1>3. \A a \in 1..(m + l + 1) :
        new[a] = IF a <= m THEN s[a] ELSE IF a = m + 1 THEN n + 1 ELSE t[a - (m + 1)]
  <2>1. Append(s, n + 1) \in Seq(Entry) /\ Len(Append(s, n + 1)) = m + 1
        /\ \A a \in 1..m : Append(s, n + 1)[a] = s[a]
        /\ Append(s, n + 1)[m + 1] = n + 1
    OBVIOUS
  <2>. QED
    BY <1>1, <2>1, ConcatIs
<1>4. Once(old, n)
  OBVIOUS
<1>. HIDE DEF m, l, old, new
<1>5. \A a \in 1..(m + l) : old[a] \in Nat /\ old[a] < n + 1
  <2>1. \A a \in 1..(m + l) : old[a] \in Entry /\ old[a] <= n
    BY <1>1, <1>4 DEF Once
  <2>2. \A a \in 1..(m + l) : old[a] \in Nat
    BY <2>1, ReconcileConstants DEF Entry
  <2>. QED
    BY <2>1, <2>2
<1>6. ASSUME NEW a \in 1..(m + l + 1), a # m + 1
      PROVE  Old(a) \in 1..(m + l) /\ new[a] = old[Old(a)]
  <2>1. CASE a <= m
    BY <1>1, <1>2, <1>3, <2>1
  <2>2. CASE a > m + 1
    <3>1. a - 1 \in 1..(m + l) /\ ~(a - 1 <= m) /\ ~(a <= m + 1) /\ ~(a <= m)
      BY <1>1, <2>2
    <3>2. (a - 1) - m = a - (m + 1)
      BY <1>1
    <3>. QED
      BY <1>2, <1>3, <3>1, <3>2
  <2>. QED
    BY <1>1, <1>6, <2>1, <2>2
<1>7. new[m + 1] = n + 1 /\ m + 1 \in 1..(m + l + 1)
  BY <1>1, <1>3
<1>8. ASSUME NEW a \in 1..Len(new)
      PROVE  new[a] <= n + 1
  <2>1. CASE a = m + 1
    BY <1>7, <2>1
  <2>2. CASE a # m + 1
    <3>1. a \in 1..(m + l + 1)
      BY <1>1
    <3>2. Old(a) \in 1..(m + l) /\ new[a] = old[Old(a)]
      BY <1>6, <2>2, <3>1
    <3>. HIDE DEF Old
    <3>3. old[Old(a)] \in Nat /\ old[Old(a)] < n + 1
      BY <1>5, <3>2
    <3>. QED
      BY <3>2, <3>3
  <2>. QED
    BY <2>1, <2>2
<1>9. ASSUME NEW a \in 1..Len(new), NEW b \in 1..Len(new), new[a] = new[b]
      PROVE  a = b
  <2>0. a \in 1..(m + l + 1) /\ b \in 1..(m + l + 1)
    BY <1>1
  <2>1. CASE a = m + 1 \/ b = m + 1
    <3>1. ASSUME NEW c \in 1..(m + l + 1), c # m + 1
          PROVE  new[c] # n + 1
      <4>1. Old(c) \in 1..(m + l) /\ new[c] = old[Old(c)]
        BY <1>6, <3>1
      <4>. HIDE DEF Old
      <4>2. old[Old(c)] \in Nat /\ old[Old(c)] < n + 1
        BY <1>5, <4>1
      <4>. QED
        BY <4>1, <4>2
    <3>. QED
      BY <1>7, <1>9, <2>0, <2>1, <3>1
  <2>2. CASE a # m + 1 /\ b # m + 1
    <3>1. Old(a) = Old(b)
      BY <1>1, <1>4, <1>6, <1>9, <2>0, <2>2 DEF Once
    <3>. QED
      BY <1>1, <2>0, <2>2, <3>1
  <2>. QED
    BY <2>1, <2>2
<1>. QED
  BY <1>8, <1>9 DEF Once, new

LEMMA InOrderTransitive ==
  ASSUME NEW s \in Seq(Entry), NEW t \in Seq(Entry), NEW u \in Seq(Entry),
         InOrder(s, t), InOrder(t, u)
  PROVE  InOrder(s, u)
<1>1. PICK g : /\ Increasing(g, Len(s))
               /\ \A i \in 1..Len(s) : g[i] \in 1..Len(t) /\ t[g[i]] = s[i]
  BY DEF InOrder
<1>2. PICK h : /\ Increasing(h, Len(t))
               /\ \A i \in 1..Len(t) : h[i] \in 1..Len(u) /\ u[h[i]] = t[i]
  BY DEF InOrder
<1>. DEFINE k == [i \in 1..Len(s) |-> h[g[i]]]
<1>3. \A i \in 1..Len(s) : k[i] \in 1..Len(u) /\ u[k[i]] = s[i]
  BY <1>1, <1>2
<1>4. Increasing(k, Len(s))
  <2>1. k \in [1..Len(s) -> Nat \ {0}]
    BY <1>1, <1>2 DEF Increasing
  <2>2. \A i, j \in 1..Len(s) : i < j => k[i] < k[j]
    BY <1>1, <1>2 DEF Increasing
  <2>. QED
    BY <2>1, <2>2 DEF Increasing
<1>. QED
  BY <1>3, <1>4, Zenon DEF InOrder

LEMMA PrefixInOrder ==
  ASSUME NEW s \in Seq(Entry), NEW t \in Seq(Entry), IsPrefixOf(s, t)
  PROVE  InOrder(s, t)
<1>. DEFINE g == [i \in 1..Len(s) |-> i]
<1>1. Increasing(g, Len(s))
  BY DEF Increasing
<1>2. \A i \in 1..Len(s) : g[i] \in 1..Len(t) /\ t[g[i]] = s[i]
  BY DEF IsPrefixOf
<1>. QED
  BY <1>1, <1>2, Zenon DEF InOrder

LEMMA InsertInOrder ==
  ASSUME NEW s \in Seq(Entry), NEW t \in Seq(Entry), NEW e \in Entry
  PROVE  InOrder(s \o t, Append(s, e) \o t)
<1>. DEFINE g == [i \in 1..Len(s \o t) |-> IF i <= Len(s) THEN i ELSE i + 1]
            u == Append(s, e) \o t
<1>1. Len(s) \in Nat /\ Len(t) \in Nat /\ Len(s \o t) = Len(s) + Len(t)
      /\ Len(u) = Len(s) + 1 + Len(t)
  OBVIOUS
<1>2. \A i \in 1..(Len(s) + Len(t)) : (s \o t)[i] = IF i <= Len(s) THEN s[i] ELSE t[i - Len(s)]
  BY <1>1
<1>3. \A i \in 1..(Len(s) + 1 + Len(t)) :
        u[i] = IF i <= Len(s) THEN s[i] ELSE IF i = Len(s) + 1 THEN e ELSE t[i - (Len(s) + 1)]
  BY <1>1
<1>. HIDE DEF u
<1>4. Increasing(g, Len(s \o t))
  BY <1>1 DEF Increasing
<1>5. \A i \in 1..Len(s \o t) : g[i] \in 1..Len(u) /\ u[g[i]] = (s \o t)[i]
  BY <1>1, <1>2, <1>3
<1>. QED
  BY <1>4, <1>5, Zenon DEF InOrder, u

LEMMA ConcatBoth ==
  ASSUME NEW s \in Seq(Entry), NEW t \in Seq(Entry), NEW u \in Seq(Entry), InOrder(s, t)
  PROVE  InOrder(s \o u, t \o u)
<1>1. PICK g : /\ Increasing(g, Len(s))
               /\ \A i \in 1..Len(s) : g[i] \in 1..Len(t) /\ t[g[i]] = s[i]
  BY DEF InOrder
<1>. DEFINE n == Len(s)
            m == Len(t)
            l == Len(u)
            su == s \o u
            tu == t \o u
            k == [i \in 1..(n + l) |-> IF i <= n THEN g[i] ELSE m + (i - n)]
<1>2. n \in Nat /\ m \in Nat /\ l \in Nat /\ Len(su) = n + l /\ Len(tu) = m + l
  OBVIOUS
<1>3. /\ \A i \in 1..(n + l) : su[i] = IF i <= n THEN s[i] ELSE u[i - n]
      /\ \A i \in 1..(m + l) : tu[i] = IF i <= m THEN t[i] ELSE u[i - m]
  BY ConcatIs
<1>4. /\ \A i \in 1..n : g[i] \in 1..m /\ t[g[i]] = s[i]
      /\ \A i, j \in 1..n : i < j => g[i] < g[j]
  BY <1>1 DEF Increasing
<1>. HIDE DEF n, m, l, su, tu
<1>5. ASSUME NEW i \in 1..(n + l)
      PROVE  k[i] \in 1..(m + l) /\ tu[k[i]] = su[i]
  <2>1. CASE i <= n
    <3>1. i \in 1..n /\ k[i] = g[i]
      BY <1>2, <2>1
    <3>2. g[i] \in 1..m /\ t[g[i]] = s[i]
      BY <1>4, <3>1
    <3>3. g[i] \in 1..(m + l) /\ g[i] <= m
      BY <1>2, <3>2
    <3>4. tu[g[i]] = t[g[i]] /\ su[i] = s[i]
      BY <1>3, <2>1, <3>3
    <3>. HIDE DEF k
    <3>. QED
      BY <3>1, <3>2, <3>3, <3>4
  <2>2. CASE ~(i <= n)
    <3>1. k[i] = m + (i - n) /\ k[i] \in 1..(m + l) /\ ~(k[i] <= m) /\ k[i] - m = i - n
      BY <1>2, <2>2
    <3>. QED
      BY <1>3, <2>2, <3>1
  <2>. QED
    BY <2>1, <2>2
<1>6. Increasing(k, n + l)
  <2>1. k \in [1..(n + l) -> Nat \ {0}]
    <3>1. \A i \in 1..(n + l) : k[i] \in Nat \ {0}
      BY <1>2, <1>5
    <3>. QED
      BY <3>1
  <2>2. ASSUME NEW i \in 1..(n + l), NEW j \in 1..(n + l), i < j
        PROVE  k[i] < k[j]
    <3>1. CASE j <= n
      BY <1>2, <1>4, <2>2, <3>1
    <3>2. CASE i <= n /\ ~(j <= n)
      <4>1. k[i] = g[i] /\ g[i] \in 1..m /\ k[j] = m + (j - n)
        BY <1>2, <1>4, <3>2
      <4>. QED
        BY <1>2, <3>2, <4>1
    <3>3. CASE ~(i <= n)
      BY <1>2, <2>2, <3>3
    <3>. QED
      BY <1>2, <2>2, <3>1, <3>2, <3>3
  <2>. QED
    BY <2>1, <2>2 DEF Increasing
<1>7. Increasing(k, Len(su)) /\ \A i \in 1..Len(su) : k[i] \in 1..Len(tu) /\ tu[k[i]] = su[i]
  BY <1>2, <1>5, <1>6
<1>. HIDE DEF k
<1>. QED
  BY <1>7, Zenon DEF InOrder, su, tu

LEMMA TakeOne ==
  ASSUME NEW s \in Seq(Entry), NEW t \in Seq(Entry), t # <<>>
  PROVE  Append(s, Head(t)) \o Tail(t) = s \o t
<1>1. /\ Head(t) \in Entry /\ Tail(t) \in Seq(Entry) /\ Len(Tail(t)) = Len(t) - 1
      /\ Head(t) = t[1] /\ Len(t) \in Nat \ {0} /\ Len(s) \in Nat
      /\ \A i \in 1..(Len(t) - 1) : Tail(t)[i] = t[i + 1]
  OBVIOUS
<1>. DEFINE h == Append(s, Head(t))
<1>2. /\ h \in Seq(Entry) /\ Len(h) = Len(s) + 1 /\ h[Len(s) + 1] = t[1]
      /\ \A i \in 1..Len(s) : h[i] = s[i]
  BY <1>1
<1>. DEFINE u == Tail(t)
<1>. HIDE DEF h, u
<1>3. /\ h \o u \in Seq(Entry) /\ Len(h \o u) = Len(s) + Len(t)
      /\ \A i \in 1..(Len(s) + Len(t)) :
           (h \o u)[i] = IF i <= Len(s) + 1 THEN h[i] ELSE u[i - (Len(s) + 1)]
  <2>1. u \in Seq(Entry) /\ Len(h) + Len(u) = Len(s) + Len(t)
    BY <1>1, <1>2 DEF u
  <2>2. /\ h \o u \in Seq(Entry) /\ Len(h \o u) = Len(h) + Len(u)
        /\ \A i \in 1..(Len(h) + Len(u)) :
             (h \o u)[i] = IF i <= Len(h) THEN h[i] ELSE u[i - Len(h)]
    BY <1>2, <2>1, ConcatIs
  <2>. QED
    BY <1>2, <2>1, <2>2
<1>4. /\ s \o t \in Seq(Entry) /\ Len(s \o t) = Len(s) + Len(t)
      /\ \A i \in 1..(Len(s) + Len(t)) :
           (s \o t)[i] = IF i <= Len(s) THEN s[i] ELSE t[i - Len(s)]
  OBVIOUS
<1>5. ASSUME NEW i \in 1..(Len(s) + Len(t))
      PROVE  (h \o u)[i] = (s \o t)[i]
  <2>1. CASE i <= Len(s)
    BY <1>1, <1>2, <1>3, <1>4, <2>1
  <2>2. CASE i = Len(s) + 1
    BY <1>1, <1>2, <1>3, <1>4, <2>2
  <2>3. CASE i > Len(s) + 1
    <3>1. i - (Len(s) + 1) \in 1..(Len(t) - 1)
      BY <1>1, <2>3
    <3>. QED
      BY <1>1, <1>3, <1>4, <2>3, <3>1 DEF u
  <2>4. i <= Len(s) \/ i = Len(s) + 1 \/ i > Len(s) + 1
    BY <1>1
  <2>. QED
    BY <2>1, <2>2, <2>3, <2>4, Zenon
<1>6. h \o u = s \o t
  BY <1>3, <1>4, <1>5, SeqEqual
<1>. QED
  BY <1>6 DEF h, u

-----------------------------------------------------------------------------
\* What the fits of a read survive: entries added to the store and to the file.

SameRead(r) ==
  /\ read'[r].stage = read[r].stage /\ read'[r].shared = read[r].shared
  /\ read'[r].known = read[r].known /\ read'[r].lines = read[r].lines
  /\ read'[r].compared = read[r].compared
  /\ read'[r].undisturbed => read[r].undisturbed

GrowsTo(s, t) == Len(s) <= Len(t) /\ \A i \in 1..Len(s) : t[i] = s[i]

\* What was to be in the file when r reads it still is.
StillComes(r) ==
  \A k \in 1..(Len(file) + read[r].waits) :
    k <= Len(All) => \E j \in 1..(Len(file') + read'[r].waits) : j <= Len(All') /\ All'[j] = All[k]

LEMMA ReadGoesOn ==
  ASSUME ReconcileInv, NEW r \in Reads, SameRead(r), StillComes(r),
         GrowsTo(committed, committed'), GrowsTo(file, file'), committed' \in Seq(Entry),
         read'[r].undisturbed => Len(committed') = Len(committed)
  PROVE  ReadFits(r)'
<1>. SUFFICES ASSUME read[r].stage # "none" PROVE ReadFits(r)'
  BY DEF SameRead, ReadFits
<1>1. /\ KnownFits(r) /\ ComparedFits(r) /\ LinesFit(r)
      /\ read[r].undisturbed => read[r].shared
  BY DEF ReconcileInv, ReadFits
<1>2. /\ committed \in Seq(Entry) /\ file \in Seq(Entry) /\ read[r] \in ReadRecord
      /\ Len(committed) \in Nat /\ Len(committed') \in Nat
  BY DEF ReconcileInv, EntryTypes, ReadTypes
<1>3. read[r].known \in Nat /\ read[r].compared \in Nat /\ read[r].lines \in Seq(Entry)
      /\ read[r].waits \in Nat
  BY <1>2 DEF ReadRecord
<1>4. KnownFits(r)'
  <2>. SUFFICES ASSUME read[r].shared PROVE KnownFits(r)'
    BY DEF KnownFits, SameRead
  <2>1. read[r].known <= Len(committed) /\ read[r].known <= Len(committed')
        /\ read'[r].known = read[r].known
    BY <1>1, <1>2, <1>3 DEF KnownFits, GrowsTo, SameRead
  <2>2. \A i \in 1..read[r].known : committed'[i] = committed[i]
    BY <1>2, <1>3, <2>1 DEF GrowsTo
  <2>3. read'[r].undisturbed => read'[r].known = Len(committed')
    BY <1>1, <2>1 DEF KnownFits, SameRead
  <2>4. read'[r].stage = "waiting" =>
          \A i \in 1..read[r].known : \E k \in 1..(Len(file') + read'[r].waits) :
            k <= Len(All') /\ committed'[i] = All'[k]
    <3>. SUFFICES ASSUME read[r].stage = "waiting", NEW i \in 1..read[r].known
                  PROVE  \E k \in 1..(Len(file') + read'[r].waits) :
                           k <= Len(All') /\ committed'[i] = All'[k]
      BY DEF SameRead
    <3>1. PICK k \in 1..(Len(file) + read[r].waits) : k <= Len(All) /\ committed[i] = All[k]
      BY <1>1 DEF KnownFits
    <3>2. PICK j \in 1..(Len(file') + read'[r].waits) : j <= Len(All') /\ All'[j] = All[k]
      BY <3>1 DEF StillComes
    <3>. QED
      BY <2>2, <3>1, <3>2
  <2>5. read'[r].stage \in {"comparing", "adopting"} =>
          \A i \in 1..read[r].known : \E k \in 1..Len(read'[r].lines) :
            committed'[i] = read'[r].lines[k]
    BY <1>1, <2>2 DEF KnownFits, SameRead
  <2>. QED
    BY <2>1, <2>3, <2>4, <2>5 DEF KnownFits
<1>5. ComparedFits(r)'
  BY <1>1, <1>2, <1>3 DEF ComparedFits, SameRead, GrowsTo
<1>6. LinesFit(r)'
  <2>1. IsPrefixOf(read[r].lines, file) => IsPrefixOf(read[r].lines, file')
    <3>1. Len(read[r].lines) \in Nat /\ Len(file) \in Nat
      BY <1>2, <1>3
    <3>. QED
      BY <3>1 DEF IsPrefixOf, GrowsTo
  <2>. QED
    BY <1>1, <2>1 DEF LinesFit, SameRead
<1>. QED
  BY <1>1, <1>4, <1>5, <1>6 DEF ReadFits, SameRead

LEMMA ReadKept ==
  ASSUME ReconcileInv, NEW r \in Reads, UNCHANGED <<committed, unwritten, file>>,
         read'[r] = read[r]
  PROVE  ReadFits(r)'
<1>1. All' = All
  BY DEF All
<1>2. StillComes(r) /\ SameRead(r)
  BY <1>1 DEF StillComes, SameRead
<1>3. committed \in Seq(Entry) /\ file \in Seq(Entry)
  BY DEF ReconcileInv, EntryTypes
<1>4. GrowsTo(committed, committed') /\ GrowsTo(file, file')
  BY <1>3 DEF GrowsTo
<1>. QED
  BY <1>2, <1>3, <1>4, ReadGoesOn

\* The turn's entries take no part in what a read needs.
LEMMA StoreKept ==
  ASSUME ReconcileInv, UNCHANGED <<committed, unwritten, file>>, newest' \in 0..MaxEntries
  PROVE  EntryTypes' /\ InOrder(committed, All)' /\ All' = All
<1>1. All' = All
  BY DEF All
<1>. QED
  BY <1>1 DEF ReconcileInv, EntryTypes

LEMMA AllTyped ==
  ASSUME ReconcileInv
  PROVE  All \in Seq(Entry) /\ Len(All) \in Nat /\ Len(All) = Len(file) + Len(unwritten)
BY DEF ReconcileInv, EntryTypes, All

LEMMA NewestTyped ==
  ASSUME ReconcileInv
  PROVE  newest \in Nat /\ (newest < MaxEntries => newest + 1 \in Entry /\ newest + 1 \in 0..MaxEntries)
BY ReconcileConstants DEF ReconcileInv, EntryTypes, Entry

\* What commits goes to the end of the store and of the queue.
LEMMA CommitsKeep ==
  ASSUME ReconcileInv, NEW e \in Seq(Entry), Commits(e), file' = file,
         newest' \in 0..MaxEntries
  PROVE  /\ EntryTypes' /\ ReadTypes' /\ All' = All \o e /\ InOrder(committed, All)'
         /\ \A r \in Reads : ReadFits(r)'
<1>1. committed' = committed \o e /\ unwritten' = unwritten \o e
  BY DEF Commits
<1>2. /\ committed \in Seq(Entry) /\ unwritten \in Seq(Entry) /\ file \in Seq(Entry)
      /\ read \in [Reads -> ReadRecord] /\ Len(e) \in Nat /\ Len(unwritten) \in Nat
  BY DEF ReconcileInv, EntryTypes, ReadTypes
<1>3. /\ committed' \in Seq(Entry) /\ Len(committed') = Len(committed) + Len(e)
      /\ unwritten' \in Seq(Entry) /\ Len(unwritten') = Len(unwritten) + Len(e)
  BY <1>1, <1>2
<1>4. EntryTypes'
  BY <1>2, <1>3 DEF EntryTypes
<1>5. ASSUME NEW r \in Reads
      PROVE  /\ read'[r] \in ReadRecord /\ read'[r].waits = read[r].waits /\ SameRead(r)
             /\ read'[r].undisturbed => e = <<>>
  <2>1. CASE e = <<>>
    <3>1. read' = read
      BY <2>1 DEF Commits
    <3>. QED
      BY <1>2, <2>1, <3>1 DEF SameRead
  <2>2. CASE e # <<>>
    <3>0. read' = [q \in Reads |-> [read[q] EXCEPT !.undisturbed = FALSE]]
      BY <2>2, Zenon DEF Commits
    <3>1. read'[r] = [read[r] EXCEPT !.undisturbed = FALSE] /\ read[r] \in ReadRecord
      BY <1>2, <3>0
    <3>. QED
      BY <3>1 DEF SameRead, ReadRecord
  <2>. QED
    BY <2>1, <2>2
<1>6. ReadTypes'
  <2>1. read' \in [Reads -> ReadRecord]
    <3>1. DOMAIN read' = Reads /\ read' = [r \in Reads |-> read'[r]]
      BY <1>2, Zenon DEF Commits
    <3>. QED
      BY <1>5, <3>1
  <2>2. \A r \in Reads : read'[r].waits <= Len(unwritten')
    <3>1. \A r \in Reads : read[r].waits \in Nat /\ read[r].waits <= Len(unwritten)
      BY <1>2 DEF ReconcileInv, ReadTypes, ReadRecord
    <3>2. \A r \in Reads : read'[r].waits = read[r].waits
      BY <1>5
    <3>3. \A w \in Nat : w <= Len(unwritten) => w <= Len(unwritten')
      BY <1>2, <1>3
    <3>. QED
      BY <3>1, <3>2, <3>3, Zenon
  <2>. QED
    BY <2>1, <2>2 DEF ReadTypes
<1>7. All' = All \o e /\ All \in Seq(Entry)
  <2>1. (file \o unwritten) \o e = file \o (unwritten \o e)
    BY <1>2, ConcatAssociates
  <2>2. All' = file \o (unwritten \o e)
    BY <1>1 DEF All
  <2>. QED
    BY <2>1, <2>2, AllTyped DEF All
<1>8. InOrder(committed, All)'
  BY <1>1, <1>2, <1>7, ConcatBoth DEF ReconcileInv
<1>9. /\ GrowsTo(committed, committed') /\ GrowsTo(file, file')
      /\ Len(All) \in Nat /\ Len(All') = Len(All) + Len(e)
      /\ \A k \in 1..Len(All) : All'[k] = All[k]
  BY <1>1, <1>2, <1>7 DEF GrowsTo
<1>10. ASSUME NEW r \in Reads
       PROVE  ReadFits(r)'
  <2>1. StillComes(r)
    <3>1. Len(file) \in Nat /\ read[r].waits \in Nat
      BY <1>2 DEF ReadRecord
    <3>2. ASSUME NEW k \in 1..(Len(file) + read[r].waits), k <= Len(All)
          PROVE  k \in 1..(Len(file') + read'[r].waits) /\ k <= Len(All') /\ All'[k] = All[k]
      <4>1. Len(file') + read'[r].waits = Len(file) + read[r].waits
        BY <1>5
      <4>2. k \in 1..Len(All) /\ k <= Len(All')
        BY <1>2, <1>9, <3>1, <3>2
      <4>. QED
        BY <1>9, <4>1, <4>2
    <3>. QED
      BY <3>2 DEF StillComes
  <2>2. read'[r].undisturbed => Len(committed') = Len(committed)
    BY <1>1, <1>2, <1>5
  <2>. QED
    BY <1>3, <1>5, <1>9, <2>1, <2>2, ReadGoesOn
<1>. QED
  BY <1>4, <1>6, <1>7, <1>8, <1>10

-----------------------------------------------------------------------------
\* Turns

LEMMA TurnStep ==
  ASSUME ReconcileInv, TurnStarts \/ TurnEnds
  PROVE  ReconcileInv'
<1>1. /\ UNCHANGED <<committed, pendingEntries, staged, newest, unwritten, file, read>>
      /\ turnStage \in {"none", "starting", "ending"} /\ turnStage' \in {"none", "starting"}
  BY DEF TurnStarts, TurnEnds
<1>2. TurnFits'
  BY <1>1 DEF ReconcileInv, TurnFits
<1>3. newest' \in 0..MaxEntries /\ ReadTypes'
  BY <1>1 DEF ReconcileInv, EntryTypes, ReadTypes
<1>4. EntryTypes' /\ InOrder(committed, All)' /\ All' = All
  BY <1>1, <1>3, StoreKept
<1>5. Once(All \o staged, newest)'
  BY <1>1, <1>4 DEF ReconcileInv
<1>6. \A r \in Reads : ReadFits(r)'
  BY <1>1, ReadKept
<1>. QED
  BY <1>2, <1>3, <1>4, <1>5, <1>6 DEF ReconcileInv

LEMMA PrepareRunStep ==
  ASSUME ReconcileInv, PrepareRun
  PROVE  ReconcileInv'
<1>1. /\ turnStage = "starting" /\ turnStage' = "preparing" /\ newest < MaxEntries
      /\ newest' = newest + 1 /\ staged' = <<newest + 1>> /\ pendingEntries' = staged'
      /\ UNCHANGED <<committed, unwritten, file, read>>
  BY DEF PrepareRun
<1>2. newest \in Nat /\ newest + 1 \in Entry /\ newest' \in 0..MaxEntries
  BY <1>1, NewestTyped
<1>3. staged' \in Seq(Entry)
  BY <1>1, <1>2
<1>4. TurnFits'
  BY <1>1, <1>3 DEF TurnFits
<1>5. EntryTypes' /\ InOrder(committed, All)' /\ All' = All
  BY <1>1, <1>2, StoreKept
<1>6. Once(All \o staged, newest)'
  <2>1. staged = <<>> /\ All \in Seq(Entry) /\ <<>> \in Seq(Entry)
    BY <1>1, AllTyped DEF ReconcileInv, TurnFits
  <2>2. Once(All \o <<>>, newest)
    BY <2>1 DEF ReconcileInv
  <2>3. Once(Append(All, newest + 1) \o <<>>, newest + 1)
    BY <1>2, <2>1, <2>2, OnceMore
  <2>4. Append(All, newest + 1) \o <<>> = All \o <<newest + 1>>
    BY <1>2, <2>1
  <2>. QED
    BY <1>1, <1>5, <2>3, <2>4
<1>7. ReadTypes' /\ \A r \in Reads : ReadFits(r)'
  BY <1>1, ReadKept DEF ReconcileInv, ReadTypes
<1>. QED
  BY <1>4, <1>5, <1>6, <1>7 DEF ReconcileInv

LEMMA PrepareFailsStep ==
  ASSUME ReconcileInv, PrepareFails
  PROVE  ReconcileInv'
<1>1. /\ turnStage' = "ending" /\ staged' = <<>>
      /\ UNCHANGED <<committed, pendingEntries, newest, unwritten, file, read>>
  BY DEF PrepareFails
<1>2. TurnFits' /\ newest' \in 0..MaxEntries /\ newest \in Nat
  BY <1>1, NewestTyped DEF ReconcileInv, TurnFits, EntryTypes
<1>3. EntryTypes' /\ InOrder(committed, All)' /\ All' = All
  BY <1>1, <1>2, StoreKept
<1>4. Once(All \o staged, newest)'
  <2>1. All \in Seq(Entry) /\ staged \in Seq(Entry)
    BY AllTyped DEF ReconcileInv, TurnFits
  <2>2. Once(All, newest)
    BY <1>2, <2>1, OnceFirst DEF ReconcileInv
  <2>3. All \o <<>> = All
    BY <2>1
  <2>. QED
    BY <1>1, <1>3, <2>2, <2>3
<1>5. ReadTypes' /\ \A r \in Reads : ReadFits(r)'
  BY <1>1, ReadKept DEF ReconcileInv, ReadTypes
<1>. QED
  BY <1>2, <1>3, <1>4, <1>5 DEF ReconcileInv

LEMMA StagingKeeps ==
  ASSUME ReconcileInv, NEW h \in Staging, StagesEntry(h)
  PROVE  h \in Seq(Entry) /\ newest' \in 0..MaxEntries /\ Once(All \o h, newest')
<1>1. /\ newest \in Nat /\ newest \in 0..MaxEntries /\ staged \in Seq(Entry) /\ All \in Seq(Entry)
      /\ Once(All \o staged, newest)
  BY NewestTyped, AllTyped DEF ReconcileInv, TurnFits, EntryTypes
<1>2. CASE h = staged
  BY <1>1, <1>2 DEF StagesEntry
<1>3. CASE h # staged
  <2>1. newest < MaxEntries /\ newest' = newest + 1
    BY <1>3 DEF StagesEntry
  <2>2. newest + 1 \in Entry /\ newest' \in 0..MaxEntries
    BY <2>1, NewestTyped
  <2>. DEFINE e == newest + 1
  <2>. HIDE DEF e
  <2>3. h = Append(staged, e) \/ h = <<e>> \o staged
    BY <1>3 DEF Staging, e
  <2>4. CASE h = Append(staged, e)
    <3>1. All \o h = Append(All \o staged, e) \o <<>> /\ h \in Seq(Entry)
          /\ All \o staged \in Seq(Entry)
      <4>1. e \in Entry /\ All \o staged \in Seq(Entry) /\ h \in Seq(Entry)
        BY <1>1, <2>2, <2>4 DEF e
      <4>2. All \o h = Append(All \o staged, e)
        BY <1>1, <2>4, <4>1, ConcatAppend
      <4>3. Append(All \o staged, e) \in Seq(Entry)
        BY <4>1
      <4>. QED
        BY <4>1, <4>2, <4>3
    <3>2. (All \o staged) \o <<>> = All \o staged /\ <<>> \in Seq(Entry)
      BY <3>1
    <3>3. Once(Append(All \o staged, newest + 1) \o <<>>, newest + 1)
      BY <1>1, <2>2, <3>1, <3>2, OnceMore
    <3>. QED
      BY <2>1, <2>2, <3>1, <3>3 DEF e
  <2>5. CASE h = <<e>> \o staged
    <3>1. e \in Entry
      BY <2>2 DEF e
    <3>2. All \o h = Append(All, e) \o staged
      BY <1>1, <2>5, <3>1, ConcatAppend
    <3>3. Once(Append(All, newest + 1) \o staged, newest + 1)
      BY <1>1, <2>2, OnceMore
    <3>4. h \in Seq(Entry)
      BY <1>1, <2>5, <3>1
    <3>. QED
      BY <2>1, <2>2, <3>2, <3>3, <3>4 DEF e
  <2>. QED
    BY <2>3, <2>4, <2>5
<1>. QED
  BY <1>2, <1>3

\* What is staged is committed: the turn holds nothing.
LEMMA CommitStaged ==
  ASSUME ReconcileInv, NEW h \in Seq(Entry), Once(All \o h, newest'), Commits(h),
         newest' \in 0..MaxEntries, staged' = <<>>, pendingEntries' = <<>>, file' = file,
         turnStage' \in {"running", "ending"}
  PROVE  ReconcileInv'
<1>1. /\ EntryTypes' /\ ReadTypes' /\ InOrder(committed, All)' /\ All' = All \o h
      /\ \A r \in Reads : ReadFits(r)'
  BY CommitsKeep
<1>2. Once(All \o staged, newest)'
  <2>1. All' \in Seq(Entry)
    BY <1>1, AllTyped
  <2>2. All' \o <<>> = All'
    BY <2>1
  <2>. QED
    BY <1>1, <2>2
<1>3. TurnFits'
  <2>1. <<>> \in Seq(Entry)
    OBVIOUS
  <2>. QED
    BY <2>1 DEF TurnFits
<1>. QED
  BY <1>1, <1>2, <1>3 DEF ReconcileInv

LEMMA RunEventStep ==
  ASSUME ReconcileInv, RunEvent
  PROVE  ReconcileInv'
<1>1. turnStage' = "running" /\ file' = file
  BY DEF RunEvent
<1>2. PICK h \in Staging :
        /\ StagesEntry(h)
        /\ \/ Commits(<<>>) /\ staged' = h /\ pendingEntries' = h
           \/ Commits(h) /\ staged' = <<>> /\ pendingEntries' = <<>>
  BY Zenon DEF RunEvent
<1>3. h \in Seq(Entry) /\ newest' \in 0..MaxEntries /\ Once(All \o h, newest')
  BY <1>2, StagingKeeps
<1>4. CASE Commits(<<>>) /\ staged' = h /\ pendingEntries' = h
  <2>1. UNCHANGED <<committed, unwritten, file, read>>
    <3>1. committed \in Seq(Entry) /\ unwritten \in Seq(Entry)
      BY DEF ReconcileInv, EntryTypes
    <3>. QED
      BY <1>1, <1>4, <3>1 DEF Commits
  <2>2. EntryTypes' /\ InOrder(committed, All)' /\ All' = All
    BY <1>3, <2>1, StoreKept
  <2>3. TurnFits'
    BY <1>1, <1>3, <1>4 DEF TurnFits
  <2>4. ReadTypes' /\ \A r \in Reads : ReadFits(r)'
    BY <2>1, ReadKept DEF ReconcileInv, ReadTypes
  <2>5. Once(All \o staged, newest)'
    BY <1>3, <1>4, <2>2
  <2>. QED
    BY <2>2, <2>3, <2>4, <2>5 DEF ReconcileInv
<1>5. CASE Commits(h) /\ staged' = <<>> /\ pendingEntries' = <<>>
  BY <1>1, <1>3, <1>5, CommitStaged
<1>. QED
  BY <1>2, <1>4, <1>5

LEMMA RunEndsStep ==
  ASSUME ReconcileInv, RunEnds
  PROVE  ReconcileInv'
<1>1. /\ turnStage' = "ending" /\ Commits(staged) /\ staged' = <<>> /\ pendingEntries' = <<>>
      /\ newest' = newest /\ file' = file
  BY DEF RunEnds
<1>2. staged \in Seq(Entry) /\ newest' \in 0..MaxEntries /\ Once(All \o staged, newest')
  BY <1>1 DEF ReconcileInv, TurnFits, EntryTypes
<1>. QED
  BY <1>1, <1>2, CommitStaged

-----------------------------------------------------------------------------
\* Settings, writes and other processes

LEMMA AppendEntryStep ==
  ASSUME ReconcileInv, AppendEntry
  PROVE  ReconcileInv'
<1>1. /\ newest < MaxEntries /\ newest' = newest + 1 /\ Commits(<<newest + 1>>)
      /\ UNCHANGED <<turnStage, pendingEntries, staged, file>>
  BY DEF AppendEntry
<1>2. newest \in Nat /\ newest + 1 \in Entry /\ newest' \in 0..MaxEntries
  BY <1>1, NewestTyped
<1>3. <<newest + 1>> \in Seq(Entry)
  BY <1>2
<1>4. /\ EntryTypes' /\ ReadTypes' /\ All' = All \o <<newest + 1>> /\ InOrder(committed, All)'
      /\ \A r \in Reads : ReadFits(r)'
  BY <1>1, <1>2, <1>3, CommitsKeep
<1>5. All \in Seq(Entry) /\ staged \in Seq(Entry) /\ Once(All \o staged, newest)
  BY AllTyped DEF ReconcileInv, TurnFits
<1>6. Once(All \o staged, newest)'
  <2>1. All \o <<newest + 1>> = Append(All, newest + 1)
    BY <1>2, <1>5
  <2>2. Once(Append(All, newest + 1) \o staged, newest + 1)
    BY <1>2, <1>5, OnceMore
  <2>. QED
    BY <1>1, <1>4, <2>1, <2>2
<1>7. TurnFits'
  BY <1>1 DEF ReconcileInv, TurnFits
<1>. QED
  BY <1>4, <1>6, <1>7 DEF ReconcileInv

\* The file takes from the queue: together they stay as they are.
LEMMA WriteEntryStep ==
  ASSUME ReconcileInv, WriteEntry
  PROVE  ReconcileInv'
<1>1. /\ unwritten # <<>>
      /\ file' = Append(file, Head(unwritten)) /\ unwritten' = Tail(unwritten)
      /\ read' = [r \in Reads |-> IF read[r].waits = 0 THEN read[r]
                                  ELSE [read[r] EXCEPT !.waits = @ - 1]]
      /\ UNCHANGED <<turnStage, committed, pendingEntries, staged, newest>>
  BY DEF WriteEntry
<1>2. /\ committed \in Seq(Entry) /\ unwritten \in Seq(Entry) /\ file \in Seq(Entry)
      /\ read \in [Reads -> ReadRecord] /\ newest \in 0..MaxEntries
  BY DEF ReconcileInv, EntryTypes, ReadTypes
<1>3. /\ file' \in Seq(Entry) /\ unwritten' \in Seq(Entry)
      /\ Len(unwritten') = Len(unwritten) - 1 /\ Len(unwritten) \in Nat \ {0}
      /\ Len(file') = Len(file) + 1 /\ Len(file) \in Nat
      /\ \A i \in 1..Len(file) : file'[i] = file[i]
  BY <1>1, <1>2
<1>4. ASSUME NEW r \in Reads
      PROVE  /\ read'[r] \in ReadRecord /\ SameRead(r) /\ read[r].waits \in Nat
             /\ read'[r].waits = IF read[r].waits = 0 THEN 0 ELSE read[r].waits - 1
  <2>1. read[r] \in ReadRecord /\ read[r].waits \in Nat
    BY <1>2 DEF ReadRecord
  <2>2. CASE read[r].waits = 0
    <3>1. read'[r] = read[r]
      BY <1>1, <2>2
    <3>. QED
      BY <2>1, <2>2, <3>1 DEF SameRead
  <2>3. CASE read[r].waits # 0
    <3>1. read'[r] = [read[r] EXCEPT !.waits = read[r].waits - 1]
      BY <1>1, <2>3
    <3>2. read[r].waits - 1 \in Nat
      BY <2>1, <2>3
    <3>. DEFINE w == read[r].waits - 1
    <3>. HIDE DEF w
    <3>3. read'[r] = [read[r] EXCEPT !.waits = w] /\ w \in Nat
      BY <3>1, <3>2 DEF w
    <3>4. read'[r] \in ReadRecord /\ SameRead(r) /\ read'[r].waits = w
      BY <2>1, <3>3 DEF ReadRecord, SameRead
    <3>. QED
      BY <2>1, <2>3, <3>4 DEF w
  <2>. QED
    BY <2>2, <2>3
<1>5. ReadTypes'
  <2>1. read' \in [Reads -> ReadRecord]
    BY <1>1, <1>4
  <2>2. ASSUME NEW r \in Reads
        PROVE  read'[r].waits <= Len(unwritten')
    <3>1. read[r].waits <= Len(unwritten) /\ read[r].waits \in Nat
      BY <1>4 DEF ReconcileInv, ReadTypes
    <3>2. read'[r].waits = IF read[r].waits = 0 THEN 0 ELSE read[r].waits - 1
      BY <1>4
    <3>. QED
      BY <1>3, <3>1, <3>2
  <2>. QED
    BY <2>1, <2>2 DEF ReadTypes
<1>6. All' = All
  BY <1>1, <1>2, TakeOne DEF All
<1>7. /\ EntryTypes' /\ InOrder(committed, All)' /\ Once(All \o staged, newest)'
      /\ TurnFits'
  <2>1. EntryTypes'
    BY <1>1, <1>2, <1>3 DEF EntryTypes
  <2>2. InOrder(committed, All)' /\ Once(All \o staged, newest)'
    BY <1>1, <1>6 DEF ReconcileInv
  <2>3. TurnFits'
    BY <1>1 DEF ReconcileInv, TurnFits
  <2>. QED
    BY <2>1, <2>2, <2>3
<1>8. ASSUME NEW r \in Reads
      PROVE  ReadFits(r)'
  <2>1. StillComes(r)
    <3>. DEFINE a == Len(file)
                b == Len(file')
                w == read[r].waits
                v == read'[r].waits
    <3>1. a \in Nat /\ b = a + 1 /\ w \in Nat /\ v = IF w = 0 THEN 0 ELSE w - 1
      BY <1>3, <1>4
    <3>. HIDE DEF a, b, w, v
    <3>2. \A k \in 1..(a + w) : k \in 1..(b + v)
      BY <3>1
    <3>. QED
      BY <1>6, <3>2, Zenon DEF StillComes, a, b, w, v
  <2>2. GrowsTo(committed, committed') /\ GrowsTo(file, file') /\ committed' \in Seq(Entry)
        /\ committed' = committed
    BY <1>1, <1>2, <1>3 DEF GrowsTo
  <2>3. SameRead(r)
    BY <1>4
  <2>. QED
    BY <2>1, <2>2, <2>3, ReadGoesOn
<1>. QED
  BY <1>5, <1>7, <1>8 DEF ReconcileInv

\* An entry that comes between the file and the queue leaves the others in order.
LEMMA ForeignEntryStep ==
  ASSUME ReconcileInv, ForeignEntry
  PROVE  ReconcileInv'
<1>1. /\ newest < MaxEntries /\ newest' = newest + 1 /\ file' = Append(file, newest + 1)
      /\ UNCHANGED <<turnStage, committed, pendingEntries, staged, unwritten, read>>
  BY DEF ForeignEntry
<1>2. /\ committed \in Seq(Entry) /\ unwritten \in Seq(Entry) /\ file \in Seq(Entry)
      /\ staged \in Seq(Entry) /\ read \in [Reads -> ReadRecord]
  BY DEF ReconcileInv, EntryTypes, ReadTypes, TurnFits
<1>3. newest \in Nat /\ newest + 1 \in Entry /\ newest' \in 0..MaxEntries
  BY <1>1, NewestTyped
<1>4. /\ file' \in Seq(Entry) /\ Len(file') = Len(file) + 1 /\ Len(file) \in Nat
      /\ \A i \in 1..Len(file) : file'[i] = file[i]
  BY <1>1, <1>2, <1>3
<1>5. EntryTypes' /\ TurnFits' /\ ReadTypes'
  <2>1. EntryTypes'
    BY <1>1, <1>2, <1>3, <1>4 DEF EntryTypes
  <2>2. TurnFits' /\ ReadTypes'
    BY <1>1 DEF ReconcileInv, TurnFits, ReadTypes
  <2>. QED
    BY <2>1, <2>2
<1>6. /\ All \in Seq(Entry) /\ All' \in Seq(Entry) /\ InOrder(All, All')
      /\ All' = Append(file, newest + 1) \o unwritten
  <2>1. All' = Append(file, newest + 1) \o unwritten
    BY <1>1 DEF All
  <2>2. InOrder(file \o unwritten, Append(file, newest + 1) \o unwritten)
    BY <1>2, <1>3, InsertInOrder
  <2>3. Append(file, newest + 1) \o unwritten \in Seq(Entry)
    BY <1>1, <1>2, <1>4
  <2>4. All = file \o unwritten /\ All \in Seq(Entry)
    BY AllTyped DEF All
  <2>. QED
    BY <2>1, <2>2, <2>3, <2>4
<1>7. InOrder(committed, All)'
  BY <1>1, <1>2, <1>6, InOrderTransitive DEF ReconcileInv
<1>8. Once(All \o staged, newest)'
  <2>. DEFINE f == Append(file, newest + 1)
              u == unwritten \o staged
  <2>1. u \in Seq(Entry) /\ f \in Seq(Entry)
    BY <1>1, <1>2, <1>4
  <2>2. All \o staged = file \o u /\ All' \o staged = f \o u
    <3>. HIDE DEF f
    <3>1. (file \o unwritten) \o staged = file \o u
      BY <1>2, ConcatAssociates
    <3>2. (f \o unwritten) \o staged = f \o u
      BY <1>2, <2>1, ConcatAssociates
    <3>. QED
      BY <1>6, <3>1, <3>2, Zenon DEF All, f
  <2>3. Once(file \o u, newest)
    BY <2>2 DEF ReconcileInv
  <2>. HIDE DEF u
  <2>4. Once(f \o u, newest + 1)
    BY <1>2, <1>3, <2>1, <2>3, OnceMore
  <2>. QED
    BY <1>1, <2>2, <2>4
<1>9. ASSUME NEW r \in Reads
      PROVE  ReadFits(r)'
  <2>1. StillComes(r)
    <3>1. read[r].waits \in Nat /\ read'[r].waits = read[r].waits
      BY <1>1, <1>2 DEF ReadRecord
    <3>2. /\ Len(All) = Len(file) + Len(unwritten) /\ Len(unwritten) \in Nat
          /\ Len(All') = Len(file) + 1 + Len(unwritten)
      BY <1>1, <1>2, <1>4, <1>6 DEF All
    <3>3. /\ \A k \in 1..(Len(file) + Len(unwritten)) :
               All[k] = IF k <= Len(file) THEN file[k] ELSE unwritten[k - Len(file)]
          /\ \A k \in 1..(Len(file) + 1 + Len(unwritten)) :
               All'[k] = IF k <= Len(file) + 1 THEN file'[k] ELSE unwritten[k - (Len(file) + 1)]
      <4>1. /\ \A k \in 1..(Len(file) + Len(unwritten)) :
                 (file \o unwritten)[k] = IF k <= Len(file) THEN file[k]
                                          ELSE unwritten[k - Len(file)]
            /\ \A k \in 1..(Len(file') + Len(unwritten)) :
                 (file' \o unwritten)[k] = IF k <= Len(file') THEN file'[k]
                                           ELSE unwritten[k - Len(file')]
        BY <1>2, <1>4, ConcatIs
      <4>2. All = file \o unwritten /\ All' = file' \o unwritten
        BY <1>1 DEF All
      <4>. QED
        BY <1>4, <4>1, <4>2
    <3>4. ASSUME NEW k \in 1..(Len(file) + read[r].waits), k <= Len(All)
          PROVE  \E j \in 1..(Len(file') + read'[r].waits) : j <= Len(All') /\ All'[j] = All[k]
      <4>. DEFINE a == Len(file)
                  b == Len(unwritten)
                  w == read[r].waits
      <4>0. /\ a \in Nat /\ b \in Nat /\ w \in Nat /\ k \in 1..(a + w) /\ k <= a + b
            /\ Len(All') = a + 1 + b /\ Len(file') + read'[r].waits = a + 1 + w
        BY <1>4, <3>1, <3>2, <3>4
      <4>3. \A i \in 1..a : file'[i] = file[i]
        BY <1>4
      <4>4. /\ \A i \in 1..(a + b) : All[i] = IF i <= a THEN file[i] ELSE unwritten[i - a]
            /\ \A i \in 1..(a + 1 + b) : All'[i] = IF i <= a + 1 THEN file'[i]
                                                   ELSE unwritten[i - (a + 1)]
        BY <3>3
      <4>. HIDE DEF a, b, w
      <4>1. CASE k <= a
        <5>1. /\ k \in 1..a /\ k \in 1..(a + b) /\ k \in 1..(a + 1 + b) /\ k <= a + 1
              /\ k \in 1..(a + 1 + w) /\ k <= a + 1 + b
          BY <4>0, <4>1
        <5>2. All'[k] = All[k]
          BY <4>1, <4>3, <4>4, <5>1
        <5>. QED
          BY <4>0, <5>1, <5>2
      <4>2. CASE ~(k <= a)
        <5>1. /\ k + 1 \in 1..(a + 1 + b) /\ k \in 1..(a + b) /\ ~(k + 1 <= a + 1)
              /\ k + 1 \in 1..(a + 1 + w) /\ k + 1 <= a + 1 + b
              /\ (k + 1) - (a + 1) = k - a
          BY <4>0, <4>2
        <5>2. All'[k + 1] = All[k]
          BY <4>2, <4>4, <5>1
        <5>. QED
          BY <4>0, <5>1, <5>2
      <4>. QED
        BY <4>1, <4>2
    <3>. QED
      BY <3>4 DEF StillComes
  <2>2. GrowsTo(committed, committed') /\ GrowsTo(file, file') /\ committed' \in Seq(Entry)
        /\ committed' = committed /\ SameRead(r)
    BY <1>1, <1>2, <1>4 DEF GrowsTo, SameRead
  <2>. QED
    BY <2>1, <2>2, ReadGoesOn
<1>. QED
  BY <1>5, <1>7, <1>8, <1>9 DEF ReconcileInv

-----------------------------------------------------------------------------
\* Reads

LEMMA NoReadIs == NoRead \in ReadRecord /\ NoRead.stage = "none" /\ NoRead.waits = 0
BY DEF NoRead, ReadRecord

\* A read moves on by itself: the store, the turn and the file stay.
LEMMA ReadMoves ==
  ASSUME ReconcileInv, NEW r \in Reads, NEW new \in ReadRecord,
         read' = [read EXCEPT ![r] = new], new.waits <= Len(unwritten),
         UNCHANGED <<turnStage, committed, pendingEntries, staged, newest, unwritten, file>>,
         ReadFits(r)'
  PROVE  ReconcileInv'
<1>1. read \in [Reads -> ReadRecord] /\ newest \in 0..MaxEntries
  BY DEF ReconcileInv, EntryTypes, ReadTypes
<1>2. read'[r] = new /\ \A q \in Reads : q # r => read'[q] = read[q]
  BY <1>1
<1>3. ReadTypes'
  <2>1. read' \in [Reads -> ReadRecord]
    BY <1>1
  <2>2. \A q \in Reads : read'[q].waits <= Len(unwritten')
    BY <1>2 DEF ReconcileInv, ReadTypes
  <2>. QED
    BY <2>1, <2>2 DEF ReadTypes
<1>4. TurnFits'
  BY DEF ReconcileInv, TurnFits
<1>5. EntryTypes' /\ InOrder(committed, All)' /\ All' = All
  BY <1>1, StoreKept
<1>6. Once(All \o staged, newest)'
  BY <1>5 DEF ReconcileInv
<1>7. \A q \in Reads : q # r => ReadFits(q)'
  BY <1>2, ReadKept
<1>. QED
  BY <1>3, <1>4, <1>5, <1>6, <1>7 DEF ReconcileInv

LEMMA BeginReadStep ==
  ASSUME ReconcileInv, NEW r \in Reads, BeginRead(r)
  PROVE  ReconcileInv'
<1>. DEFINE new == [NoRead EXCEPT !.stage = "waiting", !.shared = TRUE, !.undisturbed = TRUE,
                      !.leaf = LeafOf(committed), !.known = Len(committed),
                      !.waits = Len(unwritten)]
<1>1. /\ read' = [read EXCEPT ![r] = new]
      /\ UNCHANGED <<turnStage, committed, pendingEntries, staged, newest, unwritten, file>>
  BY Zenon DEF BeginRead
<1>2. /\ committed \in Seq(Entry) /\ unwritten \in Seq(Entry) /\ file \in Seq(Entry)
      /\ read \in [Reads -> ReadRecord] /\ LeafOf(committed) \in Nat
  BY ReconcileConstants DEF ReconcileInv, EntryTypes, ReadTypes, LeafOf, Entry
<1>3. /\ new \in ReadRecord /\ new.stage = "waiting" /\ new.shared /\ new.undisturbed
      /\ new.known = Len(committed) /\ new.waits = Len(unwritten)
  <2>1. Len(committed) \in Nat /\ Len(unwritten) \in Nat
    BY <1>2
  <2>. QED
    BY <1>2, <2>1, NoReadIs DEF ReadRecord
<1>. HIDE DEF new
<1>4. read'[r] = new
  BY <1>1, <1>2
<1>5. ReadFits(r)'
  <2>1. All' = All /\ committed' = committed /\ file' = file
    BY <1>1 DEF All
  <2>2. \A i \in 1..Len(committed) : \E k \in 1..(Len(file) + Len(unwritten)) :
          k <= Len(All) /\ committed[i] = All[k]
    <3>1. Len(All) = Len(file) + Len(unwritten) /\ Len(All) \in Nat
      BY AllTyped
    <3>2. InOrder(committed, All)
      BY DEF ReconcileInv
    <3>. QED
      BY <3>1, <3>2 DEF InOrder
  <2>3. KnownFits(r)'
    <3>1. Len(committed) \in Nat /\ read'[r].known = Len(committed)
          /\ read'[r].stage = "waiting"
      BY <1>2, <1>3, <1>4
    <3>4. Len(file') = Len(file) /\ read'[r].waits = Len(unwritten)
      BY <1>3, <1>4, <2>1, Zenon
    <3>2. \A i \in 1..read'[r].known : \E k \in 1..(Len(file') + read'[r].waits) :
            k <= Len(All') /\ committed'[i] = All'[k]
      BY <2>1, <2>2, <3>1, <3>4
    <3>3. read'[r].known <= Len(committed') /\ read'[r].known = Len(committed')
      BY <2>1, <3>1
    <3>. QED
      BY <3>1, <3>2, <3>3 DEF KnownFits
  <2>. QED
    BY <1>3, <1>4, <2>3 DEF ReadFits, ComparedFits, LinesFit
<1>6. new.waits <= Len(unwritten)
  <2>1. Len(unwritten) \in Nat
    BY <1>2
  <2>. QED
    BY <1>3, <2>1
<1>. QED
  BY <1>1, <1>3, <1>5, <1>6, ReadMoves

LEMMA ReadFileStep ==
  ASSUME ReconcileInv, NEW r \in Reads, ReadFile(r)
  PROVE  ReconcileInv'
<1>. DEFINE new == [read[r] EXCEPT !.stage = "comparing", !.lines = file]
<1>1. /\ read' = [read EXCEPT ![r].stage = "comparing", ![r].lines = file]
      /\ read[r].stage = "waiting" /\ read[r].waits = 0
      /\ UNCHANGED <<turnStage, committed, pendingEntries, staged, newest, unwritten, file>>
  BY DEF ReadFile
<1>2. /\ committed \in Seq(Entry) /\ unwritten \in Seq(Entry) /\ file \in Seq(Entry)
      /\ read \in [Reads -> ReadRecord] /\ read[r] \in ReadRecord
  BY DEF ReconcileInv, EntryTypes, ReadTypes
<1>3. read' = [read EXCEPT ![r] = new]
  BY <1>1, <1>2
<1>4. /\ new \in ReadRecord /\ new.stage = "comparing" /\ new.lines = file
      /\ new.shared = read[r].shared /\ new.known = read[r].known
      /\ new.undisturbed = read[r].undisturbed /\ new.waits = 0
  BY <1>1, <1>2 DEF ReadRecord
<1>. HIDE DEF new
<1>5. read'[r] = new
  BY <1>2, <1>3
<1>6. ReadFits(r)'
  <2>1. KnownFits(r) /\ (read[r].undisturbed => read[r].shared)
    BY <1>1 DEF ReconcileInv, ReadFits
  <2>2. committed' = committed /\ file' = file
    BY <1>1
  <2>3. read[r].shared =>
          \A i \in 1..read[r].known : \E k \in 1..Len(file) : committed[i] = file[k]
    <3>. SUFFICES ASSUME read[r].shared, NEW i \in 1..read[r].known
                  PROVE  \E k \in 1..Len(file) : committed[i] = file[k]
      OBVIOUS
    <3>1. PICK k \in 1..(Len(file) + read[r].waits) : k <= Len(All) /\ committed[i] = All[k]
      BY <1>1, <2>1 DEF KnownFits
    <3>2. k \in 1..Len(file)
      BY <1>1, <1>2
    <3>3. All[k] = file[k]
      BY <1>2, <3>2 DEF All
    <3>. QED
      BY <3>1, <3>2, <3>3
  <2>4. KnownFits(r)'
    BY <1>4, <1>5, <2>1, <2>2, <2>3 DEF KnownFits
  <2>5. IsPrefixOf(file, file)
    BY <1>2 DEF IsPrefixOf
  <2>6. LinesFit(r)' /\ ComparedFits(r)'
    BY <1>4, <1>5, <2>2, <2>5 DEF LinesFit, ComparedFits
  <2>. QED
    BY <1>4, <1>5, <2>1, <2>4, <2>6 DEF ReadFits
<1>7. new.waits <= Len(unwritten)
  <2>1. Len(unwritten) \in Nat
    BY <1>2
  <2>. QED
    BY <1>4, <2>1
<1>. QED
  BY <1>1, <1>3, <1>4, <1>6, <1>7, ReadMoves

LEMMA CompareStep ==
  ASSUME ReconcileInv, NEW r \in Reads, Compare(r)
  PROVE  ReconcileInv'
<1>. DEFINE adopting == [read[r] EXCEPT !.stage = "adopting", !.compared = Len(List(r))]
<1>1. /\ read[r].stage = "comparing"
      /\ read' = [read EXCEPT ![r] = IF Adopts(r) THEN adopting ELSE NoRead]
      /\ UNCHANGED <<turnStage, committed, pendingEntries, staged, newest, unwritten, file>>
  BY DEF Compare
<1>2. /\ read \in [Reads -> ReadRecord] /\ unwritten \in Seq(Entry) /\ read[r] \in ReadRecord
      /\ committed \in Seq(Entry) /\ List(r) \in Seq(Entry) /\ read[r].waits <= Len(unwritten)
      /\ Len(unwritten) \in Nat
  BY DEF ReconcileInv, EntryTypes, ReadTypes, List, ReadRecord
<1>3. CASE Adopts(r)
  <2>1. Len(List(r)) \in Nat /\ Len(read[r].lines) >= Len(List(r))
        /\ Len(read[r].lines) \in Nat
    BY <1>2, <1>3 DEF Adopts, ReadRecord
  <2>2. /\ adopting \in ReadRecord /\ adopting.stage = "adopting"
        /\ adopting.lines = read[r].lines /\ adopting.shared = read[r].shared
        /\ adopting.known = read[r].known /\ adopting.waits = read[r].waits
        /\ adopting.undisturbed = read[r].undisturbed /\ adopting.compared = Len(List(r))
    BY <1>2, <2>1 DEF ReadRecord
  <2>. HIDE DEF adopting
  <2>3. read' = [read EXCEPT ![r] = adopting] /\ read'[r] = adopting
    BY <1>1, <1>2, <1>3
  <2>4. ReadFits(r)'
    <3>1. KnownFits(r) /\ LinesFit(r) /\ (read[r].undisturbed => read[r].shared)
      BY <1>1 DEF ReconcileInv, ReadFits
    <3>2. committed' = committed /\ file' = file
      BY <1>1
    <3>3. KnownFits(r)' /\ LinesFit(r)'
      BY <1>1, <2>2, <2>3, <3>1, <3>2 DEF KnownFits, LinesFit
    <3>4. ComparedFits(r)'
      BY <1>2, <2>1, <2>2, <2>3, <3>2 DEF ComparedFits, List
    <3>. QED
      BY <2>2, <2>3, <3>1, <3>3, <3>4 DEF ReadFits
  <2>. QED
    BY <1>1, <1>2, <2>2, <2>3, <2>4, ReadMoves
<1>4. CASE ~Adopts(r)
  <2>1. read' = [read EXCEPT ![r] = NoRead] /\ read'[r] = NoRead
    BY <1>1, <1>2, <1>4
  <2>2. ReadFits(r)'
    BY <2>1, NoReadIs DEF ReadFits
  <2>3. NoRead \in ReadRecord /\ NoRead.waits <= Len(unwritten)
    BY <1>2, NoReadIs
  <2>. QED
    BY <1>1, <2>1, <2>2, <2>3, ReadMoves
<1>. QED
  BY <1>3, <1>4

\* What is adopted is the beginning of the file; other reads keep their list.
LEMMA AdoptStep ==
  ASSUME ReconcileInv, NEW r \in Reads, Adopt(r)
  PROVE  ReconcileInv'
<1>. DEFINE l == read[r].lines
<1>1. /\ read[r].stage = "adopting" /\ committed' = l /\ pendingEntries' = <<>>
      /\ turnStage' = turnStage /\ staged' = staged /\ newest' = newest
      /\ unwritten' = unwritten /\ file' = file
  BY Zenon DEF Adopt
<1>2. /\ committed \in Seq(Entry) /\ unwritten \in Seq(Entry) /\ file \in Seq(Entry)
      /\ newest \in 0..MaxEntries
      /\ read \in [Reads -> ReadRecord] /\ l \in Seq(Entry)
  BY DEF ReconcileInv, EntryTypes, ReadTypes, ReadRecord
<1>3. read'[r] = NoRead /\ DOMAIN read' = Reads /\ read' = [q \in Reads |-> read'[q]]
  BY Zenon DEF Adopt
<1>4. ASSUME NEW q \in Reads, q # r
      PROVE  /\ read'[q] \in ReadRecord
             /\ read'[q].stage = read[q].stage /\ read'[q].lines = read[q].lines
             /\ read'[q].shared = FALSE /\ read'[q].compared = read[q].compared
             /\ read'[q].waits = read[q].waits /\ read'[q].undisturbed = FALSE
  <2>1. read[q] \in ReadRecord /\ List(q) \in Seq(Entry)
    BY <1>2 DEF List, ReadRecord
  <2>2. read'[q] = [read[q] EXCEPT !.list = List(q), !.shared = FALSE, !.undisturbed = FALSE]
    BY <1>4, Zenon DEF Adopt
  <2>. QED
    BY <2>1, <2>2 DEF ReadRecord
<1>5. committed' \in Seq(Entry) /\ IsPrefixOf(committed', file)
  BY <1>1, <1>2 DEF ReconcileInv, ReadFits, LinesFit
<1>6. ReadTypes'
  <2>1. \A q \in Reads : read'[q] \in ReadRecord
    BY <1>3, <1>4, NoReadIs
  <2>2. read' \in [Reads -> ReadRecord]
    BY <1>3, <2>1
  <2>3. \A q \in Reads : read'[q].waits <= Len(unwritten')
    <3>1. Len(unwritten) \in Nat
      BY <1>2
    <3>2. \A q \in Reads : read[q].waits <= Len(unwritten)
      BY DEF ReconcileInv, ReadTypes
    <3>3. \A q \in Reads : q # r => read'[q].waits = read[q].waits
      BY <1>4
    <3>4. read'[r].waits = 0 /\ unwritten' = unwritten
      BY <1>1, <1>3, NoReadIs
    <3>. QED
      BY <3>1, <3>2, <3>3, <3>4
  <2>. QED
    BY <2>2, <2>3 DEF ReadTypes
<1>7. EntryTypes' /\ TurnFits'
  <2>1. EntryTypes'
    BY <1>1, <1>2, <1>5 DEF EntryTypes
  <2>2. <<>> \in Seq(Entry)
    OBVIOUS
  <2>3. TurnFits'
    BY <1>1, <2>2 DEF ReconcileInv, TurnFits
  <2>. QED
    BY <2>1, <2>3
<1>8. All' = All /\ All \in Seq(Entry) /\ Once(All \o staged, newest)'
  <2>1. All' = All /\ All \in Seq(Entry)
    BY <1>1, AllTyped DEF All
  <2>. QED
    BY <1>1, <2>1 DEF ReconcileInv
<1>9. InOrder(committed, All)'
  <2>1. IsPrefixOf(committed', All)
    BY <1>2, <1>5 DEF IsPrefixOf, All
  <2>. QED
    BY <1>5, <1>8, <2>1, PrefixInOrder
<1>10. ASSUME NEW q \in Reads
       PROVE  ReadFits(q)'
  <2>1. CASE q = r
    BY <1>3, <2>1, NoReadIs DEF ReadFits
  <2>2. CASE q # r
    <3>. SUFFICES ASSUME read[q].stage # "none" PROVE ReadFits(q)'
      BY <1>4, <2>2 DEF ReadFits
    <3>1. ReadFits(q) /\ file' = file
      BY <1>1 DEF ReconcileInv
    <3>2. KnownFits(q)' /\ ComparedFits(q)' /\ LinesFit(q)'
      BY <1>4, <2>2, <3>1 DEF ReadFits, KnownFits, ComparedFits, LinesFit
    <3>. QED
      BY <1>4, <2>2, <3>2 DEF ReadFits
  <2>. QED
    BY <2>1, <2>2
<1>. QED
  BY <1>6, <1>7, <1>8, <1>9, <1>10 DEF ReconcileInv

-----------------------------------------------------------------------------
LEMMA InitReconcile ==
  ASSUME ReconcileInit
  PROVE  ReconcileInv
<1>1. /\ turnStage = "none" /\ newest = 0 /\ committed = <<>> /\ pendingEntries = <<>>
      /\ staged = <<>> /\ unwritten = <<>> /\ file = <<>> /\ read = [r \in Reads |-> NoRead]
  BY DEF ReconcileInit
<1>2. <<>> \in Seq(Entry) /\ Len(<<>>) = 0 /\ All = <<>> /\ <<>> \o <<>> = <<>>
  BY <1>1 DEF All
<1>3. TurnFits /\ EntryTypes
  <2>1. newest \in 0..MaxEntries
    BY <1>1, ReconcileConstants
  <2>. QED
    BY <1>1, <1>2, <2>1 DEF TurnFits, EntryTypes
<1>4. ReadTypes
  <2>1. read \in [Reads -> ReadRecord] /\ \A r \in Reads : read[r].waits = 0
    BY <1>1, NoReadIs
  <2>. QED
    BY <1>1, <1>2, <2>1 DEF ReadTypes
<1>5. Once(All \o staged, newest)
  BY <1>1, <1>2 DEF Once
<1>6. InOrder(committed, All)
  <2>1. IsPrefixOf(<<>>, <<>>)
    BY DEF IsPrefixOf
  <2>2. InOrder(<<>>, <<>>)
    BY <1>2, <2>1, PrefixInOrder
  <2>. QED
    BY <1>1, <1>2, <2>2
<1>7. \A r \in Reads : ReadFits(r)
  BY <1>1, NoReadIs DEF ReadFits
<1>. QED
  BY <1>3, <1>4, <1>5, <1>6, <1>7 DEF ReconcileInv

LEMMA StepReconcile ==
  ASSUME ReconcileInv, [ReconcileNext]_reconcileVars
  PROVE  ReconcileInv'
<1>1. CASE TurnStarts \/ TurnEnds \/ PrepareRun \/ PrepareFails \/ RunEvent \/ RunEnds
  BY <1>1, TurnStep, PrepareRunStep, PrepareFailsStep, RunEventStep, RunEndsStep, Zenon
<1>2. CASE AppendEntry \/ WriteEntry \/ ForeignEntry
  BY <1>2, AppendEntryStep, WriteEntryStep, ForeignEntryStep, Zenon
<1>3. ASSUME NEW r \in Reads, BeginRead(r) \/ ReadFile(r) \/ Compare(r) \/ Adopt(r)
      PROVE  ReconcileInv'
  BY <1>3, BeginReadStep, ReadFileStep, CompareStep, AdoptStep, Zenon
<1>4. CASE UNCHANGED reconcileVars
  <2>1. UNCHANGED <<turnStage, committed, pendingEntries, staged, newest, unwritten, file, read>>
    BY <1>4 DEF reconcileVars
  <2>2. TurnFits' /\ EntryTypes' /\ ReadTypes'
    BY <2>1 DEF ReconcileInv, TurnFits, EntryTypes, ReadTypes
  <2>3. All' = All
    BY <2>1 DEF All
  <2>4. \A r \in Reads : ReadFits(r)'
    BY <2>1, ReadKept
  <2>. QED
    BY <2>1, <2>2, <2>3, <2>4 DEF ReconcileInv
<1>. QED
  BY <1>1, <1>2, <1>3, <1>4, Zenon DEF ReconcileNext

LEMMA AlwaysReconcileInv == ReconcileSpec => []ReconcileInv
<1>1. ReconcileInv /\ [ReconcileNext]_reconcileVars => ReconcileInv'
  BY StepReconcile
<1>. QED
  BY InitReconcile, <1>1, PTL DEF ReconcileSpec

\* The types of the store, the file, the turn and the reads.
THEOREM ReconcileTyped == ReconcileSpec => []ReconcileTypeOK
<1>1. ReconcileInv => ReconcileTypeOK
  <2>. SUFFICES ASSUME ReconcileInv PROVE ReconcileTypeOK
    OBVIOUS
  <2>1. DOMAIN NoRead = {"stage", "shared", "list", "leaf", "known", "waits", "lines",
                         "compared", "undisturbed"}
    BY DEF NoRead
  <2>2. \A r \in Reads : read[r] \in ReadRecord /\ read[r].waits <= Len(unwritten)
    BY DEF ReconcileInv, ReadTypes
  <2>3. \A r \in Reads : DOMAIN read[r] = DOMAIN NoRead
    BY <2>1, <2>2 DEF ReadRecord
  <2>4. \A r \in Reads : read[r].stage \in {"none", "waiting", "comparing", "adopting"}
    BY <2>2 DEF ReadRecord
  <2>5. TurnFits /\ EntryTypes
    BY DEF ReconcileInv
  <2>. QED
    BY <2>2, <2>3, <2>4, <2>5 DEF TurnFits, EntryTypes, ReconcileTypeOK, Entry
<1>. QED
  BY AlwaysReconcileInv, <1>1, PTL

-----------------------------------------------------------------------------
\* What a read takes from the store

\* Steps that leave a read where it is.
LEMMA EndsByItself ==
  ASSUME ReconcileInv, [ReconcileNext]_reconcileVars, NEW r \in Reads,
         read[r].stage # "none", read'[r].stage = "none"
  PROVE  Adopt(r) \/ (Compare(r) /\ ~Adopts(r))
<1>0. read \in [Reads -> ReadRecord] /\ read[r] \in ReadRecord
      /\ committed \in Seq(Entry) /\ unwritten \in Seq(Entry)
  BY DEF ReconcileInv, EntryTypes, ReadTypes
<1>1. ASSUME NEW e, Commits(e)
      PROVE  FALSE
  <2>1. CASE e = <<>>
    <3>1. read' = read
      BY <1>1, <2>1, Zenon DEF Commits
    <3>. QED
      BY <3>1
  <2>2. CASE e # <<>>
    <3>1. read' = [q \in Reads |-> [read[q] EXCEPT !.undisturbed = FALSE]]
      BY <1>1, <2>2, Zenon DEF Commits
    <3>. QED
      BY <1>0, <3>1 DEF ReadRecord
  <2>. QED
    BY <2>1, <2>2
<1>2. CASE RunEvent \/ RunEnds \/ AppendEntry
  BY <1>1, <1>2, Zenon DEF RunEvent, RunEnds, AppendEntry
<1>3. CASE TurnStarts \/ TurnEnds \/ PrepareRun \/ PrepareFails \/ ForeignEntry
            \/ UNCHANGED reconcileVars
  BY <1>3 DEF TurnStarts, TurnEnds, PrepareRun, PrepareFails, ForeignEntry, reconcileVars
<1>4. CASE WriteEntry
  BY <1>0, <1>4 DEF WriteEntry, ReadRecord
<1>5. ASSUME NEW q \in Reads, BeginRead(q) \/ ReadFile(q)
      PROVE  FALSE
  <2>1. CASE BeginRead(q)
    BY <1>0, <2>1 DEF BeginRead, NoRead
  <2>2. CASE ReadFile(q)
    BY <1>0, <2>2 DEF ReadFile, ReadRecord
  <2>. QED
    BY <1>5, <2>1, <2>2
<1>6. ASSUME NEW q \in Reads, Compare(q)
      PROVE  Compare(r) /\ ~Adopts(r)
  BY <1>0, <1>6 DEF Compare, ReadRecord
<1>7. ASSUME NEW q \in Reads, Adopt(q)
      PROVE  Adopt(r)
  <2>1. CASE q # r
    <3>1. read'[r] = [read[r] EXCEPT !.list = List(r), !.shared = FALSE, !.undisturbed = FALSE]
      BY <1>7, <2>1, Zenon DEF Adopt
    <3>. QED
      BY <1>0, <3>1 DEF ReadRecord
  <2>. QED
    BY <1>7, <2>1
<1>. QED
  BY <1>2, <1>3, <1>4, <1>5, <1>6, <1>7, Zenon DEF ReconcileNext

\* What was read, if it is all among the first n of a list in the order of the file and no
\* shorter than n, is those n.
LEMMA ReadIsTheList ==
  ASSUME ReconcileInv, NEW s \in Seq(Entry), NEW n \in Nat, IsPrefixOf(s, file),
         n <= Len(committed), n <= Len(s),
         \A i \in 1..Len(s) : \E k \in 1..n : s[i] = committed[k]
  PROVE  \A k \in 1..n : k <= Len(s) /\ committed[k] = s[k]
<1>. DEFINE m == Len(s)
<1>1. /\ committed \in Seq(Entry) /\ m \in Nat /\ Len(committed) \in Nat
      /\ file \in Seq(Entry) /\ unwritten \in Seq(Entry) /\ staged \in Seq(Entry)
      /\ InOrder(committed, All) /\ Once(All \o staged, newest)
  BY DEF ReconcileInv, EntryTypes, TurnFits
<1>2. Once(All, newest) /\ All \in Seq(Entry)
  BY <1>1, AllTyped, NewestTyped, OnceFirst
<1>3. PICK g : /\ Increasing(g, Len(committed))
               /\ \A i \in 1..Len(committed) : g[i] \in 1..Len(All) /\ All[g[i]] = committed[i]
  BY <1>1 DEF InOrder
<1>4. \A i \in 1..m : i \in 1..Len(All) /\ All[i] = s[i]
  BY <1>1 DEF IsPrefixOf, All
<1>. HIDE DEF m
<1>5. \A i \in 1..m : \E k \in 1..n : s[i] = committed[k] /\ g[k] = i
  <2>. SUFFICES ASSUME NEW i \in 1..m PROVE \E k \in 1..n : s[i] = committed[k] /\ g[k] = i
    OBVIOUS
  <2>1. PICK k \in 1..n : s[i] = committed[k]
    BY DEF m
  <2>2. k \in 1..Len(committed)
    BY <1>1
  <2>3. g[k] \in 1..Len(All) /\ All[g[k]] = committed[k] /\ i \in 1..Len(All) /\ All[i] = s[i]
    BY <1>3, <1>4, <2>2
  <2>4. g[k] = i
    BY <1>2, <2>1, <2>3 DEF Once
  <2>. QED
    BY <2>1, <2>4
<1>. DEFINE f == [i \in 1..m |-> CHOOSE k \in 1..n : s[i] = committed[k] /\ g[k] = i]
<1>6. \A i \in 1..m : f[i] \in 1..n /\ s[i] = committed[f[i]] /\ g[f[i]] = i
  BY <1>5
<1>7. f \in [1..m -> 1..n]
  <2>1. DOMAIN f = 1..m /\ f = [i \in 1..m |-> f[i]]
    OBVIOUS
  <2>. HIDE DEF f
  <2>. QED
    BY <1>6, <2>1
<1>. HIDE DEF f
<1>8. Increasing(f, m)
  <2>1. f \in [1..m -> Nat \ {0}]
    BY <1>1, <1>7
  <2>2. ASSUME NEW i \in 1..m, NEW j \in 1..m, i < j
        PROVE  f[i] < f[j]
    <3>1. /\ f[i] \in 1..Len(committed) /\ f[j] \in 1..Len(committed)
          /\ g[f[i]] = i /\ g[f[j]] = j
      <4>1. \A k \in 1..n : k \in 1..Len(committed)
        BY <1>1
      <4>. QED
        BY <1>6, <4>1
    <3>2. ~(f[j] < f[i]) /\ f[i] # f[j]
      BY <1>3, <2>2, <3>1 DEF Increasing
    <3>. QED
      BY <3>1, <3>2
  <2>. QED
    BY <2>1, <2>2 DEF Increasing
<1>9. ASSUME NEW k \in 1..n
      PROVE  k <= m /\ committed[k] = s[k]
  <2>1. k \in 1..m /\ m \in k..m /\ m \in 1..m
    BY <1>1 DEF m
  <2>2. f[m] >= f[k] + (m - k) /\ f[k] >= k /\ f[k] \in Nat
    BY <1>1, <1>8, <2>1, IncreasingSteps, IncreasingIsAbove
  <2>3. f[m] \in 1..n /\ n <= m
    BY <1>6, <2>1 DEF m
  <2>4. f[k] = k
    BY <1>1, <2>1, <2>2, <2>3
  <2>. QED
    BY <1>6, <2>1, <2>4
<1>. QED
  BY <1>9 DEF m

\* A read that nothing interfered with and that does not adopt has read what is there.
LEMMA UndisturbedFinds ==
  ASSUME ReconcileInv, NEW r \in Reads, read[r].stage = "comparing", ~Adopts(r),
         read[r].undisturbed
  PROVE  \A k \in 1..Len(read[r].lines) : \E i \in 1..Len(committed) :
           committed[i] = read[r].lines[k]
<1>. DEFINE s == read[r].lines
            m == Len(committed)
<1>1. /\ s \in Seq(Entry) /\ committed \in Seq(Entry) /\ m \in Nat /\ Len(s) \in Nat
      /\ file \in Seq(Entry) /\ unwritten \in Seq(Entry) /\ staged \in Seq(Entry)
      /\ read[r].shared /\ List(r) = committed /\ read[r].known = m
  <2>1. /\ s \in Seq(Entry) /\ committed \in Seq(Entry) /\ file \in Seq(Entry)
        /\ unwritten \in Seq(Entry) /\ staged \in Seq(Entry)
    BY DEF ReconcileInv, EntryTypes, ReadTypes, TurnFits, ReadRecord
  <2>2. read[r].shared /\ read[r].known = m
    BY DEF ReconcileInv, ReadFits, KnownFits
  <2>3. m \in Nat /\ Len(s) \in Nat
    BY <2>1
  <2>. QED
    BY <2>1, <2>2, <2>3 DEF List
<1>2. /\ IsPrefixOf(s, file) /\ InOrder(committed, All)
      /\ \A i \in 1..m : \E k \in 1..Len(s) : committed[i] = s[k]
  <2>1. KnownFits(r) /\ LinesFit(r) /\ InOrder(committed, All)
    BY DEF ReconcileInv, ReadFits
  <2>. QED
    BY <1>1, <2>1 DEF KnownFits, LinesFit
<1>3. Len(s) >= m => Len(s) = m
  BY <1>1 DEF Adopts
<1>4. PICK g : /\ Increasing(g, m)
               /\ \A i \in 1..m : g[i] \in 1..Len(All) /\ All[g[i]] = committed[i]
  BY <1>2 DEF InOrder
<1>5. Once(All, newest)
  BY <1>1, AllTyped, NewestTyped, OnceFirst DEF ReconcileInv
<1>. HIDE DEF s, m
<1>6. \A i \in 1..Len(s) : i \in 1..Len(All) /\ All[i] = s[i]
  <2>. SUFFICES ASSUME NEW i \in 1..Len(s) PROVE i \in 1..Len(All) /\ All[i] = s[i]
    OBVIOUS
  <2>1. i \in 1..Len(file) /\ s[i] = file[i]
    BY <1>1, <1>2 DEF IsPrefixOf
  <2>2. i \in 1..Len(file \o unwritten) /\ (file \o unwritten)[i] = file[i]
    BY <1>1, <2>1
  <2>. QED
    BY <2>1, <2>2 DEF All
<1>7. \A i \in 1..m : g[i] \in 1..Len(s) /\ committed[i] = s[g[i]]
  <2>. SUFFICES ASSUME NEW i \in 1..m PROVE g[i] \in 1..Len(s) /\ committed[i] = s[g[i]]
    OBVIOUS
  <2>1. PICK k \in 1..Len(s) : committed[i] = s[k]
    BY <1>2
  <2>2. k = g[i]
    BY <1>4, <1>5, <1>6, <2>1 DEF Once
  <2>. QED
    BY <2>1, <2>2
<1>8. \A i \in 1..m : g[i] \in Nat /\ g[i] >= i
  BY <1>1, <1>4, IncreasingIsAbove
<1>9. Len(s) = m
  <2>1. CASE m = 0
    BY <1>1, <1>3, <2>1
  <2>2. CASE m # 0
    <3>1. m \in 1..m
      BY <1>1, <2>2
    <3>. QED
      BY <1>1, <1>3, <1>7, <1>8, <3>1, SMTT(30)
  <2>. QED
    BY <2>1, <2>2
<1>10. ASSUME NEW k \in 1..Len(s)
       PROVE  committed[k] = s[k] /\ k \in 1..m
  <2>1. k \in 1..m /\ m \in k..m /\ m \in 1..m
    BY <1>1, <1>9
  <2>2. g[m] >= g[k] + (m - k)
    BY <1>1, <1>4, <2>1, IncreasingSteps
  <2>3. g[k] >= k /\ g[m] <= m /\ g[k] \in Nat /\ g[m] \in Nat
    <3>1. g[m] \in 1..m
      BY <1>7, <1>9, <2>1
    <3>2. g[k] \in Nat /\ g[k] >= k
      BY <1>8, <2>1
    <3>. QED
      BY <1>1, <3>1, <3>2
  <2>4. g[k] = k
    BY <1>1, <2>1, <2>2, <2>3
  <2>. QED
    BY <1>7, <2>1, <2>4
<1>. QED
  BY <1>10 DEF s, m

LEMMA FirstIs ==
  ASSUME ReconcileInv, NEW n \in Nat, n <= Len(committed)
  PROVE  First(n) = {committed[k] : k \in 1..n}
<1>1. committed \in Seq(Entry)
  BY DEF ReconcileInv, EntryTypes
<1>. DEFINE s == SubSeq(committed, 1, n)
<1>2. Len(s) = n /\ \A k \in 1..n : s[k] = committed[k]
  BY <1>1
<1>3. DOMAIN s = 1..n
  BY <1>1
<1>. HIDE DEF s
<1>4. Range(s) = {s[k] : k \in 1..n}
  BY <1>3, Zenon DEF Range
<1>. QED
  BY <1>2, <1>4 DEF First, s

\* The read that replaces the store's entries adopts what it read.
LEMMA ReplacesAdopts ==
  ASSUME ReconcileInv, [ReconcileNext]_reconcileVars, NEW r \in Reads, Replaces(r)
  PROVE  /\ read[r].stage = "adopting" /\ read[r].shared /\ committed' = read[r].lines
         /\ read[r].lines \in Seq(Entry) /\ IsPrefixOf(read[r].lines, file)
         /\ Range(committed') = {read[r].lines[k] : k \in 1..Len(read[r].lines)}
         /\ KnownFits(r) /\ ComparedFits(r)
         /\ read[r].known \in Nat /\ read[r].compared \in Nat
<1>1. read[r].stage = "adopting" /\ read'[r].stage = "none" /\ read[r].shared
  BY DEF Replaces
<1>2. Adopt(r)
  <2>1. Adopt(r) \/ (Compare(r) /\ ~Adopts(r))
    BY <1>1, EndsByItself
  <2>. QED
    BY <1>1, <2>1 DEF Compare
<1>3. committed' = read[r].lines
  BY <1>2, Zenon DEF Adopt
<1>4. read[r] \in ReadRecord
  BY DEF ReconcileInv, ReadTypes
<1>5. read[r].lines \in Seq(Entry) /\ read[r].known \in Nat /\ read[r].compared \in Nat
  BY <1>4 DEF ReadRecord
<1>6. KnownFits(r) /\ ComparedFits(r) /\ IsPrefixOf(read[r].lines, file)
  BY <1>1 DEF ReconcileInv, ReadFits, LinesFit
<1>7. DOMAIN committed' = 1..Len(read[r].lines)
  BY <1>3, <1>5
<1>8. Range(committed') = {read[r].lines[k] : k \in 1..Len(read[r].lines)}
  BY <1>3, <1>7, Zenon DEF Range
<1>. QED
  BY <1>1, <1>3, <1>5, <1>6, <1>8

\* A read of an idle thread, whatever turns, settings and other processes add meanwhile,
\* takes nothing from memory that was there when it began, and, but for the exceptions the
\* property names, nothing that came since; and takes over all it found when nothing
\* interfered.  The store's list and the file go in one order: what was read, if it has
\* nothing that the list lacks and is no shorter, is the list.
THEOREM ReadsAreSafe == ReconcileSpec => ReadsReconcile
<1>1. ASSUME ReconcileInv, [ReconcileNext]_reconcileVars
      PROVE  KeepsWhatItFound
  <2>. SUFFICES ASSUME NEW r \in Reads, Replaces(r)
                PROVE  First(read[r].known) \subseteq Range(committed')
    BY DEF KeepsWhatItFound
  <2>1. /\ read[r].stage = "adopting" /\ read[r].shared /\ KnownFits(r)
        /\ Range(committed') = {read[r].lines[k] : k \in 1..Len(read[r].lines)}
        /\ read[r].known \in Nat
    BY <1>1, ReplacesAdopts
  <2>2. read[r].known <= Len(committed)
        /\ \A i \in 1..read[r].known : \E k \in 1..Len(read[r].lines) :
             committed[i] = read[r].lines[k]
    BY <2>1 DEF KnownFits
  <2>3. First(read[r].known) = {committed[k] : k \in 1..read[r].known}
    BY <1>1, <2>1, <2>2, FirstIs
  <2>. QED
    BY <2>1, <2>2, <2>3
<1>2. ASSUME ReconcileInv, [ReconcileNext]_reconcileVars
      PROVE  KeepsWhatCame
  <2>. SUFFICES ASSUME NEW r \in Reads, Replaces(r), ~FileHasMore(r)
                PROVE  First(read[r].compared) \subseteq Range(committed')
    BY DEF KeepsWhatCame
  <2>. DEFINE s == read[r].lines
              n == read[r].compared
  <2>1. /\ read[r].stage = "adopting" /\ read[r].shared /\ ComparedFits(r)
        /\ Range(committed') = {s[k] : k \in 1..Len(s)} /\ committed' = s
        /\ s \in Seq(Entry) /\ n \in Nat /\ IsPrefixOf(s, file)
    BY <1>2, ReplacesAdopts
  <2>2. n <= Len(committed) /\ n <= Len(s)
    BY <2>1 DEF ComparedFits
  <2>3. First(n) = {committed[k] : k \in 1..n}
    BY <1>2, <2>1, <2>2, FirstIs
  <2>4. Range(s) \subseteq First(n)
    BY DEF FileHasMore
  <2>. HIDE DEF s, n
  <2>5. \A i \in 1..Len(s) : \E k \in 1..n : s[i] = committed[k]
    <3>1. \A i \in 1..Len(s) : s[i] \in Range(s)
      BY <2>1
    <3>. QED
      BY <2>3, <2>4, <3>1
  <2>6. \A k \in 1..n : k <= Len(s) /\ committed[k] = s[k]
    BY <1>2, <2>1, <2>2, <2>5, ReadIsTheList
  <2>7. \A k \in 1..n : k \in 1..Len(s)
    BY <2>1, <2>6
  <2>8. First(n) \subseteq Range(committed')
    BY <2>1, <2>3, <2>6, <2>7
  <2>. QED
    BY <2>8 DEF n
<1>3. ASSUME ReconcileInv, [ReconcileNext]_reconcileVars
      PROVE  UndisturbedReadsAgree
  <2>. SUFFICES ASSUME NEW r \in Reads, read[r].undisturbed, read[r].stage # "none",
                       read'[r].stage = "none"
                PROVE  Range(read[r].lines) \subseteq Range(committed')
    BY DEF UndisturbedReadsAgree
  <2>1. Adopt(r) \/ (Compare(r) /\ ~Adopts(r))
    BY <1>3, EndsByItself
  <2>2. CASE Adopt(r)
    <3>1. committed' = read[r].lines
      BY <2>2, Zenon DEF Adopt
    <3>. QED
      BY <3>1
  <2>3. CASE Compare(r) /\ ~Adopts(r)
    <3>1. read[r].stage = "comparing" /\ committed' = committed
      BY <2>3 DEF Compare
    <3>2. \A k \in 1..Len(read[r].lines) : \E i \in 1..Len(committed) :
            committed[i] = read[r].lines[k]
      BY <1>3, <2>3, <3>1, UndisturbedFinds
    <3>3. committed \in Seq(Entry) /\ read[r].lines \in Seq(Entry)
      BY <1>3 DEF ReconcileInv, EntryTypes, ReadTypes, ReadRecord
    <3>4. DOMAIN committed = 1..Len(committed)
          /\ DOMAIN read[r].lines = 1..Len(read[r].lines)
      BY <3>3
    <3>5. Range(read[r].lines) = {read[r].lines[k] : k \in 1..Len(read[r].lines)}
          /\ Range(committed) = {committed[i] : i \in 1..Len(committed)}
      BY <3>4, Zenon DEF Range
    <3>6. Range(read[r].lines) \subseteq Range(committed)
      <4>. SUFFICES ASSUME NEW k \in 1..Len(read[r].lines)
                    PROVE  read[r].lines[k] \in Range(committed)
        BY <3>5
      <4>1. PICK i \in 1..Len(committed) : committed[i] = read[r].lines[k]
        BY <3>2
      <4>. QED
        BY <3>5, <4>1
    <3>. QED
      BY <3>1, <3>6, Zenon
  <2>. QED
    BY <2>1, <2>2, <2>3
<1>4. ReconcileInv /\ [ReconcileNext]_reconcileVars
        => [KeepsWhatItFound /\ KeepsWhatCame /\ UndisturbedReadsAgree]_reconcileVars
  BY <1>1, <1>2, <1>3
<1>. QED
  BY AlwaysReconcileInv, <1>4, PTL DEF ReconcileSpec, ReadsReconcile

=============================================================================
