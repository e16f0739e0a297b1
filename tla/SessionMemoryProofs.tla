---- MODULE SessionMemoryProofs ----
(***************************************************************************)
(* What the agent remembers between jobs is what the log restores, for     *)
(* every value of the bounds.                                              *)
(*                                                                         *)
(* Found says by a placement what Embeds says by search.  View is what the *)
(* path to an entry restores, and every operation of the journal is known  *)
(* by what it does to two views: of the committed leaf, and of the entry   *)
(* that the next one hangs from.  RunInv says in which of them the agent's *)
(* conversation is found, at every step of a run.                          *)
(***************************************************************************)
EXTENDS SessionProofs

-----------------------------------------------------------------------------
\* Where m is found next in b after position x, Len(b) + 1 when it is not.
FoundNext(b, m, x) ==
  LET later == {p \in (x + 1)..Len(b) : b[p] = m}
  IN  IF later = {} THEN Len(b) + 1
      ELSE CHOOSE p \in later : \A q \in later : p <= q

\* It is a position, and none before it after x will do.
LEMMA FoundNextIs ==
  ASSUME NEW b \in Seq(Message), NEW m, NEW x \in Nat
  PROVE  /\ FoundNext(b, m, x) \in Nat
         /\ \A p \in (x + 1)..Len(b) : b[p] = m => FoundNext(b, m, x) <= p
<1>. DEFINE later == {p \in (x + 1)..Len(b) : b[p] = m}
<1>1. Len(b) \in Nat /\ later \subseteq Nat
  OBVIOUS
<1>2. CASE later = {}
  <2>1. FoundNext(b, m, x) = Len(b) + 1
    BY <1>2 DEF FoundNext
  <2>2. \A p \in (x + 1)..Len(b) : b[p] # m
    BY <1>2
  <2>. QED
    BY <1>1, <2>1, <2>2
<1>3. CASE later # {}
  <2>1. \E p \in later : \A q \in later : p <= q
    <3>. HIDE DEF later
    <3>. QED
      BY <1>1, <1>3, LeastExists, Zenon
  <2>2. FoundNext(b, m, x) = CHOOSE p \in later : \A q \in later : p <= q
    BY <1>3 DEF FoundNext
  <2>3. FoundNext(b, m, x) \in later /\ \A q \in later : FoundNext(b, m, x) <= q
    <3>. HIDE DEF later
    <3>. QED
      BY <2>1, <2>2, Zenon
  <2>4. \A p \in (x + 1)..Len(b) : b[p] = m => p \in later
    OBVIOUS
  <2>. QED
    BY <1>1, <2>3, <2>4
<1>. QED
  BY <1>2, <1>3, Zenon

\* f places the members of a in b, one after the other; the doom-loop warnings
\* need no place.
Places(f, a, b) ==
  /\ f \in [0..Len(a) -> 0..Len(b)] /\ f[0] = 0
  /\ \A k \in 1..Len(a) :
       /\ f[k - 1] <= f[k]
       /\ a[k] # Warning => f[k - 1] < f[k] /\ b[f[k]] = a[k]
Found(a, b) == \E f : Places(f, a, b)

\* What can be placed at all is placed by going from each member to the next
\* position that will do.
LEMMA FoundEmbeds ==
  ASSUME NEW a \in Seq(Message), NEW b \in Seq(Message), Found(a, b)
  PROVE  Embeds(a, b)
<1>. DEFINE n == Len(a)
            prev == [k \in 1..n |-> k - 1]
            g == [k \in 1..n |-> [x \in Nat |->
                    IF a[k] = Warning THEN x ELSE FoundNext(b, a[k], x)]]
            Step(f) == [k \in 0..n |->
                 IF k = 0 THEN 0
                 ELSE IF a[k] = Warning THEN f[k - 1]
                 ELSE LET later == {p \in (f[k - 1] + 1)..Len(b) : b[p] = a[k]}
                      IN  IF later = {} THEN Len(b) + 1
                          ELSE CHOOSE p \in later : \A q \in later : p <= q]
            at == CHOOSE f : f = Step(f)
<1>1. n \in Nat /\ 0 \in Nat /\ Len(b) \in Nat
  OBVIOUS
<1>2. prev \in [1..n -> Nat] /\ \A k \in 1..n : prev[k] < k
  BY <1>1
<1>3. g \in [1..n -> [Nat -> Nat]]
  <2>1. \A k \in 1..n : \A x \in Nat : FoundNext(b, a[k], x) \in Nat
    BY FoundNextIs
  <2>2. \A k \in 1..n : [x \in Nat |-> IF a[k] = Warning THEN x ELSE FoundNext(b, a[k], x)]
                          \in [Nat -> Nat]
    BY <2>1
  <2>. QED
    BY <2>2
<1>4. PICK f : f \in [0..n -> Nat] /\ f[0] = 0
                 /\ \A k \in 1..n : f[k] = g[k][f[prev[k]]]
  <2>. HIDE DEF n, prev, g, at
  <2>1. \A k \in 1..n : prev[k] < k
    BY <1>2
  <2>2. prev \in [1..n -> Nat]
    BY <1>2
  <2>3. \E f : IsTable(f, n, Nat, 0, prev, g)
    BY <1>1, <1>3, <2>1, <2>2, TableExists, Zenon
  <2>. QED
    BY <2>3, Zenon DEF IsTable
<1>5. \A k \in 1..n : k - 1 \in 0..n /\ f[k - 1] \in Nat
  BY <1>1, <1>4
<1>6. \A k \in 1..n :
        f[k] = IF a[k] = Warning THEN f[k - 1] ELSE FoundNext(b, a[k], f[k - 1])
  BY <1>4, <1>5
<1>7. f = Step(f)
  <2>1. \A k \in 0..n : k = 0 \/ k \in 1..n
    BY <1>1
  <2>2. \A k \in 0..n : f[k] =
          IF k = 0 THEN 0
          ELSE IF a[k] = Warning THEN f[k - 1] ELSE FoundNext(b, a[k], f[k - 1])
    BY <1>4, <1>6, <2>1
  <2>. HIDE DEF n, g, prev, at
  <2>. QED
    BY <1>4, <2>2, Zenon DEF FoundNext
<1>8. at = Step(at)
  BY <1>7, Zenon
<1>9. Embeds(a, b) = (at[n] <= Len(b))
  BY Zenon DEF Embeds
<1>. HIDE DEF at
<1>10. at[0] = 0
  <2>1. 0 \in 0..n
    BY <1>1
  <2>. QED
    BY <1>8, <2>1, Zenon
<1>11. ASSUME NEW k \in 1..n
       PROVE  /\ a[k] = Warning => at[k] = at[k - 1]
              /\ a[k] # Warning => at[k] = FoundNext(b, a[k], at[k - 1])
  <2>1. k \in 0..n /\ k # 0
    BY <1>1
  <2>. QED
    BY <1>8, <2>1, Zenon DEF FoundNext
<1>12. PICK h : Places(h, a, b)
  BY DEF Found
<1>13. /\ \A k \in 0..n : h[k] \in 0..Len(b)
       /\ h[0] = 0
       /\ \A k \in 1..n : /\ h[k - 1] <= h[k]
                          /\ a[k] # Warning => h[k - 1] < h[k] /\ b[h[k]] = a[k]
  BY <1>12 DEF Places
<1>. DEFINE G == {k \in 0..n : at[k] \in Nat /\ at[k] <= h[k]}
<1>14. 0 \in G
  BY <1>1, <1>10, <1>13
<1>15. ASSUME NEW k \in 1..n, \A m \in 0..(k - 1) : m \in G PROVE k \in G
  <2>1. k - 1 \in G /\ k - 1 \in 0..n /\ k \in 0..n
    BY <1>1, <1>15
  <2>2. at[k - 1] \in Nat /\ at[k - 1] <= h[k - 1] /\ h[k - 1] \in 0..Len(b)
        /\ h[k] \in 0..Len(b)
    BY <1>13, <2>1
  <2>3. CASE a[k] = Warning
    BY <1>11, <1>13, <2>1, <2>2, <2>3
  <2>4. CASE a[k] # Warning
    <3>1. h[k] \in (at[k - 1] + 1)..Len(b) /\ b[h[k]] = a[k]
      BY <1>1, <1>13, <2>2, <2>4
    <3>2. FoundNext(b, a[k], at[k - 1]) \in Nat /\ FoundNext(b, a[k], at[k - 1]) <= h[k]
      BY <2>2, <3>1, FoundNextIs
    <3>. QED
      BY <1>11, <2>1, <2>4, <3>2
  <2>. QED
    BY <2>3, <2>4
<1>16. \A k \in 0..n : k \in G
  <2>. HIDE DEF G
  <2>. QED
    BY <1>1, <1>14, <1>15, UpToInduction, Zenon
<1>17. n \in 0..n
  BY <1>1
<1>18. at[n] \in Nat /\ at[n] <= h[n] /\ h[n] \in 0..Len(b)
  BY <1>13, <1>16, <1>17
<1>19. at[n] <= Len(b)
  BY <1>1, <1>18
<1>. QED
  BY <1>9, <1>19, Zenon

\* Nothing is found in anything,
LEMMA NothingIsFound == \A b \in Seq(Message) : Found(<<>>, b)
<1>. SUFFICES ASSUME NEW b \in Seq(Message) PROVE Found(<<>>, b)
  OBVIOUS
<1>1. Places([k \in 0..0 |-> 0], <<>>, b)
  BY DEF Places
<1>. QED
  BY <1>1 DEF Found

\* ... and a conversation in itself.
LEMMA FoundInItself == \A b \in Seq(Message) : Found(b, b)
<1>. SUFFICES ASSUME NEW b \in Seq(Message) PROVE Found(b, b)
  OBVIOUS
<1>1. Places([k \in 0..Len(b) |-> k], b, b)
  BY DEF Places
<1>. QED
  BY <1>1 DEF Found

\* A doom-loop warning is found where there is nothing.
LEMMA WarningsAreFound == \A w \in Warnings : Found(w, <<>>)
<1>1. Found(<<>>, <<>>)
  <2>1. <<>> \in Seq(Message)
    OBVIOUS
  <2>. QED
    BY <2>1, NothingIsFound, Zenon
<1>2. Places([k \in 0..1 |-> 0], <<Warning>>, <<>>)
  BY DEF Places
<1>3. Found(<<Warning>>, <<>>)
  BY <1>2 DEF Found
<1>. QED
  BY <1>1, <1>3 DEF Warnings

\* What is found in two parts is found in the whole.
LEMMA FoundOneByOne ==
  ASSUME NEW a \in Seq(Message), NEW b \in Seq(Message), NEW c \in Seq(Message),
         NEW d \in Seq(Message), Found(a, b), Found(c, d)
  PROVE  Found(a \o c, b \o d)
<1>1. PICK f : Places(f, a, b)
  BY DEF Found
<1>2. PICK g : Places(g, c, d)
  BY DEF Found
<1>. DEFINE m == Len(a)
            n == Len(c)
            p == Len(b)
            q == Len(d)
            s == a \o c
            t == b \o d
            h == [k \in 0..(m + n) |-> IF k <= m THEN f[k] ELSE p + g[k - m]]
<1>3. m \in Nat /\ n \in Nat /\ p \in Nat /\ q \in Nat
  OBVIOUS
<1>4. /\ Len(s) = m + n /\ Len(t) = p + q
      /\ \A k \in 1..m : s[k] = a[k]
      /\ \A k \in 1..n : s[m + k] = c[k]
      /\ \A k \in 1..p : t[k] = b[k]
      /\ \A k \in 1..q : t[p + k] = d[k]
  OBVIOUS
<1>5. /\ f[0] = 0 /\ \A k \in 0..m : f[k] \in 0..p
      /\ \A k \in 1..m : f[k - 1] <= f[k]
                         /\ (a[k] # Warning => f[k - 1] < f[k] /\ b[f[k]] = a[k])
  BY <1>1 DEF Places
<1>6. /\ g[0] = 0 /\ \A k \in 0..n : g[k] \in 0..q
      /\ \A k \in 1..n : g[k - 1] <= g[k]
                         /\ (c[k] # Warning => g[k - 1] < g[k] /\ d[g[k]] = c[k])
  BY <1>2 DEF Places
<1>. HIDE DEF m, n, p, q, s, t
<1>7. /\ \A k \in 0..m : h[k] = f[k]
      /\ \A k \in 1..n : h[m + k] = p + g[k] /\ m + k \in 0..(m + n)
  <2>1. \A k \in 0..m : k \in 0..(m + n) /\ k <= m
    BY <1>3
  <2>2. \A k \in 1..n : m + k \in 0..(m + n) /\ ~(m + k <= m) /\ (m + k) - m = k
    BY <1>3
  <2>. QED
    BY <2>1, <2>2
<1>8. h \in [0..(m + n) -> 0..(p + q)] /\ h[0] = 0
  <2>1. ASSUME NEW k \in 0..(m + n) PROVE h[k] \in 0..(p + q)
    <3>1. k \in 0..m \/ \E i \in 1..n : k = m + i
      <4>1. CASE k <= m
        BY <1>3, <4>1
      <4>2. CASE k > m
        <5>1. k - m \in 1..n /\ k = m + (k - m)
          BY <1>3, <4>2
        <5>. QED
          BY <5>1
      <4>. QED
        BY <1>3, <4>1, <4>2
    <3>2. CASE k \in 0..m
      <4>1. h[k] \in 0..p
        BY <1>5, <1>7, <3>2
      <4>. HIDE DEF h
      <4>. QED
        BY <1>3, <4>1
    <3>3. ASSUME NEW i \in 1..n, k = m + i PROVE h[k] \in 0..(p + q)
      <4>1. h[k] = p + g[i] /\ g[i] \in 0..q
        BY <1>3, <1>6, <1>7, <3>3
      <4>. HIDE DEF h
      <4>. QED
        BY <1>3, <4>1
    <3>. QED
      BY <3>1, <3>2, <3>3
  <2>2. h[0] = 0
    BY <1>3, <1>5, <1>7
  <2>. QED
    BY <2>1, <2>2
<1>. HIDE DEF h
<1>9. ASSUME NEW k \in 1..(m + n)
      PROVE  /\ h[k - 1] <= h[k]
             /\ s[k] # Warning => h[k - 1] < h[k] /\ t[h[k]] = s[k]
  <2>1. CASE k \in 1..m
    <3>1. h[k] = f[k] /\ h[k - 1] = f[k - 1] /\ s[k] = a[k]
          /\ f[k] \in 0..p /\ f[k - 1] \in 0..p
      BY <1>3, <1>4, <1>5, <1>7, <2>1
    <3>2. f[k - 1] < f[k] => f[k] \in 1..p
      BY <1>3, <3>1
    <3>3. f[k - 1] <= f[k] /\ (a[k] # Warning => f[k - 1] < f[k] /\ b[f[k]] = a[k])
      BY <1>5, <2>1
    <3>4. f[k] \in 1..p => t[f[k]] = b[f[k]]
      BY <1>4
    <3>. QED
      BY <3>1, <3>2, <3>3, <3>4
  <2>2. ASSUME NEW i \in 1..n, k = m + i
        PROVE  /\ h[k - 1] <= h[k]
               /\ s[k] # Warning => h[k - 1] < h[k] /\ t[h[k]] = s[k]
    <3>1. h[k] = p + g[i] /\ s[k] = c[i] /\ g[i] \in 0..q
      BY <1>3, <1>4, <1>6, <1>7, <2>2
    <3>2. g[i - 1] <= g[i] /\ (c[i] # Warning => g[i - 1] < g[i] /\ d[g[i]] = c[i])
      BY <1>6
    <3>3. g[i - 1] \in 0..q
      BY <1>3, <1>6
    <3>4. h[k - 1] <= p + g[i - 1] /\ h[k - 1] \in Nat
      <4>1. CASE i = 1
        <5>1. k - 1 = m /\ m \in 0..m /\ m \in 0..(m + n)
          BY <1>3, <2>2, <4>1
        <5>2. h[k - 1] \in 0..p /\ g[i - 1] = 0
          BY <1>5, <1>6, <1>7, <4>1, <5>1
        <5>. QED
          BY <1>3, <5>2
      <4>2. CASE i # 1
        <5>1. i - 1 \in 1..n /\ k - 1 = m + (i - 1)
          BY <1>3, <2>2, <4>2
        <5>2. h[k - 1] = p + g[i - 1]
          BY <1>7, <5>1
        <5>. QED
          BY <1>3, <3>3, <5>2
      <4>. QED
        BY <4>1, <4>2
    <3>5. ASSUME NEW u \in Nat, NEW w \in 0..q, NEW z \in 0..q, u <= p + w
          PROVE  (w <= z => u <= p + z) /\ (w < z => u < p + z)
      BY <1>3, <3>5
    <3>6. /\ g[i - 1] <= g[i] => h[k - 1] <= p + g[i]
          /\ g[i - 1] < g[i] => h[k - 1] < p + g[i]
      BY <3>1, <3>3, <3>4, <3>5, Zenon
    <3>7. h[k - 1] <= h[k]
      BY <3>1, <3>2, <3>6, Zenon
    <3>8. ASSUME c[i] # Warning PROVE h[k - 1] < h[k] /\ t[h[k]] = c[i]
      <4>1. g[i] \in 1..q /\ d[g[i]] = c[i] /\ g[i - 1] < g[i]
        <5>1. d[g[i]] = c[i] /\ g[i - 1] < g[i]
          BY <3>2, <3>8, Zenon
        <5>2. g[i] \in 1..q
          BY <1>3, <3>1, <3>3, <5>1
        <5>. QED
          BY <5>1, <5>2
      <4>2. t[p + g[i]] = d[g[i]]
        BY <1>4, <4>1
      <4>. QED
        BY <3>1, <3>6, <4>1, <4>2, Zenon
    <3>. QED
      BY <3>1, <3>7, <3>8
  <2>3. k \in 1..m \/ \E i \in 1..n : k = m + i
    <3>1. CASE k <= m
      BY <1>3, <3>1
    <3>2. CASE k > m
      <4>1. k - m \in 1..n /\ k = m + (k - m)
        BY <1>3, <3>2
      <4>. QED
        BY <4>1
    <3>. QED
      BY <1>3, <3>1, <3>2
  <2>. QED
    BY <2>1, <2>2, <2>3
<1>10. Places(h, s, t)
  BY <1>4, <1>8, <1>9 DEF Places
<1>. QED
  BY <1>10 DEF Found, s, t

\* The native summary a checkpoint brings, -1 when it brings none; on a path, that of
\* the newest one.
Brings(e) == IF e.n = 1 THEN e.id ELSE -1
StampOf(path) ==
  LET c == LastOf(path, {"compaction"}) IN IF c = 0 THEN 0 ELSE Brings(path[c])

\* What the path to an entry restores: the messages and the native summary.
View(es, id) == <<Recalled(PathFrom(es, id)), StampOf(PathFrom(es, id))>>
Views == Seq(Message) \X Int

\* What one more entry makes of it.
After(e, v) ==
  IF e.role = "compaction" THEN <<<<Checkpoint>>, Brings(e)>>
  ELSE IF e.role \in MessageRoles THEN <<Append(v[1], MessageOf(e)), v[2]>>
  ELSE v

\* The summary of a path with one more entry.
LEMMA StampLonger ==
  ASSUME NEW path \in Seq(Entries), NEW e \in Entries
  PROVE  StampOf(Append(path, e)) = IF e.role = "compaction" THEN Brings(e) ELSE StampOf(path)
<1>. DEFINE t == Append(path, e)
            R == {"compaction"}
            c == LastOf(path, R)
            d == LastOf(t, R)
<1>1. /\ t[Len(path) + 1] = e /\ Len(path) \in Nat
      /\ \A k \in 1..Len(path) : t[k] = path[k]
  OBVIOUS
<1>2. c \in 0..Len(path)
  BY LastOfIs
<1>3. (e.role = "compaction" => d = Len(path) + 1) /\ (e.role # "compaction" => d = c)
  <2>. HIDE DEF R
  <2>1. /\ e.role \in R => LastOf(Append(path, e), R) = Len(path) + 1
        /\ e.role \notin R => LastOf(Append(path, e), R) = LastOf(path, R)
    BY LastOfAppend
  <2>2. e.role \in R <=> e.role = "compaction"
    BY DEF R
  <2>. QED
    BY <2>1, <2>2
<1>4. /\ StampOf(t) = IF d = 0 THEN 0 ELSE Brings(t[d])
      /\ StampOf(path) = IF c = 0 THEN 0 ELSE Brings(path[c])
  BY Zenon DEF StampOf
<1>. HIDE DEF t, c, d
<1>5. CASE e.role = "compaction"
  <2>1. d = Len(path) + 1 /\ d # 0 /\ t[d] = e
    BY <1>1, <1>3, <1>5
  <2>. QED
    BY <1>4, <1>5, <2>1 DEF t
<1>6. CASE e.role # "compaction"
  <2>1. d = c /\ (c # 0 => t[c] = path[c])
    BY <1>1, <1>2, <1>3, <1>6
  <2>. QED
    BY <1>4, <1>6, <2>1 DEF t
<1>. QED
  BY <1>5, <1>6

\* An entry makes the same of what is restored before it as any with its id, role and
\* number, and a view of a view.
LEMMA AfterIs ==
  /\ \A d, e \in Entries : d.id = e.id /\ d.role = e.role /\ d.n = e.n =>
       \A v : After(d, v) = After(e, v)
  /\ \A e \in Entries : \A v \in Views : After(e, v) \in Views
<1>1. ASSUME NEW d \in Entries, NEW e \in Entries, d.id = e.id, d.role = e.role, d.n = e.n,
             NEW v
      PROVE  After(d, v) = After(e, v)
  BY <1>1, Zenon DEF After, Brings, MessageOf
<1>2. ASSUME NEW e \in Entries, NEW v \in Views PROVE After(e, v) \in Views
  <2>1. v[1] \in Seq(Message) /\ v[2] \in Int
    BY DEF Views
  <2>2. e.id \in Int /\ e.n \in Nat
    BY DEF Entries
  <2>3. CASE e.role = "compaction"
    <3>1. <<Checkpoint>> \in Seq(Message) /\ Brings(e) \in Int
      BY <2>2, KeptMessages DEF Brings
    <3>. QED
      BY <2>3, <3>1 DEF After, Views
  <2>4. CASE e.role # "compaction" /\ e.role \in MessageRoles
    <3>1. MessageOf(e) \in Message
      <4>1. MessageOf(e) \in Kept
        BY <2>2, <2>4 DEF MessageOf, Kept
      <4>. QED
        BY <4>1, KeptMessages
    <3>2. Append(v[1], MessageOf(e)) \in Seq(Message)
      BY <2>1, <3>1
    <3>. QED
      BY <2>1, <2>4, <3>2 DEF After, Views
  <2>5. CASE e.role # "compaction" /\ e.role \notin MessageRoles
    BY <2>5 DEF After
  <2>. QED
    BY <2>3, <2>4, <2>5
<1>. QED
  BY <1>1, <1>2, Zenon

\* An entry restores what it makes of what its parent restores.
LEMMA ViewSteps ==
  ASSUME NEW es \in Seq(Entries), GrowsOn(es, {0})
  PROVE  /\ View(es, 0) = <<<<>>, 0>>
         /\ \A id : View(es, id) \in Views
         /\ \A p \in 1..Len(es) : View(es, es[p].id) = After(es[p], View(es, es[p].parent))
<1>1. /\ PathFrom(es, 0) = <<>>
      /\ \A p \in 1..Len(es) : /\ es[p] \in Entries
           /\ PathFrom(es, es[p].id) = Append(PathFrom(es, es[p].parent), es[p])
  <2>1. /\ PathFrom(es, 0) = <<>>
        /\ \A p \in 1..Len(es) :
             PathFrom(es, es[p].id) = Append(PathFrom(es, es[p].parent), es[p])
    BY Paths, Zenon
  <2>2. \A p \in 1..Len(es) : es[p] \in Entries
    OBVIOUS
  <2>. QED
    BY <2>1, <2>2, Zenon
<1>2. \A id : PathFrom(es, id) \in Seq(Entries)
  BY Paths, PathMembers
<1>3. View(es, 0) = <<<<>>, 0>>
  <2>1. Recalled(<<>>) = <<>>
    <3>1. SubSeq(<<>>, 1, 0) = <<>> /\ Len(<<>>) = 0 /\ <<>> \o <<>> = <<>>
      OBVIOUS
    <3>2. LastOf(<<>>, {"compaction"}) = 0
      BY LastOfNothing
    <3>3. SubSeq(<<>>, LastOf(<<>>, {"compaction"}) + 1, Len(<<>>)) = <<>>
      BY <3>2
    <3>. QED
      BY <3>1, <3>2, <3>3, MessagesOfNothing, Zenon DEF Recalled
  <2>2. StampOf(<<>>) = 0
    BY LastOfNothing DEF StampOf
  <2>. QED
    BY <1>1, <2>1, <2>2, Zenon DEF View
<1>4. ASSUME NEW path \in Seq(Entries)
      PROVE  <<Recalled(path), StampOf(path)>> \in Views
  <2>1. Recalled(path) \in Seq(Message)
    BY RecalledIs
  <2>2. StampOf(path) \in Int
    <3>1. LastOf(path, {"compaction"}) \in 0..Len(path)
      BY LastOfIs
    <3>2. \A k \in 1..Len(path) : Brings(path[k]) \in Int
      <4>1. \A k \in 1..Len(path) : path[k] \in Entries
        OBVIOUS
      <4>. QED
        BY <4>1 DEF Brings, Entries
    <3>. QED
      BY <3>1, <3>2 DEF StampOf
  <2>. QED
    BY <2>1, <2>2 DEF Views
<1>5. ASSUME NEW p \in 1..Len(es)
      PROVE  View(es, es[p].id) = After(es[p], View(es, es[p].parent))
  <2>. DEFINE e == es[p]
              s == PathFrom(es, e.parent)
  <2>1. e \in Entries /\ s \in Seq(Entries) /\ PathFrom(es, e.id) = Append(s, e)
    BY <1>1, <1>2
  <2>. HIDE DEF e, s
  <2>2. /\ e.role = "compaction" => Recalled(Append(s, e)) = <<Checkpoint>>
        /\ e.role \in MessageRoles =>
              Recalled(Append(s, e)) = Append(Recalled(s), MessageOf(e))
        /\ e.role \in Remarks => Recalled(Append(s, e)) = Recalled(s)
    BY <2>1, RecalledLonger, Zenon
  <2>3. StampOf(Append(s, e)) = IF e.role = "compaction" THEN Brings(e) ELSE StampOf(s)
    BY <2>1, StampLonger
  <2>4. /\ e.role = "compaction" \/ e.role \in MessageRoles \/ e.role \in Remarks
        /\ e.role \in MessageRoles => e.role # "compaction" /\ e.role \notin Remarks
        /\ e.role \in Remarks => e.role # "compaction" /\ e.role \notin MessageRoles
    BY <2>1 DEF Entries, EntryRoles, Remarks, MessageRoles
  <2>5. View(es, e.id) = <<Recalled(Append(s, e)), StampOf(Append(s, e))>>
        /\ View(es, e.parent) = <<Recalled(s), StampOf(s)>>
    BY <2>1, Zenon DEF View, s
  <2>6. CASE e.role = "compaction"
    BY <2>2, <2>3, <2>5, <2>6 DEF After, e
  <2>7. CASE e.role \in MessageRoles
    <3>. DEFINE v == View(es, e.parent)
    <3>1. v[1] = Recalled(s) /\ v[2] = StampOf(s)
      BY <2>5
    <3>. HIDE DEF v
    <3>2. After(e, v) = <<Append(v[1], MessageOf(e)), v[2]>>
      BY <2>4, <2>7 DEF After
    <3>3. View(es, e.id) = <<Append(Recalled(s), MessageOf(e)), StampOf(s)>>
      BY <2>2, <2>3, <2>4, <2>5, <2>7
    <3>4. View(es, e.id) = After(e, v)
      BY <3>1, <3>2, <3>3
    <3>. QED
      BY <3>4 DEF e, v
  <2>8. CASE e.role \in Remarks
    BY <2>2, <2>3, <2>4, <2>5, <2>8 DEF After, e
  <2>. QED
    BY <2>4, <2>6, <2>7, <2>8 DEF e
<1>. QED
  BY <1>2, <1>3, <1>4, <1>5 DEF View

\* The same is restored at an entry of one log and at an entry of another.
SameView(a, x, b, y) == View(a, x) = View(b, y)

\* An entry that is in another log too, under the same parent, restores the same.
LEMMA ViewThreads ==
  ASSUME NEW a \in Seq(Entries), GrowsOn(a, {0}), NEW b \in Seq(Entries), GrowsOn(b, {0}),
         Threads(a, b, {})
  PROVE  \A id \in {0} \cup IdsOf(a) : SameView(b, id, a, id)
<1>. DEFINE G == {id \in {0} \cup IdsOf(a) : View(a, id) = View(b, id)}
<1>1. /\ View(a, 0) = View(b, 0)
      /\ \A p \in 1..Len(a) : View(a, a[p].id) = After(a[p], View(a, a[p].parent))
      /\ \A p \in 1..Len(b) : View(b, b[p].id) = After(b[p], View(b, b[p].parent))
  BY ViewSteps
<1>2. 0 \in G
  BY <1>1
<1>3. ASSUME NEW p \in 1..Len(a), a[p].parent \in G PROVE a[p].id \in G
  <2>1. PICK q \in 1..Len(b) : /\ b[q].id = a[p].id /\ b[q].role = a[p].role
                               /\ b[q].n = a[p].n /\ b[q].parent = a[p].parent
    BY DEF Threads
  <2>2. a[p] \in Entries /\ b[q] \in Entries /\ a[p].id \in IdsOf(a)
    BY EntryFields
  <2>3. \A v : After(a[p], v) = After(b[q], v)
    BY <2>1, <2>2, AfterIs, Zenon
  <2>4. View(a, a[p].parent) = View(b, b[q].parent)
    BY <1>3, <2>1
  <2>5. View(a, a[p].id) = After(a[p], View(a, a[p].parent))
        /\ View(b, b[q].id) = After(b[q], View(b, b[q].parent))
    BY <1>1
  <2>6. View(a, a[p].id) = View(b, a[p].id)
    BY <2>1, <2>3, <2>4, <2>5, Zenon
  <2>. QED
    BY <2>2, <2>6, Zenon
<1>4. {0} \cup IdsOf(a) \subseteq G
  <2>. HIDE DEF G
  <2>. QED
    BY <1>2, <1>3, TreeInduction
<1>. QED
  BY <1>4 DEF SameView

\* Every entry hangs from the one before it.
Linked(s) == \A i \in 1..Len(s) : i # 1 => s[i].parent = s[i - 1].id

\* The members of s are entries of es.
Holds(es, s) == \A i \in 1..Len(s) : \E p \in 1..Len(es) : es[p] = s[i]

\* The messages of a linked part of a log are restored after what is restored where it
\* hangs.
LEMMA LinkedView ==
  ASSUME NEW es \in Seq(Entries), GrowsOn(es, {0}), NEW s \in Seq(Entries), Linked(s),
         s # <<>>, Holds(es, s),
         NEW ms \in Seq(Kept), Len(ms) = Len(s),
         \A i \in 1..Len(s) : s[i].role \in MessageRoles /\ MessageOf(s[i]) = ms[i],
         NEW v, v = View(es, s[1].parent)
  PROVE  View(es, s[Len(s)].id) = <<v[1] \o ms, v[2]>>
<1>. DEFINE n == Len(s)
            from == [k \in 1..n |-> s[k].parent]
            Is(k) == View(es, s[k].id) = <<v[1] \o SubSeq(ms, 1, k), v[2]>>
            G == {k \in 0..n : k = 0 \/ Is(k)}
<1>1. /\ n \in Nat /\ n # 0 /\ n \in 1..n /\ \A k \in 1..n : s[k] \in Entries
  <2>1. n # 0
    BY EmptySeq
  <2>. QED
    BY <2>1
<1>2. v \in Views /\ v[1] \in Seq(Message) /\ v[2] \in Int
  <2>1. v \in Views
    BY ViewSteps
  <2>. QED
    BY <2>1 DEF Views
<1>3. ms \in Seq(Message)
  BY KeptMessages
<1>4. \A k \in 1..n : View(es, s[k].id) = After(s[k], View(es, s[k].parent))
  BY ViewSteps DEF Holds
<1>5. ASSUME NEW k \in 1..n, NEW w \in Views
      PROVE  After(s[k], w) = <<Append(w[1], ms[k]), w[2]>>
  <2>1. s[k].role \in MessageRoles /\ MessageOf(s[k]) = ms[k]
    OBVIOUS
  <2>2. s[k].role # "compaction"
    BY <2>1 DEF MessageRoles
  <2>. QED
    BY <2>1, <2>2, Zenon DEF After
<1>6. /\ SubSeq(ms, 1, 1) = <<ms[1]>>
      /\ \A k \in 1..n : k # 1 => SubSeq(ms, 1, k) = Append(SubSeq(ms, 1, k - 1), ms[k])
      /\ \A k \in 1..n : SubSeq(ms, 1, k) \in Seq(Message) /\ ms[k] \in Message
      /\ SubSeq(ms, 1, n) = ms
  <2>1. SubSeq(ms, 1, 1) = <<ms[1]>>
    <3>1. Len(ms) \in Nat /\ Len(ms) # 0 /\ 1 \in 1..Len(ms)
      BY <1>1
    <3>2. /\ SubSeq(ms, 1, 1) \in Seq(Message) /\ Len(SubSeq(ms, 1, 1)) = 1
          /\ SubSeq(ms, 1, 1)[1] = ms[1]
      BY <1>3, <3>1
    <3>3. <<ms[1]>> \in Seq(Message) /\ Len(<<ms[1]>>) = 1 /\ <<ms[1]>>[1] = ms[1]
      BY <1>3, <3>1
    <3>4. \A k \in 1..1 : k = 1
      OBVIOUS
    <3>. QED
      BY <3>2, <3>3, <3>4, SeqEqual
  <2>2. ASSUME NEW k \in 1..n, k # 1
        PROVE  SubSeq(ms, 1, k) = Append(SubSeq(ms, 1, k - 1), ms[k])
    BY <1>1, <1>3, <2>2
  <2>3. \A k \in 1..n : SubSeq(ms, 1, k) \in Seq(Message) /\ ms[k] \in Message
    BY <1>1, <1>3
  <2>4. SubSeq(ms, 1, n) = ms
    BY <1>1, <1>3
  <2>. QED
    BY <2>1, <2>2, <2>3, <2>4
<1>. HIDE DEF n
<1>7. 0 \in G
  BY <1>1
<1>8. ASSUME NEW k \in 1..n, \A m \in 0..(k - 1) : m \in G PROVE k \in G
  <2>1. CASE k = 1
    <3>1. View(es, s[k].id) = <<Append(v[1], ms[k]), v[2]>>
      BY <1>2, <1>4, <1>5, <2>1
    <3>2. Append(v[1], ms[k]) = v[1] \o SubSeq(ms, 1, k)
      <4>1. \A x \in Seq(Message) : \A m \in Message : Append(x, m) = x \o <<m>>
        OBVIOUS
      <4>. QED
        BY <1>2, <1>6, <2>1, <4>1
    <3>3. Is(k)
      BY <3>1, <3>2, Zenon
    <3>4. k \in 0..n
      BY <1>1
    <3>. QED
      BY <3>3, <3>4, Zenon
  <2>2. CASE k # 1
    <3>1. k - 1 \in 0..(k - 1) /\ k - 1 # 0 /\ k - 1 \in 1..n
      BY <1>1, <2>2
    <3>2. Is(k - 1)
      BY <1>8, <3>1
    <3>3. s[k].parent = s[k - 1].id
      BY <2>2 DEF Linked, n
    <3>. DEFINE x == SubSeq(ms, 1, k - 1)
                w == <<v[1] \o x, v[2]>>
    <3>4. x \in Seq(Message) /\ ms[k] \in Message /\ SubSeq(ms, 1, k) = Append(x, ms[k])
      BY <1>6, <2>2, <3>1
    <3>. HIDE DEF x
    <3>5. w \in Views /\ w[1] = v[1] \o x /\ w[2] = v[2]
      <4>1. w[1] = v[1] \o x /\ w[2] = v[2]
        OBVIOUS
      <4>2. v[1] \o x \in Seq(Message)
        BY <1>2, <3>4
      <4>3. \A y \in Seq(Message), z \in Int : <<y, z>> \in Views
        BY DEF Views
      <4>4. w \in Views
        BY <1>2, <4>2, <4>3
      <4>. QED
        BY <4>1, <4>4
    <3>6. View(es, s[k].parent) = w
      BY <3>2, <3>3 DEF x
    <3>. HIDE DEF w
    <3>7. View(es, s[k].id) = <<Append(v[1] \o x, ms[k]), v[2]>>
      BY <1>4, <1>5, <3>5, <3>6
    <3>8. Append(v[1] \o x, ms[k]) = v[1] \o SubSeq(ms, 1, k)
      <4>1. v[1] \o Append(x, ms[k]) = Append(v[1] \o x, ms[k])
        BY <1>2, <3>4, ConcatAppend
      <4>. QED
        BY <3>4, <4>1
    <3>9. Is(k)
      BY <3>7, <3>8, Zenon
    <3>10. k \in 0..n
      BY <1>1
    <3>. QED
      BY <3>9, <3>10, Zenon
  <2>. QED
    BY <2>1, <2>2
<1>9. \A k \in 0..n : k \in G
  <2>. HIDE DEF G
  <2>. QED
    BY <1>1, <1>7, <1>8, UpToInduction, Zenon
<1>10. n \in 0..n
  BY <1>1
<1>11. Is(n)
  BY <1>1, <1>9, <1>10
<1>. QED
  BY <1>6, <1>11 DEF n

\* The context begins with a checkpoint,
Headed(m) == Len(m) # 0 /\ m[1] = Checkpoint

\* ... and with it go on what hangs from there, whatever it is.
LEMMA HeadedView ==
  ASSUME NEW es \in Seq(Entries), GrowsOn(es, {0}), NEW s \in Seq(Entries), Linked(s),
         s # <<>>, Holds(es, s), Headed(View(es, s[1].parent)[1])
  PROVE  Headed(View(es, s[Len(s)].id)[1])
<1>. DEFINE n == Len(s)
            G == {k \in 0..n : k = 0 \/ Headed(View(es, s[k].id)[1])}
<1>1. /\ n \in Nat /\ n # 0 /\ n \in 0..n /\ \A k \in 1..n : s[k] \in Entries
  <2>1. n # 0
    BY EmptySeq
  <2>. QED
    BY <2>1
<1>2. /\ \A id : View(es, id) \in Views
      /\ \A k \in 1..n : View(es, s[k].id) = After(s[k], View(es, s[k].parent))
  BY ViewSteps DEF Holds
<1>3. ASSUME NEW e \in Entries, NEW v \in Views, Headed(v[1]) PROVE Headed(After(e, v)[1])
  <2>1. v[1] \in Seq(Message)
    BY DEF Views
  <2>2. CASE e.role = "compaction"
    <3>1. After(e, v)[1] = <<Checkpoint>>
      BY <2>2 DEF After
    <3>. QED
      BY <3>1 DEF Headed
  <2>3. CASE e.role # "compaction" /\ e.role \in MessageRoles
    <3>1. After(e, v)[1] = Append(v[1], MessageOf(e))
      BY <2>3 DEF After
    <3>2. \A m : Headed(Append(v[1], m))
      BY <1>3, <2>1 DEF Headed
    <3>. QED
      BY <3>1, <3>2
  <2>4. CASE e.role # "compaction" /\ e.role \notin MessageRoles
    BY <1>3, <2>4 DEF After
  <2>. QED
    BY <2>2, <2>3, <2>4
<1>. HIDE DEF n
<1>4. 0 \in G
  BY <1>1
<1>5. ASSUME NEW k \in 1..n, \A m \in 0..(k - 1) : m \in G PROVE k \in G
  <2>1. Headed(View(es, s[k].parent)[1])
    <3>1. CASE k = 1
      BY <3>1
    <3>2. CASE k # 1
      <4>1. k - 1 \in 0..(k - 1) /\ k - 1 # 0
        BY <1>1, <3>2
      <4>2. s[k].parent = s[k - 1].id
        BY <3>2 DEF Linked, n
      <4>. QED
        BY <1>5, <4>1, <4>2
    <3>. QED
      BY <3>1, <3>2
  <2>2. Headed(View(es, s[k].id)[1])
    BY <1>1, <1>2, <1>3, <2>1
  <2>. QED
    BY <1>1, <2>2
<1>6. \A k \in 0..n : k \in G
  <2>. HIDE DEF G
  <2>. QED
    BY <1>1, <1>4, <1>5, UpToInduction, Zenon
<1>. QED
  BY <1>1, <1>6 DEF n

\* A conversation that is a summary is found where a checkpoint is first.
LEMMA HeadedFound ==
  ASSUME NEW m \in Seq(Message), Headed(m) PROVE Found(<<Summary>>, m)
<1>1. Len(m) \in Nat /\ Len(m) # 0 /\ m[1] = Summary
  BY DEF Headed, Checkpoint, Summary
<1>2. Places([k \in 0..1 |-> k], <<Summary>>, m)
  BY <1>1 DEF Places
<1>. QED
  BY <1>2 DEF Found

\* What a resume restores, and what it will restore of the entry the next one hangs
\* from, once that is committed.
Restored(j) == View(j.entries, LeafId(j.entries))
Upcoming(j) == View(All(j), j.leaf)

\* The staged entries hang from each other; when there are none, the next entry goes on
\* from what a resume restores.
Straight(j) == Linked(j.staged) /\ (j.staged = <<>> => Upcoming(j) = Restored(j))

\* The messages follow what is restored before them.
Further(v, ms) == <<v[1] \o ms, v[2]>>

\* k is journal j with these messages staged.
GoesOn(j, ms, k) ==
  /\ Restored(k) = Restored(j) /\ Upcoming(k) = Further(Upcoming(j), ms)
  /\ Straight(j) => Straight(k)

\* What is restored, is messages and a number.
LEMMA RestoredTyped ==
  ASSUME NEW j, JournalOK(j)
  PROVE  Restored(j) \in Views /\ Upcoming(j) \in Views
<1>1. j.entries \in Seq(Entries) /\ GrowsOn(j.entries, {0})
  BY JournalParts, Zenon
<1>2. All(j) \in Seq(Entries) /\ GrowsOn(All(j), {0})
  BY AllIs, Zenon
<1>. QED
  BY <1>1, <1>2, ViewSteps, Zenon DEF Restored, Upcoming

\* A chain is linked, and its entries hold its messages.
LEMMA ChainLinked ==
  ASSUME NEW ms \in Seq(Kept), NEW parent \in Nat, NEW next \in Nat \ {0},
         NEW c, c = Chain(ms, parent, next)
  PROVE  /\ c \in Seq(Entries) /\ Len(c) = Len(ms) /\ Linked(c)
         /\ \A i \in 1..Len(c) : c[i].role \in MessageRoles /\ MessageOf(c[i]) = ms[i]
         /\ ms # <<>> => c # <<>> /\ c[1].parent = parent
                         /\ c[Len(c)].id = next + Len(ms) - 1
<1>1. /\ c \in Seq(Entries) /\ Len(c) = Len(ms)
      /\ \A p \in 1..Len(ms) : /\ c[p].id = next + p - 1
                               /\ c[p].parent = IF p = 1 THEN parent ELSE next + p - 2
  <2>1. /\ Chain(ms, parent, next) \in Seq(Entries)
        /\ Len(Chain(ms, parent, next)) = Len(ms)
        /\ \A p \in 1..Len(ms) :
             /\ Chain(ms, parent, next)[p].id = next + p - 1
             /\ Chain(ms, parent, next)[p].parent = IF p = 1 THEN parent ELSE next + p - 2
    BY ChainIs
  <2>. QED
    BY <2>1, Zenon
<1>2. \A p \in 1..Len(ms) : c[p].role = ms[p].role /\ c[p].n = ms[p].n
  BY ChainMessages
<1>3. Len(ms) \in Nat /\ \A p \in 1..Len(ms) : ms[p] \in Kept
  OBVIOUS
<1>4. Linked(c)
  <2>1. ASSUME NEW i \in 1..Len(ms), i # 1 PROVE c[i].parent = c[i - 1].id
    <3>1. i - 1 \in 1..Len(ms) /\ next + (i - 1) - 1 = next + i - 2
      BY <1>3, <2>1
    <3>. QED
      BY <1>1, <2>1, <3>1
  <2>. QED
    BY <1>1, <2>1 DEF Linked
<1>5. ASSUME NEW i \in 1..Len(ms)
      PROVE  c[i].role \in MessageRoles /\ MessageOf(c[i]) = ms[i]
  <2>1. ms[i] \in Kept /\ c[i].role = ms[i].role /\ c[i].n = ms[i].n
    BY <1>2, <1>3
  <2>. QED
    BY <2>1 DEF Kept, MessageOf
<1>6. ASSUME ms # <<>>
      PROVE  c # <<>> /\ c[1].parent = parent /\ c[Len(c)].id = next + Len(ms) - 1
  <2>1. Len(ms) # 0 /\ 1 \in 1..Len(ms) /\ Len(ms) \in 1..Len(ms)
    BY <1>3, <1>6, SomeKept
  <2>. QED
    BY <1>1, <2>1
<1>. QED
  BY <1>1, <1>4, <1>5, <1>6

\* Two linked parts of a log, the second hanging from the end of the first.
LEMMA LinkedConcat ==
  ASSUME NEW s \in Seq(Entries), NEW t \in Seq(Entries), Linked(s), Linked(t),
         s # <<>> /\ t # <<>> => t[1].parent = s[Len(s)].id
  PROVE  Linked(s \o t)
<1>1. /\ Len(s \o t) = Len(s) + Len(t) /\ Len(s) \in Nat /\ Len(t) \in Nat
      /\ \A p \in 1..Len(s) : (s \o t)[p] = s[p]
      /\ \A p \in 1..Len(t) : (s \o t)[Len(s) + p] = t[p]
  BY IdsOfConcat
<1>. DEFINE b == s \o t
            m == Len(s)
            n == Len(t)
<1>. HIDE DEF b, m, n
<1>2. ASSUME NEW i \in 1..(m + n), i # 1 PROVE b[i].parent = b[i - 1].id
  <2>1. CASE i <= m
    <3>1. i \in 1..m /\ i - 1 \in 1..m
      BY <1>1, <1>2, <2>1 DEF m, n
    <3>. QED
      BY <1>1, <1>2, <3>1 DEF Linked, b, m
  <2>2. CASE i > m
    <3>. DEFINE k == i - m
    <3>1. k \in 1..n /\ i = m + k
      BY <1>1, <2>2 DEF m, n
    <3>2. b[i] = t[k]
      BY <1>1, <3>1 DEF b, m, n
    <3>3. CASE k = 1
      <4>1. i - 1 = m /\ m \in 1..m /\ s # <<>> /\ t # <<>>
        BY <1>1, <1>2, <3>1, <3>3 DEF m, n
      <4>2. b[i - 1] = s[m]
        BY <1>1, <4>1 DEF b, m
      <4>. QED
        BY <3>2, <3>3, <4>1, <4>2 DEF m
    <3>4. CASE k # 1
      <4>1. k - 1 \in 1..n /\ i - 1 = m + (k - 1)
        BY <1>1, <3>1, <3>4 DEF m, n
      <4>2. b[i - 1] = t[k - 1]
        BY <1>1, <4>1 DEF b, m, n
      <4>. QED
        BY <3>1, <3>2, <3>4, <4>2 DEF Linked, n
    <3>. QED
      BY <3>3, <3>4
  <2>. QED
    BY <1>1, <2>1, <2>2 DEF m, n
<1>. QED
  BY <1>1, <1>2 DEF Linked, b, m, n

\* Messages that are staged follow what is restored before them.
LEMMA StageGoesOn ==
  ASSUME NEW j, JournalOK(j), NEW ms \in Seq(Kept)
  PROVE  GoesOn(j, ms, Stage(j, ms))
<1>. DEFINE k == Stage(j, ms)
            c == Chain(ms, j.leaf, j.nextId)
            a == All(j)
            b == All(k)
<1>1. /\ JournalOK(k) /\ k.entries = j.entries /\ b = a \o c
      /\ k.staged = j.staged \o c
      /\ ms = <<>> => k.leaf = j.leaf /\ b = a /\ k.staged = j.staged
      /\ ms # <<>> => k.leaf = j.nextId + Len(ms) - 1
  BY StagedAll
<1>2. a \in Seq(Entries) /\ GrowsOn(a, {0}) /\ j.leaf \in {0} \cup IdsOf(a)
  BY AllIs, Zenon
<1>3. b \in Seq(Entries) /\ GrowsOn(b, {0})
  BY <1>1, AllIs, Zenon
<1>4. /\ j.leaf \in Nat /\ j.nextId \in Nat \ {0} /\ j.staged \in Seq(Entries)
      /\ j.staged # <<>> => j.leaf = LeafId(j.staged)
  BY JournalParts, Zenon
<1>5. /\ c \in Seq(Entries) /\ Len(c) = Len(ms) /\ Linked(c)
      /\ \A i \in 1..Len(c) : c[i].role \in MessageRoles /\ MessageOf(c[i]) = ms[i]
      /\ ms # <<>> => c # <<>> /\ c[1].parent = j.leaf
                      /\ c[Len(c)].id = j.nextId + Len(ms) - 1
  <2>. DEFINE parent == j.leaf
              next == j.nextId
  <2>1. parent \in Nat /\ next \in Nat \ {0} /\ c = Chain(ms, parent, next)
    BY <1>4
  <2>. HIDE DEF c, parent, next
  <2>2. /\ c \in Seq(Entries) /\ Len(c) = Len(ms) /\ Linked(c)
        /\ \A i \in 1..Len(c) : c[i].role \in MessageRoles /\ MessageOf(c[i]) = ms[i]
        /\ ms # <<>> => c # <<>> /\ c[1].parent = parent
                        /\ c[Len(c)].id = next + Len(ms) - 1
    BY <2>1, ChainLinked
  <2>. QED
    BY <2>2 DEF parent, next
<1>. HIDE DEF k, c, a, b
<1>6. Restored(k) = Restored(j)
  BY <1>1 DEF Restored
<1>7. Upcoming(j) = View(a, j.leaf) /\ Upcoming(k) = View(b, k.leaf)
  BY Zenon DEF Upcoming, a, b
<1>8. Upcoming(k) = Further(Upcoming(j), ms)
  <2>1. CASE ms = <<>>
    <3>1. Upcoming(j) \in Views
      BY RestoredTyped
    <3>. DEFINE v == Upcoming(j)
    <3>. HIDE DEF v
    <3>2. v \in Views => v = <<v[1] \o <<>>, v[2]>>
      BY DEF Views
    <3>3. Upcoming(k) = v
      BY <1>1, <1>7, <2>1 DEF v
    <3>. QED
      BY <2>1, <3>1, <3>2, <3>3 DEF Further, v
  <2>2. CASE ms # <<>>
    <3>1. SameView(b, j.leaf, a, j.leaf)
      <4>1. Begins(a, b)
        BY <1>1, <1>2, <1>5, ConcatBegins
      <4>2. Threads(a, b, {})
        BY <1>2, <1>3, <4>1, BeginsThreads
      <4>. QED
        BY <1>2, <1>3, <4>2, ViewThreads
    <3>2. Holds(b, c)
      <4>1. \A i \in 1..Len(c) : Len(a) + i \in 1..Len(b) /\ b[Len(a) + i] = c[i]
        BY <1>1, <1>2, <1>5
      <4>. QED
        BY <4>1 DEF Holds
    <3>. DEFINE v == View(b, c[1].parent)
    <3>3. View(b, c[Len(c)].id) = <<v[1] \o ms, v[2]>>
      <4>. HIDE DEF v
      <4>1. v = View(b, c[1].parent) /\ Len(ms) = Len(c)
        BY <1>5 DEF v
      <4>. QED
        <5>1. /\ b \in Seq(Entries) /\ GrowsOn(b, {0})
              /\ c \in Seq(Entries) /\ Linked(c) /\ c # <<>> /\ Len(ms) = Len(c)
          BY <1>3, <1>5, <2>2, <4>1, Zenon
        <5>2. \A i \in 1..Len(c) : c[i].role \in MessageRoles /\ MessageOf(c[i]) = ms[i]
          BY <1>5, Zenon
        <5>. QED
          BY <3>2, <4>1, <5>1, <5>2, LinkedView, Zenon
    <3>4. v = Upcoming(j)
      BY <1>5, <1>7, <2>2, <3>1 DEF SameView
    <3>5. View(b, c[Len(c)].id) = Upcoming(k)
      BY <1>1, <1>5, <1>7, <2>2
    <3>. HIDE DEF v
    <3>. QED
      BY <3>3, <3>4, <3>5 DEF Further
  <2>. QED
    BY <2>1, <2>2
<1>9. ASSUME Straight(j) PROVE Straight(k)
  <2>1. CASE ms = <<>>
    BY <1>1, <1>6, <1>7, <1>9, <2>1 DEF Straight
  <2>2. CASE ms # <<>>
    <3>1. k.staged # <<>>
      BY <1>1, <1>4, <1>5, <2>2
    <3>2. j.staged # <<>> => j.leaf = j.staged[Len(j.staged)].id
      BY <1>4, LeafIdIs
    <3>3. Linked(j.staged)
      BY <1>9 DEF Straight
    <3>4. Linked(j.staged \o c)
      <4>1. j.staged # <<>> /\ c # <<>> => c[1].parent = j.staged[Len(j.staged)].id
        BY <1>5, <2>2, <3>2
      <4>. QED
        BY <1>4, <1>5, <3>3, <4>1, LinkedConcat
    <3>. QED
      BY <1>1, <3>1, <3>4 DEF Straight
  <2>. QED
    BY <2>1, <2>2
<1>. QED
  BY <1>6, <1>8, <1>9, Zenon DEF GoesOn, k

\* k is journal j with all that is staged committed.
Settles(j, k) ==
  /\ Upcoming(k) = Upcoming(j) /\ Restored(k) = Upcoming(j) /\ Straight(k)
  /\ k.staged = <<>> /\ JournalOK(k)

\* A flush makes what was upcoming what a resume restores.
LEMMA FlushSettles ==
  ASSUME NEW j, JournalOK(j), Straight(j) PROVE Settles(j, Flush(j))
<1>. DEFINE k == Flush(j)
<1>1. /\ JournalOK(k) /\ k.entries = All(j) /\ k.staged = <<>> /\ All(k) = All(j)
      /\ k.leaf = j.leaf
      /\ LeafId(All(j)) = IF j.staged = <<>> THEN LeafId(j.entries) ELSE j.leaf
  BY FlushedAll
<1>2. j.staged = <<>> => All(j) = j.entries
  <2>1. j.entries \in Seq(Entries)
    BY JournalParts, Zenon
  <2>. QED
    BY <2>1 DEF All
<1>. HIDE DEF k
<1>3. Upcoming(k) = Upcoming(j)
  BY <1>1 DEF Upcoming
<1>4. Restored(k) = Upcoming(j)
  <2>1. CASE j.staged = <<>>
    <3>1. Restored(k) = Restored(j)
      BY <1>1, <1>2, <2>1 DEF Restored
    <3>. QED
      BY <2>1, <3>1 DEF Straight
  <2>2. CASE j.staged # <<>>
    BY <1>1, <2>2 DEF Restored, Upcoming
  <2>. QED
    BY <2>1, <2>2
<1>5. Straight(k)
  <2>1. Linked(<<>>)
    BY DEF Linked
  <2>. QED
    BY <1>1, <1>3, <1>4, <2>1 DEF Straight
<1>. QED
  BY <1>1, <1>3, <1>4, <1>5 DEF Settles, k

\* k is journal j with an entry committed that makes after of what is restored.
Gets(j, k, after) ==
  /\ Restored(k) = after /\ Upcoming(k) = Upcoming(j) /\ k.staged = j.staged
  /\ JournalOK(k)

\* A setting or an error changes nothing of it; a compaction leaves its checkpoint.
LEMMA AppendGets ==
  ASSUME NEW j, JournalOK(j), NEW role \in EntryRoles, NEW n \in Nat
  PROVE  /\ role \in Remarks => Gets(j, AppendCommitted(j, role, n), Restored(j))
         /\ role = "compaction" =>
              Gets(j, AppendCommitted(j, role, n),
                   <<<<Checkpoint>>, IF n = 1 THEN j.nextId ELSE -1>>)
<1>. DEFINE k == AppendCommitted(j, role, n)
            e == [id |-> j.nextId, parent |-> LeafId(j.entries), role |-> role, n |-> n]
            a == j.entries
            b == a \o <<e>>
<1>1. /\ JournalOK(k) /\ e \in Entries /\ k.entries = b /\ k.leaf = j.leaf
      /\ k.staged = j.staged /\ \A T : Threads(All(j), All(k), T)
  BY AppendedAll, Zenon
<1>2. a \in Seq(Entries) /\ GrowsOn(a, {0})
  BY JournalParts, Zenon
<1>3. LeafId(a) \in {0} \cup IdsOf(a)
  BY <1>2, LeafIdIs, Zenon
<1>4. b \in Seq(Entries) /\ GrowsOn(b, {0})
  BY <1>1, JournalParts, Zenon
<1>5. /\ All(j) \in Seq(Entries) /\ GrowsOn(All(j), {0}) /\ j.leaf \in {0} \cup IdsOf(All(j))
  BY AllIs, Zenon
<1>6. /\ All(k) \in Seq(Entries) /\ GrowsOn(All(k), {0})
  BY <1>1, AllIs, Zenon
<1>7. e.parent = LeafId(a) /\ e.role = role /\ e.n = n /\ e.id = j.nextId
  OBVIOUS
<1>. HIDE DEF k, e
<1>8. b = a \o <<e>>
  OBVIOUS
<1>9. <<e>> \in Seq(Entries)
  BY <1>1
<1>. HIDE DEF a, b
<1>10. SameView(b, LeafId(a), a, LeafId(a))
  <2>1. Begins(a, b)
    BY <1>2, <1>8, <1>9, ConcatBegins
  <2>2. Threads(a, b, {})
    BY <1>2, <1>4, <2>1, BeginsThreads
  <2>. QED
    BY <1>2, <1>3, <1>4, <2>2, ViewThreads
<1>11. Upcoming(k) = Upcoming(j)
  <2>1. Threads(All(j), All(k), {})
    BY <1>1
  <2>2. SameView(All(k), j.leaf, All(j), j.leaf)
    BY <1>5, <1>6, <2>1, ViewThreads
  <2>. QED
    BY <1>1, <2>2 DEF Upcoming, SameView
<1>12. Restored(k) = After(e, Restored(j))
  <2>1. /\ Len(b) \in 1..Len(b) /\ b[Len(b)] = e /\ b # <<>>
    BY <1>2, <1>8, <1>9
  <2>2. LeafId(b) = e.id
    BY <2>1 DEF LeafId
  <2>3. View(b, b[Len(b)].id) = After(b[Len(b)], View(b, b[Len(b)].parent))
    BY <1>4, <2>1, ViewSteps
  <2>4. View(b, LeafId(b)) = After(e, View(b, LeafId(a)))
    BY <1>7, <2>1, <2>2, <2>3
  <2>5. Restored(k) = View(b, LeafId(b)) /\ Restored(j) = View(a, LeafId(a))
    BY <1>1 DEF Restored, a
  <2>6. View(b, LeafId(a)) = View(a, LeafId(a))
    BY <1>10 DEF SameView
  <2>. QED
    BY <2>4, <2>5, <2>6, Zenon
<1>13. ASSUME role \in Remarks PROVE Gets(j, k, Restored(j))
  <2>1. e.role # "compaction" /\ e.role \notin MessageRoles
    BY <1>7, <1>13 DEF Remarks, MessageRoles
  <2>2. After(e, Restored(j)) = Restored(j)
    BY <2>1 DEF After
  <2>. QED
    BY <1>1, <1>11, <1>12, <2>2 DEF Gets
<1>14. ASSUME role = "compaction"
       PROVE  Gets(j, k, <<<<Checkpoint>>, IF n = 1 THEN j.nextId ELSE -1>>)
  <2>1. After(e, Restored(j)) = <<<<Checkpoint>>, Brings(e)>>
    BY <1>7, <1>14, Zenon DEF After
  <2>2. Brings(e) = IF n = 1 THEN j.nextId ELSE -1
    BY <1>7 DEF Brings
  <2>. QED
    BY <1>1, <1>11, <1>12, <2>1, <2>2 DEF Gets
<1>. QED
  BY <1>13, <1>14 DEF k

\* The messages of these entries, when they are messages all.
AllMessages(s) == \A i \in 1..Len(s) : s[i].role \in MessageRoles
MessagesIn(s) == [i \in 1..Len(s) |-> MessageOf(s[i])]

\* k is journal j with a checkpoint put before what is staged.
Shortened(j, k, stamp) ==
  /\ JournalOK(k) /\ Straight(k) /\ Restored(k) = Restored(j)
  /\ Headed(Upcoming(k)[1])
  /\ AllMessages(j.staged) => Upcoming(k) = <<<<Checkpoint>> \o MessagesIn(j.staged), stamp>>

\* A staged compaction leaves its checkpoint and what is staged already.
LEMMA CompactionShortens ==
  ASSUME NEW j, JournalOK(j), Straight(j), NEW native \in Nat
  PROVE  Shortened(j, StageCompaction(j, native), IF native = 1 THEN j.nextId ELSE -1)
<1>. DEFINE k == StageCompaction(j, native)
            base == IF j.staged = <<>> THEN j.leaf ELSE j.staged[1].parent
            e == CompactionEntry(j.nextId, base, native)
            r == Rehung(j.staged, j.nextId)
            b == All(k)
            stamp == IF native = 1 THEN j.nextId ELSE -1
            n == Len(j.staged)
            s == j.entries
            c == <<e>> \o r
<1>1. /\ JournalOK(k) /\ e \in Entries /\ k.entries = s
      /\ r \in Seq(Entries) /\ Len(r) = n
      /\ k.staged = c /\ b = s \o c
      /\ \A i \in 1..n : /\ r[i].id = j.staged[i].id /\ r[i].role = j.staged[i].role
                         /\ r[i].n = j.staged[i].n
                         /\ r[i].parent = IF i = 1 THEN j.nextId ELSE j.staged[i].parent
      /\ k.leaf = IF j.staged = <<>> THEN j.nextId ELSE j.leaf
  BY CompactedAll
<1>2. /\ j.staged \in Seq(Entries) /\ s \in Seq(Entries)
      /\ j.staged # <<>> => j.leaf = LeafId(j.staged)
  BY JournalParts, Zenon
<1>3. b \in Seq(Entries) /\ GrowsOn(b, {0})
  BY <1>1, AllIs, Zenon
<1>4. e.id = j.nextId /\ e.role = "compaction" /\ e.n = native
  BY DEF CompactionEntry
<1>5. Linked(j.staged)
  BY DEF Straight
<1>. HIDE DEF k, e, r, s, b, n
<1>6. n \in Nat /\ (j.staged = <<>> <=> n = 0)
  <2>1. j.staged = <<>> <=> Len(j.staged) = 0
    BY <1>2, EmptySeq
  <2>. QED
    BY <1>2, <2>1 DEF n
<1>7. Linked(r)
  <2>1. ASSUME NEW i \in 1..n, i # 1 PROVE r[i].parent = r[i - 1].id
    <3>1. i - 1 \in 1..n
      BY <1>6, <2>1
    <3>2. r[i].parent = j.staged[i].parent /\ r[i - 1].id = j.staged[i - 1].id
      BY <1>1, <2>1, <3>1
    <3>3. j.staged[i].parent = j.staged[i - 1].id
      BY <1>5, <2>1 DEF Linked, n
    <3>. QED
      BY <3>2, <3>3
  <2>. QED
    BY <1>1, <2>1 DEF Linked
<1>8. /\ c \in Seq(Entries) /\ Len(c) = 1 + n /\ c[1] = e /\ c # <<>>
      /\ \A i \in 1..n : c[1 + i] = r[i]
  <2>1. <<e>> \in Seq(Entries) /\ Len(<<e>>) = 1 /\ <<e>>[1] = e
    BY <1>1
  <2>. DEFINE d == <<e>>
  <2>. HIDE DEF d
  <2>2. /\ d \o r \in Seq(Entries) /\ Len(d \o r) = Len(d) + Len(r)
        /\ \A p \in 1..Len(d) : (d \o r)[p] = d[p]
        /\ \A p \in 1..Len(r) : (d \o r)[Len(d) + p] = r[p]
    BY <1>1, <2>1, IdsOfConcat DEF d
  <2>3. Len(d) = 1 /\ d[1] = e /\ 1 \in 1..Len(d)
    BY <2>1 DEF d
  <2>4. d \o r # <<>>
    BY <1>1, <1>6, <2>2, <2>3
  <2>. QED
    BY <1>1, <2>2, <2>3, <2>4 DEF d
<1>. HIDE DEF c
<1>9. Linked(c)
  <2>1. ASSUME NEW i \in 1..(1 + n), i # 1 PROVE c[i].parent = c[i - 1].id
    <3>1. i - 1 \in 1..n /\ i = 1 + (i - 1)
      BY <1>6, <2>1
    <3>2. c[i] = r[i - 1]
      BY <1>8, <3>1
    <3>3. CASE i = 2
      <4>1. i - 1 = 1 /\ 1 \in 1..n
        BY <3>1, <3>3
      <4>2. r[1].parent = j.nextId
        BY <1>1, <4>1
      <4>. QED
        BY <1>4, <1>8, <3>2, <4>1, <4>2
    <3>4. CASE i # 2
      <4>1. i - 1 # 1 /\ i - 2 \in 1..n /\ i - 1 = 1 + (i - 2) /\ (i - 1) - 1 = i - 2
        BY <1>6, <2>1, <3>4
      <4>2. c[i - 1] = r[i - 2]
        BY <1>8, <4>1
      <4>3. r[i - 1].parent = r[i - 2].id
        BY <1>1, <1>7, <3>1, <4>1 DEF Linked
      <4>. QED
        BY <3>2, <4>2, <4>3
    <3>. QED
      BY <3>3, <3>4
  <2>. QED
    BY <1>8, <2>1 DEF Linked
<1>10. Straight(k)
  BY <1>1, <1>8, <1>9 DEF Straight
<1>11. Restored(k) = Restored(j)
  BY <1>1 DEF Restored, s
<1>12. \A i \in 1..(1 + n) : Len(s) + i \in 1..Len(b) /\ b[Len(s) + i] = c[i]
  <2>1. /\ Len(b) = Len(s) + Len(c) /\ \A p \in 1..Len(c) : b[Len(s) + p] = c[p]
    BY <1>1, <1>2, <1>8, IdsOfConcat
  <2>2. Len(s) \in Nat
    BY <1>2
  <2>. QED
    BY <1>6, <1>8, <2>1, <2>2
<1>13. Holds(b, c) /\ Holds(b, r)
  <2>1. Holds(b, c)
    BY <1>8, <1>12 DEF Holds
  <2>2. \A i \in 1..n : 1 + i \in 1..(1 + n) /\ b[Len(s) + (1 + i)] = r[i]
                        /\ Len(s) + (1 + i) \in 1..Len(b)
    <3>1. \A i \in 1..n : 1 + i \in 1..(1 + n)
      BY <1>6
    <3>. QED
      BY <1>8, <1>12, <3>1
  <2>. QED
    BY <1>1, <2>1, <2>2 DEF Holds
<1>14. View(b, e.id) = <<<<Checkpoint>>, stamp>>
  <2>1. 1 \in 1..(1 + n)
    BY <1>6
  <2>. DEFINE p == Len(s) + 1
  <2>2. p \in 1..Len(b) /\ b[p] = e
    BY <1>8, <1>12, <2>1
  <2>. HIDE DEF p
  <2>3. View(b, b[p].id) = After(b[p], View(b, b[p].parent))
    BY <1>3, <2>2, ViewSteps
  <2>4. \A v : After(e, v) = <<<<Checkpoint>>, Brings(e)>>
    BY <1>4, Zenon DEF After
  <2>5. Brings(e) = stamp
    BY <1>4 DEF Brings
  <2>. QED
    BY <2>2, <2>3, <2>4, <2>5
<1>. HIDE DEF stamp
<1>15. Headed(<<Checkpoint>>)
  BY DEF Headed
<1>16. ASSUME j.staged = <<>>
       PROVE  Shortened(j, k, stamp)
  <2>1. Upcoming(k) = <<<<Checkpoint>>, stamp>>
    BY <1>1, <1>4, <1>14, <1>16 DEF Upcoming, b
  <2>2. Headed(Upcoming(k)[1])
    BY <1>15, <2>1
  <2>3. MessagesIn(j.staged) = <<>>
    <3>1. MessagesIn(<<>>) = <<>>
      BY DEF MessagesIn
    <3>. QED
      BY <1>16, <3>1
  <2>4. <<Checkpoint>> \o MessagesIn(j.staged) = <<Checkpoint>>
    BY <2>3
  <2>. QED
    BY <1>1, <1>10, <1>11, <2>1, <2>2, <2>4 DEF Shortened
<1>17. ASSUME j.staged # <<>>
       PROVE  Shortened(j, k, stamp)
  <2>1. n # 0 /\ 1 \in 1..n /\ n \in 1..n /\ r # <<>>
    BY <1>1, <1>6, <1>17
  <2>2. r[1].parent = e.id
    BY <1>1, <1>4, <2>1
  <2>3. r[Len(r)].id = k.leaf
    <3>1. j.leaf = j.staged[n].id
      BY <1>2, <1>17, LeafIdIs DEF n
    <3>. QED
      BY <1>1, <1>17, <2>1, <3>1
  <2>4. View(b, r[1].parent) = <<<<Checkpoint>>, stamp>>
    BY <1>14, <2>2
  <2>5. Upcoming(k) = View(b, r[Len(r)].id)
    BY <2>3 DEF Upcoming, b
  <2>6. Headed(View(b, r[Len(r)].id)[1])
    <3>1. Headed(View(b, r[1].parent)[1])
      BY <1>15, <2>4
    <3>. QED
      BY <1>1, <1>3, <1>7, <1>13, <2>1, <3>1, HeadedView
  <2>7. ASSUME AllMessages(j.staged)
        PROVE  Upcoming(k) = <<<<Checkpoint>> \o MessagesIn(j.staged), stamp>>
    <3>. DEFINE ms == MessagesIn(j.staged)
                v == View(b, r[1].parent)
    <3>1. \A i \in 1..n : j.staged[i] \in Entries /\ j.staged[i].role \in MessageRoles
      BY <1>2, <2>7 DEF AllMessages, n
    <3>2. \A i \in 1..n : MessageOf(j.staged[i]) \in Kept
      BY <3>1 DEF MessageOf, Kept, Entries
    <3>3. ms \in Seq(Kept) /\ Len(ms) = n /\ \A i \in 1..n : ms[i] = MessageOf(j.staged[i])
      <4>1. ms \in [1..n -> Kept] /\ \A i \in 1..n : ms[i] = MessageOf(j.staged[i])
        BY <3>2 DEF MessagesIn, n
      <4>. HIDE DEF ms
      <4>2. ms \in Seq(Kept)
        BY <1>6, <4>1, SeqDef
      <4>. QED
        BY <1>6, <4>1, <4>2
    <3>4. \A i \in 1..Len(r) : r[i].role \in MessageRoles /\ MessageOf(r[i]) = ms[i]
      <4>. HIDE DEF ms
      <4>. QED
        BY <1>1, <3>1, <3>3 DEF MessageOf
    <3>5. v = <<<<Checkpoint>>, stamp>>
      BY <2>4
    <3>. HIDE DEF ms
    <3>6. View(b, r[Len(r)].id) = <<v[1] \o ms, v[2]>>
      <4>1. Len(ms) = Len(r) /\ ms \in Seq(Kept)
        BY <1>1, <3>3
      <4>. HIDE DEF v
      <4>2. v = View(b, r[1].parent)
        BY DEF v
      <4>3. r \in Seq(Entries) /\ b \in Seq(Entries) /\ GrowsOn(b, {0})
        BY <1>1, <1>3
      <4>4. Holds(b, r) /\ r # <<>>
        BY <1>13, <2>1
      <4>. QED
        BY <1>7, <3>4, <4>1, <4>2, <4>3, <4>4, LinkedView
    <3>. HIDE DEF v
    <3>7. v[1] = <<Checkpoint>> /\ v[2] = stamp
      BY <3>5
    <3>. QED
      BY <2>5, <3>6, <3>7 DEF ms
  <2>8. Headed(Upcoming(k)[1])
    BY <2>5, <2>6
  <2>. QED
    BY <1>1, <1>10, <1>11, <2>7, <2>8 DEF Shortened
<1>. QED
  BY <1>16, <1>17 DEF k, stamp

\* Only the prompt of run r is staged, and follows what is restored.
Prompted(j, r) ==
  /\ Straight(j) /\ AllMessages(j.staged) /\ j.staged # <<>>
  /\ MessagesIn(j.staged) = <<Prompt(r)>>
  /\ Upcoming(j) = Further(Restored(j), <<Prompt(r)>>)

\* k is journal j with a new turn begun.
Begun(j, r, k) == JournalOK(k) /\ Prompted(k, r) /\ Restored(k) = Restored(j)

\* A new turn stages its prompt, whatever was staged before.
LEMMA NewTurnBegins ==
  ASSUME NEW j, JournalOK(j), NEW n \in Nat
  PROVE  Begun(j, n, NewTurn(j, Prompt(n)))
<1>. DEFINE leaf == LeafId(j.entries)
            k == Rebase(j, leaf)
            ms == <<Prompt(n)>>
            t == Stage(k, ms)
            c == Chain(ms, k.leaf, k.nextId)
<1>1. leaf \in {0} \cup IdsOf(j.entries)
  BY JournalParts, LeafIdIs
<1>2. /\ JournalOK(k) /\ k.entries = j.entries /\ k.leaf = leaf /\ All(k) = j.entries
      /\ k.staged = <<>>
  <2>. HIDE DEF leaf
  <2>. QED
    BY <1>1, RebaseIs
<1>3. NewTurn(j, Prompt(n)) = t
  BY Zenon DEF NewTurn, Rebase
<1>4. ms \in Seq(Kept) /\ Len(ms) = 1 /\ ms[1] = Prompt(n) /\ ms # <<>>
  BY KeptMessages
<1>. HIDE DEF k, ms
<1>5. Restored(k) = Restored(j) /\ Upcoming(k) = Restored(j)
  BY <1>2 DEF Restored, Upcoming
<1>6. Straight(k)
  <2>1. Linked(<<>>)
    BY DEF Linked
  <2>. QED
    BY <1>2, <1>5, <2>1 DEF Straight
<1>7. GoesOn(k, ms, t)
  BY <1>2, <1>4, StageGoesOn
<1>8. JournalOK(t) /\ t.staged = k.staged \o c
  BY <1>2, <1>4, StagedAll
<1>9. k.leaf \in Nat /\ k.nextId \in Nat \ {0}
  BY <1>2, JournalParts, Zenon
<1>10. /\ c \in Seq(Entries) /\ Len(c) = Len(ms)
       /\ \A i \in 1..Len(c) : c[i].role \in MessageRoles /\ MessageOf(c[i]) = ms[i]
  <2>. DEFINE parent == k.leaf
              next == k.nextId
  <2>1. parent \in Nat /\ next \in Nat \ {0} /\ c = Chain(ms, parent, next)
    BY <1>9
  <2>. HIDE DEF c, parent, next
  <2>. QED
    BY <1>4, <2>1, ChainLinked
<1>. HIDE DEF t, c
<1>11. t.staged = c
  BY <1>2, <1>8, <1>10
<1>12. AllMessages(t.staged) /\ MessagesIn(t.staged) = ms /\ t.staged # <<>>
  <2>1. AllMessages(c)
    BY <1>10 DEF AllMessages
  <2>2. MessagesIn(c) = ms
    BY <1>4, <1>10 DEF MessagesIn
  <2>3. c # <<>>
    BY <1>4, <1>10
  <2>. QED
    BY <1>11, <2>1, <2>2, <2>3
<1>13. Restored(t) = Restored(k) /\ Upcoming(t) = Further(Upcoming(k), ms) /\ Straight(t)
  BY <1>6, <1>7 DEF GoesOn
<1>14. Upcoming(t) = Further(Restored(t), ms)
  BY <1>5, <1>13
<1>. QED
  BY <1>3, <1>5, <1>8, <1>12, <1>13, <1>14, Zenon DEF Begun, Prompted, ms

\* Messages are staged beside messages.
LEMMA StageMessages ==
  ASSUME NEW j, JournalOK(j), AllMessages(j.staged), NEW ms \in Seq(Kept)
  PROVE  AllMessages(Stage(j, ms).staged)
<1>. DEFINE c == Chain(ms, j.leaf, j.nextId)
<1>1. Stage(j, ms).staged = j.staged \o c
  BY StagedAll
<1>2. j.leaf \in Nat /\ j.nextId \in Nat \ {0} /\ j.staged \in Seq(Entries)
  BY JournalParts, Zenon
<1>3. c \in Seq(Entries) /\ \A i \in 1..Len(c) : c[i].role \in MessageRoles
  <2>. DEFINE parent == j.leaf
              next == j.nextId
  <2>1. parent \in Nat /\ next \in Nat \ {0} /\ c = Chain(ms, parent, next)
    BY <1>2
  <2>. HIDE DEF c, parent, next
  <2>. QED
    BY <2>1, ChainLinked
<1>. HIDE DEF c
<1>4. ASSUME NEW s \in Seq(Entries), NEW u \in Seq(Entries), AllMessages(s), AllMessages(u)
      PROVE  AllMessages(s \o u)
  BY <1>4 DEF AllMessages
<1>5. AllMessages(c)
  BY <1>3 DEF AllMessages
<1>. QED
  BY <1>1, <1>2, <1>3, <1>4, <1>5

\* The agent's native summary is that of the log, where the log has one to tell.
Agree(summary, stamp) == stamp # -1 => summary = stamp

\* While the agent of a job is sought it is an agent, a run that is ready has one, and
\* a compaction that waits for the model is one.
JobHasAgent ==
  /\ phase \in {"building", "refreshing"} => resolving # 0
  /\ job = "run" /\ phase \in {"ready", "running"} => initializedAgent # 0
  /\ pc = "manual" => job = "compact" /\ phase = "running"

\* What is staged while a run has the thread: before its first turn, its prompt.
StagedInv ==
  /\ job = "run" => Straight(journal)
  /\ job = "run" /\ phase \in {"building", "refreshing", "ready"} =>
       Prompted(journal, run + 1)
  /\ pc = "prompt" => Prompted(journal, run)

\* What the agent remembers is found in what a resume restores and, while a run has the
\* thread, in what it will restore once the staged entries are committed.
MemoryInv ==
  1 \notin overflowed =>
    /\ pc \in {"idle", "manual"} /\ initializedAgent # 0 =>
         Found(messages, Restored(journal)[1])
    /\ pc = "prompt" => Found(conversation, Restored(journal)[1])
    /\ pc = "tools" =>
         Found(conversation \o Results(batch.executions), Upcoming(journal)[1])
    /\ pc \notin {"idle", "manual", "prompt", "tools"} =>
         Found(conversation, Upcoming(journal)[1])

\* The native summary the agent goes by is the one of what it remembers; while a run may
\* be compacted again, only messages are staged after its last checkpoint.
SummaryInv ==
  overflowed = {} =>
    /\ pc \in {"idle", "manual"} /\ initializedAgent # 0 =>
         Agree(compactionSummary, Restored(journal)[2])
    /\ pc \notin {"idle", "manual"} => Agree(SummaryAfter(requestSummary), Upcoming(journal)[2])
    /\ pc \notin {"idle", "manual", "closing"} => AllMessages(journal.staged)

RunInv == StagedInv /\ MemoryInv /\ SummaryInv

\* A job has its agent at every step.
LEMMA JobHasAgentInductive ==
  SessionInv /\ LoopIsRun /\ JobHasAgent /\ [SessionNext]_allVars => JobHasAgent'
<1>. SUFFICES ASSUME SessionInv, LoopIsRun, JobHasAgent, [SessionNext]_allVars
              PROVE  JobHasAgent'
  OBVIOUS
<1>1. CASE \/ FirstTurnStep \/ NextTurnStep \/ OverflowStep \/ AssistantStep \/ ToolStep
           \/ QuietStep
  <2>1. UNCHANGED hostVars
    BY <1>1 DEF FirstTurnStep, NextTurnStep, OverflowStep, AssistantStep, ToolStep,
                QuietStep, sessionVars
  <2>2. pc' = "manual" => pc = "manual"
    <3>1. CASE \/ FirstTurnStep \/ NextTurnStep \/ OverflowStep \/ AssistantStep
               \/ ToolStep
      BY <3>1 DEF FirstTurnStep, NextTurnStep, OverflowStep, AssistantStep, ToolStep,
                  StreamDone, ToolSettles, CallSettles
    <3>2. CASE QuietStep
      BY <3>2 DEF QuietStep, SteerAgent, CancelPending, InterruptTools, UserAbort,
                  WorkSettles, StreamFails, StreamOverflows, EndToolBatch, loopVars, Throw,
                  LeaveLoop
    <3>. QED
      BY <1>1, <3>1, <3>2
  <2>. QED
    BY <2>1, <2>2 DEF JobHasAgent, hostVars
<1>2. CASE \/ FinishRunStep \/ FinishCompactionStep \/ CrashAndResume \/ JobReturns
           \/ ResolveFails
  <2>1. phase' \in {"flushing", "aborted", "none"}
    BY <1>2 DEF FinishRunStep, FinishCompactionStep, CrashAndResume, JobReturns,
                ResolveFails
  <2>2. pc' # "manual"
    <3>1. CASE \/ FinishRunStep \/ FinishCompactionStep \/ CrashAndResume
      BY <3>1 DEF FinishRunStep, FinishCompactionStep, CrashAndResume, FinishRun,
                  EndManualCompaction
    <3>2. CASE JobReturns \/ ResolveFails
      BY <3>2 DEF JobReturns, ResolveFails, JobHasAgent, vars, loopVars
    <3>. QED
      BY <1>2, <3>1, <3>2
  <2>. QED
    BY <2>1, <2>2 DEF JobHasAgent
<1>3. CASE StartAgent
  <2>1. /\ job = "run" /\ phase = "ready" /\ phase' = "running" /\ pc' = "prompt"
        /\ UNCHANGED <<job, initializedAgent>>
    BY <1>3 DEF StartAgent, PromptAgent
  <2>. QED
    BY <2>1 DEF JobHasAgent
<1>4. CASE StartCompaction
  BY <1>4 DEF StartCompaction, JobHasAgent
<1>5. CASE PrepareRun \/ PrepareCompaction
  <2>1. Resolve /\ job = "none" /\ UNCHANGED pc
    BY <1>5 DEF PrepareRun, PrepareCompaction, vars, loopVars
  <2>2. phase' \in {"building", "refreshing"} /\ resolving' # 0
    <3>1. FreshAgent # 0
      <4>1. \E a \in 1..3 : a \notin {currentAgent, initializedAgent}
        OBVIOUS
      <4>2. FreshAgent \in 1..3
        BY <4>1 DEF FreshAgent
      <4>. QED
        BY <4>2
    <3>. QED
      BY <2>1, <3>1 DEF Resolve
  <2>3. pc' # "manual"
    BY <2>1 DEF JobHasAgent
  <2>. QED
    BY <2>2, <2>3 DEF JobHasAgent
<1>6. CASE AttachAgent \/ RestoreForCompaction
  <2>1. Resolved /\ UNCHANGED pc
    BY <1>6 DEF AttachAgent, RestoreForCompaction, loopVars
  <2>2. phase' = "ready" /\ initializedAgent' # 0 /\ pc' # "manual"
    BY <2>1 DEF Resolved, JobHasAgent
  <2>. QED
    BY <2>2 DEF JobHasAgent
<1>7. CASE ModeSet \/ EffortSet \/ UNCHANGED allVars
  <2>1. UNCHANGED <<pc, job, phase, resolving, initializedAgent>>
    BY <1>7 DEF ModeSet, EffortSet, ChangeSetting, allVars, sessionVars, hostVars, vars,
                loopVars
  <2>. QED
    BY <2>1 DEF JobHasAgent
<1>. QED
  BY <1>1, <1>2, <1>3, <1>4, <1>5, <1>6, <1>7 DEF SessionNext

\* What joins the conversation at the start of a turn is staged after what is there.
LEMMA TurnStartsKnown ==
  ASSUME NEW conv \in Seq(Message), NEW j, JournalOK(j), Straight(j), TypeOK,
         TurnStarts(conv, j)
  PROVE  /\ Straight(journal') /\ AllMessages(journal'.staged)
         /\ Upcoming(journal')[2] = Upcoming(j)[2]
         /\ Found(conv, Upcoming(j)[1]) => Found(conversation', Upcoming(journal')[1])
<1>1. PICK note \in Notes :
        /\ conversation' = conv \o Steers(pendingSteering) \o note
        /\ journal' = Stage(Flush(j), Steers(pendingSteering) \o note)
  BY DEF TurnStarts
<1>. DEFINE s == Steers(pendingSteering)
            ms == s \o note
            k == Flush(j)
            u == Upcoming(j)
<1>2. s \in Seq(Kept) /\ note \in Seq(Kept)
  <2>1. pendingSteering \in Seq(Nat)
    BY DEF TypeOK
  <2>. QED
    BY <2>1, KeptMessages
<1>. HIDE DEF s
<1>3. ms \in Seq(Kept) /\ ms \in Seq(Message)
  <2>1. ms \in Seq(Kept)
    BY <1>2
  <2>. QED
    BY <2>1, KeptMessages
<1>4. conversation' = conv \o ms
  <2>1. s \in Seq(Message) /\ note \in Seq(Message)
    BY <1>2, KeptMessages
  <2>2. (conv \o s) \o note = conv \o (s \o note)
    BY <2>1
  <2>. QED
    BY <1>1, <2>2 DEF s
<1>5. journal' = Stage(k, ms)
  BY <1>1 DEF s
<1>6. JournalOK(k) /\ Straight(k) /\ Upcoming(k) = u /\ k.staged = <<>>
  BY FlushSettles DEF Settles
<1>. HIDE DEF ms, k
<1>7. GoesOn(k, ms, journal')
  BY <1>3, <1>5, <1>6, StageGoesOn
<1>8. Straight(journal') /\ Upcoming(journal') = Further(u, ms)
  BY <1>6, <1>7 DEF GoesOn
<1>9. AllMessages(journal'.staged)
  <2>1. AllMessages(k.staged)
    BY <1>6 DEF AllMessages
  <2>. QED
    BY <1>3, <1>5, <1>6, <2>1, StageMessages
<1>. HIDE DEF u
<1>10. Upcoming(journal')[1] = u[1] \o ms /\ Upcoming(journal')[2] = u[2]
  BY <1>8 DEF Further
<1>11. u[1] \in Seq(Message)
  BY RestoredTyped DEF Views, u
<1>12. ASSUME Found(conv, u[1]) PROVE Found(conv \o ms, u[1] \o ms)
  BY <1>3, <1>11, <1>12, FoundInItself, FoundOneByOne
<1>. QED
  BY <1>4, <1>8, <1>9, <1>10, <1>12 DEF u

\* A run that goes on between its turns or ends.
LEMMA RunGoesOn ==
  ASSUME pc' \in {"stream", "overflow", "restream", "compact", "closing"},
         phase' = "running", Straight(journal'),
         1 \notin overflowed' => Found(conversation', Upcoming(journal')[1]),
         overflowed' = {} => Agree(SummaryAfter(requestSummary)', Upcoming(journal')[2]),
         overflowed' = {} /\ pc' # "closing" => AllMessages(journal'.staged)
  PROVE  RunInv'
<1>1. pc' \notin {"idle", "manual", "prompt", "tools"}
  OBVIOUS
<1>2. phase' \notin {"building", "refreshing", "ready"}
  OBVIOUS
<1>3. StagedInv'
  BY <1>1, <1>2, Zenon DEF StagedInv
<1>4. MemoryInv'
  BY <1>1, Zenon DEF MemoryInv
<1>5. SummaryInv'
  BY <1>1, Zenon DEF SummaryInv
<1>. QED
  BY <1>3, <1>4, <1>5 DEF RunInv

\* A compaction of the run: its checkpoint is where the context begins, and brings the
\* native summary the run has from then on.
LEMMA CompactionKnown ==
  ASSUME JournalOK(journal), Straight(journal), NEW native \in CompactionKinds,
         NEW j, j = StageCompaction(journal, native),
         requestSummary' = SummaryOf(native)
  PROVE  /\ JournalOK(j) /\ Straight(j) /\ Headed(Upcoming(j)[1])
         /\ AllMessages(journal.staged) =>
              /\ Upcoming(j)[1] = <<Checkpoint>> \o MessagesIn(journal.staged)
              /\ Agree(SummaryAfter(requestSummary)', Upcoming(j)[2])
<1>1. native \in Nat
  BY SessionBoundsAreNaturals
<1>2. journal.nextId \in Nat \ {0}
  BY JournalParts, Zenon
<1>. DEFINE stamp == IF native = 1 THEN journal.nextId ELSE -1
<1>3. Shortened(journal, j, stamp)
  BY <1>1, CompactionShortens
<1>4. Agree(SummaryAfter(requestSummary)', stamp)
  BY <1>2 DEF Agree, SummaryAfter, SummaryOf
<1>. HIDE DEF stamp
<1>5. JournalOK(j) /\ Straight(j) /\ Headed(Upcoming(j)[1])
  BY <1>3 DEF Shortened
<1>6. ASSUME AllMessages(journal.staged)
      PROVE  /\ Upcoming(j)[1] = <<Checkpoint>> \o MessagesIn(journal.staged)
             /\ Upcoming(j)[2] = stamp
  <2>1. Upcoming(j) = <<<<Checkpoint>> \o MessagesIn(journal.staged), stamp>>
    BY <1>3, <1>6, Zenon DEF Shortened
  <2>. QED
    BY <2>1
<1>. QED
  BY <1>4, <1>5, <1>6

\* Two messages, one after the other.
LEMMA OneAndOne ==
  ASSUME NEW x \in Message, NEW y \in Message PROVE <<x>> \o <<y>> = <<x, y>>
<1>. DEFINE a == <<x>>
            b == <<y>>
            c == <<x, y>>
            ab == a \o b
<1>1. /\ a \in Seq(Message) /\ Len(a) = 1 /\ a[1] = x
      /\ b \in Seq(Message) /\ Len(b) = 1 /\ b[1] = y
      /\ c \in Seq(Message) /\ Len(c) = 2 /\ c[1] = x /\ c[2] = y
  OBVIOUS
<1>. HIDE DEF a, b, c
<1>2. /\ ab \in Seq(Message) /\ Len(ab) = Len(a) + Len(b)
      /\ \A k \in 1..(Len(a) + Len(b)) :
           ab[k] = IF k <= Len(a) THEN a[k] ELSE b[k - Len(a)]
  BY <1>1, ConcatProperties, Zenon
<1>. HIDE DEF ab
<1>3. Len(ab) = Len(c) /\ \A k \in 1..Len(ab) : ab[k] = c[k]
  BY <1>1, <1>2
<1>4. ab = c
  BY <1>1, <1>2, <1>3, SeqEqual
<1>. QED
  BY <1>4 DEF ab, a, b, c

\* The first turn of a run starts, or the run ends before it.
LEMMA FirstTurnKept ==
  SessionInv /\ LoopIsRun /\ RunInv /\ FirstTurnStep => RunInv'
<1>. SUFFICES ASSUME SessionInv, LoopIsRun, RunInv, FirstTurnStep PROVE RunInv'
  OBVIOUS
<1>1. /\ TypeOK /\ JournalOK(journal)
      /\ conversation \in Seq(Message) /\ run \in Nat
  BY DEF SessionInv, TypeOK
<1>2. pc = "prompt" /\ UNCHANGED <<compactionSummary, overflowed>> /\ UNCHANGED phase
  BY DEF FirstTurnStep, CompactBeforePrompt, hostVars
<1>3. phase' = "running"
  BY <1>2 DEF LoopIsRun
<1>4. Prompted(journal, run)
  BY <1>2 DEF RunInv, StagedInv
<1>5. /\ Straight(journal) /\ AllMessages(journal.staged)
      /\ MessagesIn(journal.staged) = <<Prompt(run)>>
      /\ Upcoming(journal) = Further(Restored(journal), <<Prompt(run)>>)
  BY <1>4 DEF Prompted
<1>6. ASSUME 1 \notin overflowed PROVE Found(conversation, Restored(journal)[1])
  BY <1>2, <1>6 DEF RunInv, MemoryInv
<1>7. ASSUME overflowed = {}
      PROVE  Agree(SummaryAfter(requestSummary), Upcoming(journal)[2])
  BY <1>2, <1>7 DEF RunInv, SummaryInv
<1>8. <<Prompt(run)>> \in Seq(Message) /\ << >> \in Seq(Message)
  BY <1>1, MessagesTyped
<1>9. /\ Upcoming(journal)[1] = Restored(journal)[1] \o <<Prompt(run)>>
      /\ Restored(journal)[1] \in Seq(Message)
  BY <1>1, <1>5, RestoredTyped DEF Further, Views
<1>. DEFINE conv == Append(conversation, Prompt(run))
<1>10. conv \in Seq(Message) /\ conv = conversation \o <<Prompt(run)>>
  BY <1>1, <1>8
<1>11. ASSUME 1 \notin overflowed
       PROVE  /\ Found(conv, Upcoming(journal)[1])
              /\ Found(conversation, Upcoming(journal)[1])
  <2>1. Found(conv, Upcoming(journal)[1])
    BY <1>1, <1>6, <1>8, <1>9, <1>10, <1>11, FoundInItself, FoundOneByOne
  <2>2. Found(<<>>, <<Prompt(run)>>)
    BY <1>8, NothingIsFound
  <2>3. Found(conversation \o <<>>, Upcoming(journal)[1])
    BY <1>1, <1>6, <1>8, <1>9, <1>11, <2>2, FoundOneByOne
  <2>4. conversation \o <<>> = conversation
    BY <1>1
  <2>. QED
    BY <2>1, <2>3, <2>4
<1>. HIDE DEF conv
<1>12. ASSUME UNCHANGED requestSummary, overflowed' = {}
       PROVE  Agree(SummaryAfter(requestSummary)', Upcoming(journal)[2])
  BY <1>2, <1>7, <1>12 DEF SummaryAfter
<1>13. CASE pc' = "stream" /\ TurnStarts(conv, journal) /\ UNCHANGED requestSummary
  <2>1. /\ Straight(journal') /\ AllMessages(journal'.staged)
        /\ Upcoming(journal')[2] = Upcoming(journal)[2]
        /\ Found(conv, Upcoming(journal)[1]) => Found(conversation', Upcoming(journal')[1])
    <3>1. /\ TypeOK /\ JournalOK(journal) /\ Straight(journal)
          /\ conv \in Seq(Message) /\ TurnStarts(conv, journal)
      BY <1>1, <1>5, <1>10, <1>13
    <3>. QED
      BY <3>1, TurnStartsKnown
  <2>2. overflowed' = {} => Agree(SummaryAfter(requestSummary)', Upcoming(journal')[2])
    BY <1>12, <1>13, <2>1
  <2>3. 1 \notin overflowed' => Found(conversation', Upcoming(journal')[1])
    BY <1>2, <1>11, <2>1
  <2>. QED
    BY <1>3, <1>13, <2>1, <2>2, <2>3, RunGoesOn
<1>14. CASE /\ pc' = "closing" /\ conversation' \in {conv, conversation}
            /\ UNCHANGED <<journal, requestSummary>>
  <2>1. Straight(journal')
    BY <1>5, <1>14
  <2>2. overflowed' = {} => Agree(SummaryAfter(requestSummary)', Upcoming(journal')[2])
    BY <1>12, <1>14
  <2>3. 1 \notin overflowed' => Found(conversation', Upcoming(journal')[1])
    BY <1>2, <1>11, <1>14
  <2>. QED
    BY <1>3, <1>14, <2>1, <2>2, <2>3, RunGoesOn
<1>15. ASSUME NEW native \in CompactionKinds, requestSummary' = SummaryOf(native),
              NEW cut, cut = <<Summary, Prompt(run)>>,
              NEW j, j = StageCompaction(journal, native),
              \/ pc' = "stream" /\ TurnStarts(cut, j)
              \/ pc' = "closing" /\ conversation' = cut /\ journal' = j
       PROVE  RunInv'
  <2>1. /\ JournalOK(j) /\ Straight(j)
        /\ Upcoming(j)[1] = <<Checkpoint>> \o <<Prompt(run)>>
        /\ Agree(SummaryAfter(requestSummary)', Upcoming(j)[2])
    BY <1>1, <1>5, <1>15, CompactionKnown
  <2>2. cut \in Seq(Message) /\ Upcoming(j)[1] = cut
    <3>1. Summary \in Message /\ Prompt(run) \in Message
      BY <1>1, MessagesTyped
    <3>2. Checkpoint = Summary
      BY DEF Checkpoint, Summary
    <3>3. <<Summary>> \o <<Prompt(run)>> = <<Summary, Prompt(run)>>
      BY <3>1, OneAndOne
    <3>. QED
      BY <1>15, <2>1, <3>1, <3>2, <3>3
  <2>3. Found(cut, Upcoming(j)[1])
    BY <2>2, FoundInItself
  <2>4. CASE pc' = "stream" /\ TurnStarts(cut, j)
    <3>1. /\ Straight(journal') /\ AllMessages(journal'.staged)
          /\ Upcoming(journal')[2] = Upcoming(j)[2]
          /\ Found(conversation', Upcoming(journal')[1])
      BY <1>1, <2>1, <2>2, <2>3, <2>4, TurnStartsKnown
    <3>. QED
      BY <1>3, <2>1, <2>4, <3>1, RunGoesOn
  <2>5. CASE pc' = "closing" /\ conversation' = cut /\ journal' = j
    <3>1. /\ Straight(journal') /\ Found(conversation', Upcoming(journal')[1])
          /\ Agree(SummaryAfter(requestSummary)', Upcoming(journal')[2])
      BY <2>1, <2>3, <2>5
    <3>. QED
      BY <1>3, <2>5, <3>1, RunGoesOn
  <2>. QED
    BY <1>15, <2>4, <2>5
<1>. QED
  <2>1. \/ pc' = "stream" /\ TurnStarts(conv, journal) /\ UNCHANGED requestSummary
        \/ /\ pc' = "closing" /\ conversation' = conv
           /\ UNCHANGED journal /\ UNCHANGED requestSummary
        \/ \E native \in CompactionKinds :
             /\ \/ /\ pc' = "stream"
                   /\ TurnStarts(<<Summary, Prompt(run)>>, StageCompaction(journal, native))
                \/ /\ pc' = "closing" /\ conversation' = <<Summary, Prompt(run)>>
                   /\ journal' = StageCompaction(journal, native)
             /\ requestSummary' = SummaryOf(native)
        \/ /\ pc' = "closing" /\ conversation' = conversation
           /\ UNCHANGED <<journal, requestSummary>>
    BY Zenon DEF FirstTurnStep, conv
  <2>. QED
    BY <1>13, <1>14, <1>15, <2>1

\* A later turn starts, with a summary of the conversation or without, or the run ends.
LEMMA NextTurnKept ==
  SessionInv /\ LoopIsRun /\ RunInv /\ NextTurnStep => RunInv'
<1>. SUFFICES ASSUME SessionInv, LoopIsRun, RunInv, NextTurnStep PROVE RunInv'
  OBVIOUS
<1>1. TypeOK /\ JournalOK(journal) /\ conversation \in Seq(Message)
  BY DEF SessionInv, TypeOK
<1>2. /\ pc = "compact" /\ pc' \in {"stream", "closing"}
      /\ UNCHANGED <<compactionSummary, overflowed>> /\ UNCHANGED phase
  BY DEF NextTurnStep, CompactBeforeTurn, hostVars
<1>3. job = "run" /\ phase' = "running"
  BY <1>2 DEF LoopIsRun
<1>4. Straight(journal)
  BY <1>3 DEF RunInv, StagedInv
<1>5. ASSUME 1 \notin overflowed PROVE Found(conversation, Upcoming(journal)[1])
  BY <1>2, <1>5 DEF RunInv, MemoryInv
<1>6. ASSUME overflowed = {}
      PROVE  /\ Agree(SummaryAfter(requestSummary), Upcoming(journal)[2])
             /\ AllMessages(journal.staged)
  BY <1>2, <1>6 DEF RunInv, SummaryInv
<1>7. ASSUME UNCHANGED requestSummary, overflowed' = {}
      PROVE  Agree(SummaryAfter(requestSummary)', Upcoming(journal)[2])
  BY <1>2, <1>6, <1>7 DEF SummaryAfter
<1>8. CASE TurnStarts(conversation, journal) /\ UNCHANGED requestSummary
  <2>1. /\ Straight(journal') /\ AllMessages(journal'.staged)
        /\ Upcoming(journal')[2] = Upcoming(journal)[2]
        /\ Found(conversation, Upcoming(journal)[1])
             => Found(conversation', Upcoming(journal')[1])
    <3>1. /\ TypeOK /\ JournalOK(journal) /\ Straight(journal)
          /\ conversation \in Seq(Message) /\ TurnStarts(conversation, journal)
      BY <1>1, <1>4, <1>8
    <3>. QED
      BY <3>1, TurnStartsKnown
  <2>2. overflowed' = {} => Agree(SummaryAfter(requestSummary)', Upcoming(journal')[2])
    BY <1>7, <1>8, <2>1
  <2>3. 1 \notin overflowed' => Found(conversation', Upcoming(journal')[1])
    BY <1>2, <1>5, <2>1
  <2>. QED
    BY <1>2, <1>3, <2>1, <2>2, <2>3, RunGoesOn
<1>9. CASE pc' = "closing" /\ UNCHANGED <<conversation, journal, requestSummary>>
  <2>1. Straight(journal')
    BY <1>4, <1>9
  <2>2. overflowed' = {} => Agree(SummaryAfter(requestSummary)', Upcoming(journal')[2])
    BY <1>7, <1>9
  <2>3. 1 \notin overflowed' => Found(conversation', Upcoming(journal')[1])
    BY <1>2, <1>5, <1>9
  <2>. QED
    BY <1>3, <1>9, <2>1, <2>2, <2>3, RunGoesOn
<1>10. ASSUME NEW native \in CompactionKinds, requestSummary' = SummaryOf(native),
              NEW cut, cut = <<Summary>>,
              NEW j, j = StageCompaction(journal, native), TurnStarts(cut, j)
       PROVE  RunInv'
  <2>1. /\ JournalOK(j) /\ Straight(j) /\ Headed(Upcoming(j)[1])
        /\ AllMessages(journal.staged)
             => Agree(SummaryAfter(requestSummary)', Upcoming(j)[2])
    BY <1>1, <1>4, <1>10, CompactionKnown
  <2>2. cut \in Seq(Message)
    BY <1>10, MessagesTyped
  <2>3. Upcoming(j)[1] \in Seq(Message)
    BY <2>1, RestoredTyped DEF Views
  <2>4. Found(cut, Upcoming(j)[1])
    BY <1>10, <2>1, <2>3, HeadedFound
  <2>5. /\ Straight(journal') /\ AllMessages(journal'.staged)
        /\ Upcoming(journal')[2] = Upcoming(j)[2]
        /\ Found(cut, Upcoming(j)[1]) => Found(conversation', Upcoming(journal')[1])
    <3>1. JournalOK(j) /\ Straight(j)
      BY <2>1
    <3>. QED
      BY <1>1, <1>10, <2>2, <3>1, TurnStartsKnown
  <2>6. overflowed' = {} => Agree(SummaryAfter(requestSummary)', Upcoming(journal')[2])
    BY <1>2, <1>6, <2>1, <2>5
  <2>. QED
    BY <1>2, <1>3, <2>4, <2>5, <2>6, RunGoesOn
<1>. QED
  <2>1. \/ TurnStarts(conversation, journal) /\ UNCHANGED requestSummary
        \/ \E native \in CompactionKinds :
             /\ TurnStarts(<<Summary>>, StageCompaction(journal, native))
             /\ requestSummary' = SummaryOf(native)
        \/ pc' = "closing" /\ UNCHANGED <<journal, requestSummary>>
    BY Zenon DEF NextTurnStep
  <2>2. pc' = "closing" => UNCHANGED conversation
    BY DEF NextTurnStep, CompactBeforeTurn, EnterTurn, Throw
  <2>. QED
    BY <1>8, <1>9, <1>10, <2>1, <2>2

\* The history is compacted because the request was too long, or the run ends.
LEMMA OverflowKept ==
  SessionInv /\ LoopIsRun /\ RunInv /\ OverflowStep => RunInv'
<1>. SUFFICES ASSUME SessionInv, LoopIsRun, RunInv, OverflowStep PROVE RunInv'
  OBVIOUS
<1>1. TypeOK /\ JournalOK(journal) /\ conversation \in Seq(Message)
  BY DEF SessionInv, TypeOK
<1>2. /\ pc = "overflow" /\ pc' \in {"restream", "closing"}
      /\ UNCHANGED compactionSummary /\ UNCHANGED phase
  BY DEF OverflowStep, CompactAfterOverflow, hostVars
<1>3. job = "run" /\ phase' = "running"
  BY <1>2 DEF LoopIsRun
<1>4. Straight(journal)
  BY <1>3 DEF RunInv, StagedInv
<1>5. CASE pc' = "closing" /\ UNCHANGED <<journal, requestSummary, overflowed>>
  <2>1. UNCHANGED conversation
    BY <1>5 DEF OverflowStep, CompactAfterOverflow, Throw
  <2>2. 1 \notin overflowed' => Found(conversation', Upcoming(journal')[1])
    BY <1>2, <1>5, <2>1 DEF RunInv, MemoryInv
  <2>3. overflowed' = {} => Agree(SummaryAfter(requestSummary)', Upcoming(journal')[2])
    BY <1>2, <1>5 DEF RunInv, SummaryInv, SummaryAfter
  <2>4. Straight(journal')
    BY <1>4, <1>5
  <2>. QED
    BY <1>3, <1>5, <2>2, <2>3, <2>4, RunGoesOn
<1>6. ASSUME NEW native \in CompactionKinds, pc' = "restream",
             requestSummary' = SummaryOf(native),
             journal' = StageCompaction(journal, native),
             overflowed' = overflowed \cup {turnNumber}
      PROVE  RunInv'
  <2>1. JournalOK(journal') /\ Straight(journal') /\ Headed(Upcoming(journal')[1])
    BY <1>1, <1>4, <1>6, CompactionKnown
  <2>2. Upcoming(journal')[1] \in Seq(Message)
    BY <2>1, RestoredTyped DEF Views
  <2>3. Found(<<Summary>>, Upcoming(journal')[1])
    BY <2>1, <2>2, HeadedFound
  <2>4. ASSUME 1 \notin overflowed' PROVE conversation' = <<Summary>>
    <3>1. PreservedTail = <<>>
      BY <1>6, <2>4 DEF PreservedTail
    <3>2. conversation' = <<Summary>> \o PreservedTail
      BY <1>6 DEF OverflowStep, CompactAfterOverflow, Throw
    <3>3. <<Summary>> \in Seq(Message)
      BY MessagesTyped
    <3>. QED
      BY <3>1, <3>2, <3>3
  <2>5. 1 \notin overflowed' => Found(conversation', Upcoming(journal')[1])
    BY <2>3, <2>4
  <2>6. overflowed' # {}
    BY <1>6
  <2>. QED
    BY <1>3, <1>6, <2>1, <2>5, <2>6, RunGoesOn
<1>. QED
  <2>1. \/ pc' = "closing" /\ UNCHANGED <<journal, requestSummary, overflowed>>
        \/ \E native \in CompactionKinds :
             /\ pc' = "restream"
             /\ requestSummary' = SummaryOf(native)
             /\ journal' = StageCompaction(journal, native)
             /\ overflowed' = overflowed \cup {turnNumber}
    BY Zenon DEF OverflowStep
  <2>. QED
    BY <1>5, <1>6, <2>1

\* k is journal j with these messages staged, and committed or not.
Takes(j, ms, k) ==
  /\ JournalOK(k) /\ Straight(k) /\ Upcoming(k) = Further(Upcoming(j), ms)
  /\ AllMessages(j.staged) => AllMessages(k.staged)

\* Staged messages stay where they are when they are committed.
LEMMA StageTakes ==
  ASSUME NEW j, JournalOK(j), Straight(j), NEW ms \in Seq(Kept),
         NEW k \in {Stage(j, ms), Flush(Stage(j, ms))}
  PROVE  Takes(j, ms, k)
<1>. DEFINE s == Stage(j, ms)
<1>1. JournalOK(s)
  BY StageKeeps
<1>2. GoesOn(j, ms, s)
  BY StageGoesOn
<1>3. Straight(s) /\ Upcoming(s) = Further(Upcoming(j), ms)
  BY <1>2 DEF GoesOn
<1>4. AllMessages(j.staged) => AllMessages(s.staged)
  BY StageMessages
<1>. HIDE DEF s
<1>5. CASE k = s
  BY <1>1, <1>3, <1>4, <1>5 DEF Takes
<1>6. CASE k = Flush(s)
  <2>1. Settles(s, k)
    BY <1>1, <1>3, <1>6, FlushSettles
  <2>2. /\ Upcoming(k) = Upcoming(s) /\ Straight(k) /\ k.staged = <<>> /\ JournalOK(k)
    BY <2>1 DEF Settles
  <2>3. AllMessages(k.staged)
    BY <2>2 DEF AllMessages
  <2>. QED
    BY <1>3, <2>2, <2>3 DEF Takes
<1>. QED
  BY <1>5, <1>6 DEF s

\* A run that waits for its tools.
LEMMA RunWaitsOn ==
  ASSUME pc' = "tools", phase' = "running", Straight(journal'),
         1 \notin overflowed' =>
           Found(conversation' \o Results(batch'.executions), Upcoming(journal')[1]),
         overflowed' = {} => Agree(SummaryAfter(requestSummary)', Upcoming(journal')[2])
                             /\ AllMessages(journal'.staged)
  PROVE  RunInv'
<1>1. StagedInv'
  <2>1. pc' # "prompt" /\ phase' \notin {"building", "refreshing", "ready"}
    OBVIOUS
  <2>. QED
    BY <2>1, Zenon DEF StagedInv
<1>2. MemoryInv'
  <2>1. pc' \notin {"idle", "manual"} /\ pc' # "prompt" /\ pc' = "tools"
        /\ ~(pc' \notin {"idle", "manual", "prompt", "tools"})
    OBVIOUS
  <2>. QED
    BY <2>1, Zenon DEF MemoryInv
<1>3. SummaryInv'
  <2>1. pc' \notin {"idle", "manual"}
    OBVIOUS
  <2>. QED
    BY <2>1, Zenon DEF SummaryInv
<1>. QED
  BY <1>1, <1>2, <1>3 DEF RunInv

\* Messages that join the conversation as they are staged are found there.
LEMMA TakesFound ==
  ASSUME NEW j, JournalOK(j), NEW ms \in Seq(Kept), NEW k, Takes(j, ms, k),
         NEW conv \in Seq(Message)
  PROVE  /\ Upcoming(k)[2] = Upcoming(j)[2]
         /\ Found(conv, Upcoming(j)[1]) => Found(conv \o ms, Upcoming(k)[1])
<1>. DEFINE u == Upcoming(j)
<1>1. u[1] \in Seq(Message)
  BY RestoredTyped DEF Views
<1>2. ms \in Seq(Message)
  BY KeptMessages
<1>3. Upcoming(k) = Further(u, ms)
  BY DEF Takes
<1>. HIDE DEF u
<1>4. Upcoming(k)[1] = u[1] \o ms /\ Upcoming(k)[2] = u[2]
  BY <1>3 DEF Further
<1>5. Found(ms, ms)
  BY <1>2, FoundInItself
<1>6. Found(conv, u[1]) => Found(conv \o ms, u[1] \o ms)
  BY <1>1, <1>2, <1>5, FoundOneByOne
<1>. QED
  BY <1>4, <1>6 DEF u

\* The assistant message is complete, with the results of a batch that was cut at once.
LEMMA AssistantKept ==
  SessionInv /\ LoopIsRun /\ RunInv /\ AssistantStep => RunInv'
<1>. SUFFICES ASSUME SessionInv, LoopIsRun, RunInv, AssistantStep PROVE RunInv'
  OBVIOUS
<1>1. TypeOK /\ JournalOK(journal) /\ conversation \in Seq(Message)
  BY DEF SessionInv, TypeOK
<1>2. /\ pc \in {"stream", "restream"} /\ pc' = "tools"
      /\ UNCHANGED <<compactionSummary, requestSummary, overflowed>> /\ UNCHANGED phase
  BY DEF AssistantStep, StreamDone, hostVars, summaryVars
<1>3. job = "run" /\ phase' = "running"
  BY <1>2 DEF LoopIsRun
<1>4. Straight(journal)
  BY <1>3 DEF RunInv, StagedInv
<1>5. ASSUME 1 \notin overflowed PROVE Found(conversation, Upcoming(journal)[1])
  BY <1>2, <1>5 DEF RunInv, MemoryInv
<1>6. ASSUME overflowed = {}
      PROVE  /\ Agree(SummaryAfter(requestSummary), Upcoming(journal)[2])
             /\ AllMessages(journal.staged)
  BY <1>2, <1>6 DEF RunInv, SummaryInv
<1>. DEFINE first == <<Assistant(batch'.calls)>>
            rest == Results(batch'.executions)
            ms == first \o rest
<1>7. batch'.calls \in Nat /\ batch'.executions \in Seq(Nat)
  <2>1. PICK calls \in 0..MaxCalls, kind \in Modes :
          batch' = BeginBatch(calls, kind, Aborted \/ toolInterruptRequested)
    BY Zenon DEF AssistantStep, StreamDone
  <2>2. calls \in Nat
    BY BoundsAreNaturals
  <2>3. (Aborted \/ toolInterruptRequested) \in BOOLEAN
    BY Zenon
  <2>4. batch' \in Batches
    BY <2>1, <2>2, <2>3, BeginBatchTyped
  <2>. QED
    BY <2>4 DEF Batches
<1>8. /\ first \in Seq(Kept) /\ rest \in Seq(Kept) /\ ms \in Seq(Kept)
      /\ first \in Seq(Message) /\ rest \in Seq(Message)
  <2>1. first \in Seq(Kept) /\ rest \in Seq(Kept)
    BY <1>7, KeptMessages
  <2>. QED
    BY <2>1, KeptMessages
<1>9. journal' \in {Stage(journal, ms), Flush(Stage(journal, ms))}
  BY Zenon DEF AssistantStep
<1>10. conversation' = conversation \o first
  <2>1. conversation' = Append(conversation, Assistant(batch'.calls))
    <3>1. PICK calls \in 0..MaxCalls, kind \in Modes :
            /\ conversation' = Append(conversation, Assistant(calls))
            /\ batch' = BeginBatch(calls, kind, Aborted \/ toolInterruptRequested)
      BY Zenon DEF AssistantStep, StreamDone
    <3>2. calls \in Nat
      BY BoundsAreNaturals
    <3>3. (Aborted \/ toolInterruptRequested) \in BOOLEAN
      BY Zenon
    <3>4. batch'.calls = calls
      BY <3>1, <3>2, <3>3, BeginBatchInv
    <3>. QED
      BY <3>1, <3>4
  <2>2. Assistant(batch'.calls) \in Message
    BY <1>7, MessagesTyped
  <2>. QED
    BY <1>1, <2>1, <2>2
<1>. HIDE DEF first, rest
<1>11. conversation' \o rest = conversation \o ms
  BY <1>1, <1>8, <1>10
<1>. HIDE DEF ms
<1>12. Takes(journal, ms, journal')
  BY <1>1, <1>4, <1>8, <1>9, StageTakes
<1>13. /\ Upcoming(journal')[2] = Upcoming(journal)[2]
       /\ Found(conversation, Upcoming(journal)[1])
            => Found(conversation \o ms, Upcoming(journal')[1])
  BY <1>1, <1>8, <1>12, TakesFound
<1>14. 1 \notin overflowed' =>
         Found(conversation' \o Results(batch'.executions), Upcoming(journal')[1])
  BY <1>2, <1>5, <1>11, <1>13 DEF rest
<1>15. overflowed' = {} => Agree(SummaryAfter(requestSummary)', Upcoming(journal')[2])
                           /\ AllMessages(journal'.staged)
  BY <1>2, <1>6, <1>12, <1>13 DEF SummaryAfter, Takes
<1>16. Straight(journal')
  BY <1>12 DEF Takes
<1>. QED
  BY <1>2, <1>3, <1>14, <1>15, <1>16, RunWaitsOn

\* The results of a batch that goes on are those it had and the new ones.
LEMMA ResultsGoOn ==
  ASSUME NEW s \in Seq(Nat), NEW t \in Seq(Nat), Len(s) <= Len(t),
         \A i \in 1..Len(s) : s[i] = i, \A i \in 1..Len(t) : t[i] = i,
         NEW new, new = SubSeq(t, Len(s) + 1, Len(t))
  PROVE  new \in Seq(Nat) /\ Results(t) = Results(s) \o Results(new)
<1>. DEFINE x == Len(s)
            y == Len(t)
            a == Results(s)
            b == Results(new)
            c == Results(t)
<1>1. x \in Nat /\ y \in Nat /\ x <= y
  OBVIOUS
<1>2. /\ new \in Seq(Nat) /\ Len(new) = y - x
      /\ \A i \in 1..(y - x) : x + i \in 1..y /\ new[i] = t[x + i]
  BY <1>1, TailIs
<1>3. /\ a \in Seq(Message) /\ b \in Seq(Message) /\ c \in Seq(Message)
  BY <1>2, MessagesTyped
<1>4. /\ Len(a) = x /\ \A i \in 1..x : a[i] = Result(i)
      /\ Len(c) = y /\ \A i \in 1..y : c[i] = Result(i)
      /\ Len(b) = y - x /\ \A i \in 1..(y - x) : b[i] = Result(x + i)
  <2>1. Len(a) = x /\ \A i \in 1..x : a[i] = Result(i)
    BY <1>1 DEF Results
  <2>2. Len(c) = y /\ \A i \in 1..y : c[i] = Result(i)
    BY <1>1 DEF Results
  <2>3. Len(b) = y - x /\ \A i \in 1..(y - x) : b[i] = Result(new[i])
    BY <1>1, <1>2 DEF Results
  <2>4. \A i \in 1..(y - x) : new[i] = x + i
    BY <1>1, <1>2
  <2>. QED
    BY <2>1, <2>2, <2>3, <2>4
<1>. HIDE DEF a, b, c, x, y
<1>5. /\ a \o b \in Seq(Message) /\ Len(a \o b) = Len(a) + Len(b)
      /\ \A k \in 1..(Len(a) + Len(b)) :
           (a \o b)[k] = IF k <= Len(a) THEN a[k] ELSE b[k - Len(a)]
  BY <1>3, ConcatProperties, Zenon
<1>6. Len(a \o b) = Len(c)
  BY <1>1, <1>4, <1>5
<1>7. ASSUME NEW k \in 1..Len(c) PROVE (a \o b)[k] = c[k]
  <2>1. k \in 1..y /\ k \in 1..(Len(a) + Len(b))
    BY <1>1, <1>4
  <2>2. CASE k <= x
    BY <1>1, <1>4, <1>5, <2>1, <2>2
  <2>3. CASE ~(k <= x)
    <3>1. k - x \in 1..(y - x) /\ x + (k - x) = k
      BY <1>1, <2>1, <2>3
    <3>2. (a \o b)[k] = b[k - x]
      BY <1>4, <1>5, <2>1, <2>3
    <3>. QED
      BY <1>4, <2>1, <3>1, <3>2
  <2>. QED
    BY <2>2, <2>3
<1>8. a \o b = c
  BY <1>3, <1>5, <1>6, <1>7, SeqEqual
<1>. QED
  BY <1>2, <1>8 DEF a, b, c

\* A tool settles.
LEMMA ToolKept ==
  SessionInv /\ LoopIsRun /\ DueInv /\ RunInv /\ ToolStep => RunInv'
<1>. SUFFICES ASSUME SessionInv, LoopIsRun, DueInv, RunInv, ToolStep PROVE RunInv'
  OBVIOUS
<1>1. /\ TypeOK /\ JournalOK(journal) /\ conversation \in Seq(Message)
      /\ batch \in Batches
  BY DEF SessionInv, TypeOK
<1>2. /\ pc = "tools" /\ pc' = "tools"
      /\ UNCHANGED <<conversation, compactionSummary, requestSummary, overflowed>>
      /\ UNCHANGED phase
  BY DEF ToolStep, ToolSettles, CallSettles, hostVars, summaryVars
<1>3. job = "run" /\ phase' = "running" /\ BatchInv(batch)
  BY <1>2 DEF LoopIsRun, DueInv
<1>4. Straight(journal)
  BY <1>3 DEF RunInv, StagedInv
<1>. DEFINE s == batch.executions
            t == batch'.executions
            new == SubSeq(t, Len(s) + 1, Len(t))
            old == conversation \o Results(s)
<1>5. ASSUME 1 \notin overflowed PROVE Found(old, Upcoming(journal)[1])
  BY <1>2, <1>5 DEF RunInv, MemoryInv
<1>6. ASSUME overflowed = {}
      PROVE  /\ Agree(SummaryAfter(requestSummary), Upcoming(journal)[2])
             /\ AllMessages(journal.staged)
  BY <1>2, <1>6 DEF RunInv, SummaryInv
<1>7. /\ s \in Seq(Nat) /\ t \in Seq(Nat) /\ Len(s) <= Len(t)
      /\ \A i \in 1..Len(s) : s[i] = i
      /\ \A i \in 1..Len(t) : t[i] = i
  <2>1. PICK k \in 1..batch.calls, abort \in BOOLEAN, endTurn \in BOOLEAN :
          /\ InFlight(batch, k)
          /\ batch' = Settle(batch, k, endTurn, BatchSignal \/ abort)
    BY Zenon DEF ToolStep, ToolSettles, CallSettles
  <2>2. (BatchSignal \/ abort) \in BOOLEAN
    BY Zenon
  <2>3. BatchInv(batch') /\ Len(s) <= Len(t)
    BY <1>1, <1>3, <2>1, <2>2, SettleGrows
  <2>4. k \in Nat
    BY <1>1 DEF Batches
  <2>5. batch' \in Batches
    BY <1>1, <2>1, <2>2, <2>4, SettleTyped
  <2>. QED
    BY <1>1, <1>3, <2>3, <2>5 DEF BatchInv, InCallOrder, Batches
<1>8. journal' = IF new = <<>> THEN journal ELSE Flush(Stage(journal, Results(new)))
  BY Zenon DEF ToolStep
<1>9. old \in Seq(Message) /\ Results(s) \in Seq(Message)
  BY <1>1, <1>7, MessagesTyped
<1>. HIDE DEF s, t, new
<1>10. new \in Seq(Nat) /\ Results(t) = Results(s) \o Results(new)
  BY <1>7, ResultsGoOn DEF new
<1>11. Results(new) \in Seq(Kept) /\ Results(new) \in Seq(Message)
  BY <1>10, KeptMessages, MessagesTyped
<1>12. conversation' \o Results(t) = old \o Results(new)
  BY <1>1, <1>2, <1>9, <1>10, <1>11
<1>. HIDE DEF old
<1>13. CASE new = <<>>
  <2>1. Results(new) = <<>>
    BY <1>13 DEF Results
  <2>2. old \o Results(new) = old
    BY <1>9, <2>1
  <2>3. 1 \notin overflowed' =>
          Found(conversation' \o Results(batch'.executions), Upcoming(journal')[1])
    BY <1>2, <1>5, <1>8, <1>12, <1>13, <2>2 DEF t
  <2>4. overflowed' = {} => Agree(SummaryAfter(requestSummary)', Upcoming(journal')[2])
                            /\ AllMessages(journal'.staged)
    BY <1>2, <1>6, <1>8, <1>13 DEF SummaryAfter
  <2>5. Straight(journal')
    BY <1>4, <1>8, <1>13
  <2>. QED
    BY <1>2, <1>3, <2>3, <2>4, <2>5, RunWaitsOn
<1>14. CASE new # <<>>
  <2>1. Takes(journal, Results(new), journal')
    <3>1. journal' \in {Stage(journal, Results(new)), Flush(Stage(journal, Results(new)))}
      BY <1>8, <1>14
    <3>. QED
      BY <1>1, <1>4, <1>11, <3>1, StageTakes
  <2>2. /\ Upcoming(journal')[2] = Upcoming(journal)[2]
        /\ Found(old, Upcoming(journal)[1])
             => Found(old \o Results(new), Upcoming(journal')[1])
    BY <1>1, <1>9, <1>11, <2>1, TakesFound
  <2>3. 1 \notin overflowed' =>
          Found(conversation' \o Results(batch'.executions), Upcoming(journal')[1])
    BY <1>2, <1>5, <1>12, <2>2 DEF t
  <2>4. overflowed' = {} => Agree(SummaryAfter(requestSummary)', Upcoming(journal')[2])
                            /\ AllMessages(journal'.staged)
    BY <1>2, <1>6, <2>1, <2>2 DEF SummaryAfter, Takes
  <2>5. Straight(journal')
    BY <2>1 DEF Takes
  <2>. QED
    BY <1>2, <1>3, <2>3, <2>4, <2>5, RunWaitsOn
<1>. QED
  BY <1>13, <1>14

\* k restores what journal j does, now and once the same staged entries are committed.
Same(j, k) ==
  Restored(k) = Restored(j) /\ Upcoming(k) = Upcoming(j) /\ k.staged = j.staged

\* Then what is staged is the same to it.
LEMMA SameStays ==
  ASSUME NEW j, NEW k, Same(j, k)
  PROVE  /\ Straight(j) => Straight(k)
         /\ \A r : Prompted(j, r) => Prompted(k, r)
BY DEF Same, Straight, Prompted

\* What the invariant is about, the journal excepted.
aboutVars == <<job, phase, run, pc, overflowed, initializedAgent, messages, conversation,
               batch, summaryVars>>

\* A step that leaves all that, and leaves the journal or adds a remark to it.
LEMMA RunUnmoved ==
  ASSUME RunInv, UNCHANGED aboutVars, Same(journal, journal') PROVE RunInv'
<1>1. /\ UNCHANGED <<job, phase, run, pc, overflowed, initializedAgent>>
      /\ UNCHANGED <<messages, conversation, batch, compactionSummary, requestSummary>>
  BY DEF aboutVars, summaryVars
<1>2. /\ Straight(journal) => Straight(journal')
      /\ \A r : Prompted(journal, r) => Prompted(journal', r)
  BY SameStays
<1>3. StagedInv'
  BY <1>1, <1>2 DEF RunInv, StagedInv
<1>4. MemoryInv'
  BY <1>1 DEF RunInv, MemoryInv, Same
<1>5. SummaryInv'
  BY <1>1 DEF RunInv, SummaryInv, Same, SummaryAfter
<1>. QED
  BY <1>3, <1>4, <1>5 DEF RunInv

\* No job has its agent run, or a compaction has.
LEMMA RunRests ==
  ASSUME pc' \in {"idle", "manual"}, job' = "run" => Straight(journal'),
         job' = "run" /\ phase' \in {"building", "refreshing", "ready"}
           => Prompted(journal', run' + 1),
         1 \notin overflowed' /\ initializedAgent' # 0
           => Found(messages', Restored(journal')[1]),
         overflowed' = {} /\ initializedAgent' # 0
           => Agree(compactionSummary', Restored(journal')[2])
  PROVE  RunInv'
<1>1. pc' \notin {"prompt", "tools"}
  OBVIOUS
<1>2. StagedInv'
  BY <1>1, Zenon DEF StagedInv
<1>3. MemoryInv'
  BY <1>1, Zenon DEF MemoryInv
<1>4. SummaryInv'
  BY Zenon DEF SummaryInv
<1>. QED
  BY <1>2, <1>3, <1>4 DEF RunInv

\* What emits nothing the journal keeps.
LEMMA QuietKept ==
  SessionInv /\ LoopIsRun /\ RunInv /\ QuietStep => RunInv'
<1>. SUFFICES ASSUME SessionInv, LoopIsRun, RunInv, QuietStep PROVE RunInv'
  OBVIOUS
<1>1. /\ TypeOK /\ JournalOK(journal) /\ conversation \in Seq(Message)
      /\ batch \in Batches
  BY DEF SessionInv, TypeOK
<1>2. /\ UNCHANGED <<job, phase, initializedAgent, journal, overflowed>>
      /\ UNCHANGED <<compactionSummary, requestSummary>>
  BY DEF QuietStep, sessionVars, hostVars, summaryVars
<1>3. CASE SteerAgent \/ CancelPending \/ InterruptTools \/ UserAbort \/ WorkSettles
  <2>1. UNCHANGED <<run, pc, messages, conversation, batch>>
    BY <1>3 DEF SteerAgent, CancelPending, InterruptTools, UserAbort, WorkSettles,
                loopVars, agentVars, historyVars
  <2>2. UNCHANGED aboutVars /\ Same(journal, journal')
    BY <1>2, <2>1 DEF aboutVars, summaryVars, Same
  <2>. QED
    BY <2>2, RunUnmoved
<1>4. ASSUME pc \in {"stream", "restream", "tools"}
      PROVE  /\ phase' = "running" /\ Straight(journal')
             /\ overflowed' = {}
                  => /\ Agree(SummaryAfter(requestSummary)', Upcoming(journal')[2])
                     /\ AllMessages(journal'.staged)
  <2>1. job = "run" /\ phase = "running"
    BY <1>4 DEF LoopIsRun
  <2>2. Straight(journal)
    BY <2>1 DEF RunInv, StagedInv
  <2>3. overflowed = {} => /\ Agree(SummaryAfter(requestSummary), Upcoming(journal)[2])
                           /\ AllMessages(journal.staged)
    BY <1>4 DEF RunInv, SummaryInv
  <2>. QED
    BY <1>2, <2>1, <2>2, <2>3 DEF SummaryAfter
<1>5. CASE StreamFails \/ StreamOverflows
  <2>1. /\ pc \in {"stream", "restream"} /\ pc' \in {"closing", "overflow"}
        /\ UNCHANGED conversation
    BY <1>5 DEF StreamFails, StreamOverflows, Throw
  <2>2. 1 \notin overflowed' => Found(conversation', Upcoming(journal')[1])
    BY <1>2, <2>1 DEF RunInv, MemoryInv
  <2>. QED
    BY <1>4, <2>1, <2>2, RunGoesOn
<1>6. CASE EndToolBatch
  <2>1. pc = "tools" /\ pc' \in {"closing", "compact"}
    BY <1>6 DEF EndToolBatch, LeaveLoop
  <2>. DEFINE old == conversation \o Results(batch.executions)
              u == Upcoming(journal)[1]
  <2>2. PICK warning \in Warnings : conversation' = old \o warning
    BY <1>6, Zenon DEF EndToolBatch, LeaveLoop
  <2>3. 1 \notin overflowed => Found(old, u)
    BY <2>1 DEF RunInv, MemoryInv
  <2>4. /\ old \in Seq(Message) /\ u \in Seq(Message)
        /\ warning \in Seq(Message) /\ << >> \in Seq(Message)
    <3>1. batch.executions \in Seq(Nat)
      BY <1>1 DEF Batches
    <3>2. Results(batch.executions) \in Seq(Message)
      BY <3>1, MessagesTyped
    <3>3. u \in Seq(Message)
      BY <1>1, RestoredTyped DEF Views
    <3>4. warning \in Seq(Message)
      BY MessagesTyped
    <3>5. << >> \in Seq(Message)
      OBVIOUS
    <3>. QED
      BY <1>1, <3>2, <3>3, <3>4, <3>5
  <2>. HIDE DEF old, u
  <2>5. Found(warning, <<>>)
    BY WarningsAreFound
  <2>6. Found(old, u) => Found(old \o warning, u \o <<>>)
    BY <2>4, <2>5, FoundOneByOne
  <2>7. u \o <<>> = u
    BY <2>4
  <2>8. 1 \notin overflowed' => Found(conversation', Upcoming(journal')[1])
    BY <1>2, <2>2, <2>3, <2>6, <2>7 DEF u
  <2>. QED
    BY <1>4, <2>1, <2>8, RunGoesOn
<1>. QED
  BY <1>3, <1>5, <1>6 DEF QuietStep

\* What is restored, in the terms of the context a resume is given.
LEMMA ContextIs ==
  ASSUME NEW j, JournalOK(j)
  PROVE  /\ ContextMessages(j.entries) = Restored(j)[1]
         /\ Agree(ContextSummary(j.entries), Restored(j)[2])
         /\ ~CompactedLocally(j.entries) => Restored(j)[2] # -1
<1>. DEFINE es == j.entries
            path == PathFrom(es, LeafId(es))
            c == LastOf(path, {"compaction"})
<1>1. es \in Seq(Entries) /\ GrowsOn(es, {0})
  BY JournalParts, Zenon
<1>2. Path(es) = path
  BY DEF Path
<1>3. ContextMessages(es) = Recalled(path)
  BY <1>1, <1>2, RecalledIs
<1>4. path \in Seq(Entries) /\ Len(path) \in Nat
  <2>1. path \in Seq(Members(es))
    BY <1>1, Paths
  <2>2. Members(es) \subseteq Entries
    BY <1>1 DEF Members
  <2>. QED
    BY <2>1, <2>2
<1>5. Restored(j) = <<Recalled(path), StampOf(path)>>
  BY DEF Restored, View
<1>. HIDE DEF path
<1>6. c \in 0..Len(path)
  BY <1>4, LastOfIs
<1>7. c # 0 => path[c].id \in Nat
  <2>1. c # 0 => c \in 1..Len(path)
    BY <1>4, <1>6
  <2>2. \A e \in Entries : e.id \in Nat
    BY DEF Entries
  <2>. QED
    BY <1>4, <2>1, <2>2
<1>8. /\ ContextSummary(es) = IF c # 0 /\ path[c].n = 1 THEN path[c].id ELSE 0
      /\ CompactedLocally(es) = (c # 0 /\ path[c].n # 1)
  BY <1>2 DEF ContextSummary, CompactedLocally
<1>9. StampOf(path) = IF c = 0 THEN 0 ELSE IF path[c].n = 1 THEN path[c].id ELSE -1
  BY DEF StampOf, Brings
<1>. HIDE DEF c
<1>10. Agree(ContextSummary(es), StampOf(path))
  BY <1>8, <1>9 DEF Agree
<1>11. ~CompactedLocally(es) => StampOf(path) # -1
  <2>1. ASSUME ~CompactedLocally(es) PROVE StampOf(path) \in Nat
    <3>1. ~(c # 0 /\ path[c].n # 1)
      BY <1>8, <2>1, Zenon
    <3>. QED
      BY <1>7, <1>9, <3>1
  <2>2. \A n \in Nat : n # -1
    OBVIOUS
  <2>. QED
    BY <2>1, <2>2
<1>. QED
  BY <1>3, <1>5, <1>10, <1>11

\* A run is over: what it staged is committed, and what it remembers is kept, unless it
\* failed.
LEMMA FinishRunKept ==
  SessionInv /\ LoopIsRun /\ RunInv /\ FinishRunStep => RunInv'
<1>. SUFFICES ASSUME SessionInv, LoopIsRun, RunInv, FinishRunStep PROVE RunInv'
  OBVIOUS
<1>1. JournalOK(journal)
  BY DEF SessionInv
<1>2. /\ pc = "closing" /\ pc' = "idle" /\ phase' \in {"flushing", "aborted"}
      /\ UNCHANGED overflowed
  BY DEF FinishRunStep, FinishRun
<1>3. Straight(journal)
  BY <1>2 DEF RunInv, StagedInv, LoopIsRun
<1>. DEFINE f == Flush(journal)
<1>4. Settles(journal, f)
  BY <1>1, <1>3, FlushSettles
<1>5. /\ JournalOK(f) /\ Straight(f) /\ f.staged = <<>> /\ Upcoming(f) = Restored(f)
      /\ Restored(f) = Upcoming(journal)
  BY <1>4 DEF Settles
<1>6. phase' \notin {"building", "refreshing", "ready"} /\ pc' \in {"idle", "manual"}
  BY <1>2
<1>7. CASE stopReason' = "failed"
  <2>1. journal' = AppendCommitted(f, "error", 0) /\ initializedAgent' = 0
    BY <1>7 DEF FinishRunStep
  <2>. HIDE DEF f
  <2>2. Gets(f, journal', Restored(f))
    <3>1. "error" \in EntryRoles /\ "error" \in Remarks /\ 0 \in Nat
      BY DEF EntryRoles, Remarks
    <3>. QED
      BY <1>5, <2>1, <3>1, AppendGets
  <2>3. Same(f, journal')
    BY <2>2 DEF Gets, Same
  <2>4. Straight(journal')
    BY <1>5, <2>3, SameStays
  <2>. QED
    BY <1>6, <2>1, <2>4, RunRests
<1>8. CASE stopReason' # "failed"
  <2>1. /\ journal' = f /\ compactionSummary' = SummaryAfter(requestSummary)
        /\ messages' = conversation
    BY <1>8 DEF FinishRunStep, FinishRun
  <2>2. 1 \notin overflowed' => Found(messages', Restored(journal')[1])
    BY <1>2, <1>5, <2>1 DEF RunInv, MemoryInv
  <2>3. overflowed' = {} => Agree(compactionSummary', Restored(journal')[2])
    BY <1>2, <1>5, <2>1 DEF RunInv, SummaryInv
  <2>. HIDE DEF f
  <2>4. Straight(journal')
    BY <1>5, <2>1
  <2>. QED
    BY <1>6, <2>2, <2>3, <2>4, RunRests
<1>. QED
  BY <1>7, <1>8

\* A manual compaction is over.
LEMMA FinishCompactionKept ==
  SessionInv /\ JobHasAgent /\ RunInv /\ FinishCompactionStep => RunInv'
<1>. SUFFICES ASSUME SessionInv, JobHasAgent, RunInv, FinishCompactionStep
              PROVE  RunInv'
  OBVIOUS
<1>1. JournalOK(journal)
  BY DEF SessionInv
<1>2. /\ pc = "manual" /\ pc' = "idle"
      /\ UNCHANGED <<overflowed, initializedAgent, job>>
  BY DEF FinishCompactionStep, EndManualCompaction
<1>3. job' # "run"
  BY <1>2 DEF JobHasAgent
<1>4. CASE UNCHANGED <<messages, journal, compactionSummary>>
  <2>1. 1 \notin overflowed' /\ initializedAgent' # 0
          => Found(messages', Restored(journal')[1])
    BY <1>2, <1>4 DEF RunInv, MemoryInv
  <2>2. overflowed' = {} /\ initializedAgent' # 0
          => Agree(compactionSummary', Restored(journal')[2])
    BY <1>2, <1>4 DEF RunInv, SummaryInv
  <2>. QED
    BY <1>2, <1>3, <2>1, <2>2, RunRests
<1>5. ASSUME messages' = <<Summary>>, NEW native \in CompactionKinds,
             journal' = AppendCommitted(journal, "compaction", native),
             compactionSummary' = SummaryOf(native)
      PROVE  RunInv'
  <2>1. "compaction" \in EntryRoles /\ native \in Nat /\ journal.nextId \in Nat
    <3>1. native \in Nat
      BY SessionBoundsAreNaturals
    <3>2. journal.nextId \in Nat
      BY <1>1, JournalParts, Zenon
    <3>. QED
      BY <3>1, <3>2 DEF EntryRoles
  <2>. DEFINE stamp == IF native = 1 THEN journal.nextId ELSE -1
  <2>2. Gets(journal, journal', <<<<Checkpoint>>, stamp>>)
    BY <1>1, <1>5, <2>1, AppendGets
  <2>3. Restored(journal')[1] = <<Checkpoint>> /\ Restored(journal')[2] = stamp
    BY <2>2 DEF Gets
  <2>4. Found(messages', Restored(journal')[1])
    <3>1. <<Checkpoint>> = <<Summary>> /\ <<Summary>> \in Seq(Message)
      BY MessagesTyped DEF Checkpoint, Summary
    <3>. QED
      BY <1>5, <2>3, <3>1, FoundInItself
  <2>5. Agree(compactionSummary', Restored(journal')[2])
    BY <1>5, <2>3 DEF Agree, SummaryOf
  <2>. QED
    BY <1>2, <1>3, <2>4, <2>5, RunRests
<1>. QED
  BY <1>4, <1>5, Zenon DEF FinishCompactionStep

\* A setting is changed, whoever has the thread.
LEMMA SettingKept ==
  SessionInv /\ SessionInv' /\ RunInv /\ (ModeSet \/ EffortSet) => RunInv'
<1>. SUFFICES ASSUME SessionInv, SessionInv', RunInv, ModeSet \/ EffortSet PROVE RunInv'
  OBVIOUS
<1>1. JournalOK(journal) /\ settings' \in Nat
  BY DEF SessionInv, HostOK
<1>2. PICK role \in {"mode", "effort"} : journal' = AppendCommitted(journal, role, settings')
  BY Zenon DEF ModeSet, EffortSet, ChangeSetting
<1>3. role \in EntryRoles /\ role \in Remarks
  BY DEF EntryRoles, Remarks
<1>4. Gets(journal, journal', Restored(journal))
  BY <1>1, <1>2, <1>3, AppendGets
<1>5. Same(journal, journal')
  BY <1>4 DEF Gets, Same
<1>6. UNCHANGED aboutVars
  BY DEF ModeSet, EffortSet, ChangeSetting, aboutVars, vars, agentVars, loopVars,
         historyVars
<1>. QED
  BY <1>5, <1>6, RunUnmoved

\* A run is prepared: its prompt is staged.
LEMMA PrepareRunKept ==
  SessionInv /\ LoopIsRun /\ DueInv /\ RunInv /\ PrepareRun => RunInv'
<1>. SUFFICES ASSUME SessionInv, LoopIsRun, DueInv, RunInv, PrepareRun PROVE RunInv'
  OBVIOUS
<1>1. JournalOK(journal) /\ run \in Nat
  BY DEF SessionInv, TypeOK
<1>2. /\ job = "none" /\ journal' = NewTurn(Repair(journal), Prompt(run + 1))
      /\ UNCHANGED <<pc, run, messages, initializedAgent, overflowed, compactionSummary>>
  BY DEF PrepareRun, vars, agentVars, loopVars, historyVars, summaryVars
<1>3. pc \in {"idle", "manual"} /\ Quiet(journal)
  BY <1>2 DEF LoopIsRun, DueInv
<1>4. Repair(journal) = journal
  BY <1>1, <1>3, RepairNothing DEF Quiet
<1>5. run + 1 \in Nat
  BY <1>1
<1>6. Begun(journal, run + 1, journal')
  BY <1>1, <1>2, <1>4, <1>5, NewTurnBegins
<1>7. Prompted(journal', run + 1) /\ Restored(journal') = Restored(journal)
  BY <1>6 DEF Begun
<1>8. Straight(journal')
  BY <1>7 DEF Prompted
<1>9. 1 \notin overflowed' /\ initializedAgent' # 0
        => Found(messages', Restored(journal')[1])
  BY <1>2, <1>3, <1>7 DEF RunInv, MemoryInv
<1>10. overflowed' = {} /\ initializedAgent' # 0
         => Agree(compactionSummary', Restored(journal')[2])
  BY <1>2, <1>3, <1>7 DEF RunInv, SummaryInv
<1>. QED
  BY <1>2, <1>3, <1>7, <1>8, <1>9, <1>10, RunRests

\* The agent is there, with what the log restores when it is not the one that had the
\* last run.
LEMMA AttachKept ==
  SessionInv /\ LoopIsRun /\ JobHasAgent /\ RunInv /\ AttachAgent => RunInv'
<1>. SUFFICES ASSUME SessionInv, LoopIsRun, JobHasAgent, RunInv, AttachAgent
              PROVE  RunInv'
  OBVIOUS
<1>1. JournalOK(journal)
  BY DEF SessionInv
<1>2. /\ job = "run" /\ phase \in {"building", "refreshing"} /\ phase' = "ready"
      /\ initializedAgent' = resolving
      /\ UNCHANGED <<job, pc, run, journal>>
  BY DEF AttachAgent, Resolved, loopVars, historyVars
<1>3. pc \in {"idle", "manual"}
  BY <1>2 DEF LoopIsRun
<1>4. Straight(journal') /\ Prompted(journal', run' + 1)
  BY <1>2 DEF RunInv, StagedInv
<1>5. pc' \in {"idle", "manual"}
  BY <1>2, <1>3
<1>6. CASE resolving # initializedAgent
  <2>1. Restore
    BY <1>6 DEF AttachAgent
  <2>2. /\ messages' = ContextMessages(journal.entries) /\ overflowed' = {}
        /\ compactionSummary' = ContextSummary(journal.entries)
    BY <2>1 DEF Restore
  <2>3. messages' = Restored(journal')[1] /\ Restored(journal')[1] \in Seq(Message)
    BY <1>1, <1>2, <2>2, ContextIs, RestoredTyped DEF Views
  <2>4. Found(messages', Restored(journal')[1])
    BY <2>3, FoundInItself
  <2>5. Agree(compactionSummary', Restored(journal')[2])
    BY <1>1, <1>2, <2>2, ContextIs
  <2>. QED
    BY <1>4, <1>5, <2>4, <2>5, RunRests
<1>7. CASE resolving = initializedAgent
  <2>1. UNCHANGED <<messages, compactionSummary, overflowed, initializedAgent>>
    BY <1>2, <1>7 DEF AttachAgent
  <2>2. 1 \notin overflowed' /\ initializedAgent' # 0
          => Found(messages', Restored(journal')[1])
    BY <1>2, <1>3, <2>1 DEF RunInv, MemoryInv
  <2>3. overflowed' = {} /\ initializedAgent' # 0
          => Agree(compactionSummary', Restored(journal')[2])
    BY <1>2, <1>3, <2>1 DEF RunInv, SummaryInv
  <2>. QED
    BY <1>4, <1>5, <2>2, <2>3, RunRests
<1>. QED
  BY <1>6, <1>7

\* Before a manual compaction the agent always gets what the log restores.
LEMMA RestoreKept ==
  SessionInv /\ LoopIsRun /\ RunInv /\ RestoreForCompaction => RunInv'
<1>. SUFFICES ASSUME SessionInv, LoopIsRun, RunInv, RestoreForCompaction PROVE RunInv'
  OBVIOUS
<1>1. JournalOK(journal)
  BY DEF SessionInv
<1>2. /\ job = "compact" /\ phase \in {"building", "refreshing"} /\ Restore
      /\ UNCHANGED <<job, pc, journal>>
  BY DEF RestoreForCompaction, Resolved, loopVars
<1>3. pc' \in {"idle", "manual"} /\ job' # "run"
  BY <1>2 DEF LoopIsRun
<1>4. /\ messages' = ContextMessages(journal.entries)
      /\ compactionSummary' = ContextSummary(journal.entries)
  BY <1>2 DEF Restore
<1>5. messages' = Restored(journal')[1] /\ Restored(journal')[1] \in Seq(Message)
  BY <1>1, <1>2, <1>4, ContextIs, RestoredTyped DEF Views
<1>6. Found(messages', Restored(journal')[1])
  BY <1>5, FoundInItself
<1>7. Agree(compactionSummary', Restored(journal')[2])
  BY <1>1, <1>2, <1>4, ContextIs
<1>. QED
  BY <1>3, <1>6, <1>7, RunRests

\* The agent is prompted: the run goes by what the agent remembers.
LEMMA StartAgentKept ==
  SessionInv /\ JobHasAgent /\ RunInv /\ StartAgent => RunInv'
<1>. SUFFICES ASSUME SessionInv, JobHasAgent, RunInv, StartAgent PROVE RunInv'
  OBVIOUS
<1>1. /\ job = "run" /\ phase = "ready" /\ phase' = "running"
      /\ pc = "idle" /\ pc' = "prompt" /\ run' = run + 1
      /\ conversation' = messages /\ requestSummary' = compactionSummary
      /\ UNCHANGED <<journal, overflowed, compactionSummary>>
  BY DEF StartAgent, PromptAgent
<1>2. initializedAgent # 0
  BY <1>1 DEF JobHasAgent
<1>3. Prompted(journal', run')
  BY <1>1 DEF RunInv, StagedInv
<1>4. /\ Straight(journal') /\ AllMessages(journal'.staged)
      /\ Upcoming(journal') = Further(Restored(journal'), <<Prompt(run')>>)
  BY <1>3 DEF Prompted
<1>5. Upcoming(journal')[2] = Restored(journal')[2]
  BY <1>4 DEF Further
<1>6. StagedInv'
  BY <1>1, <1>3, <1>4 DEF StagedInv
<1>7. 1 \notin overflowed' => Found(conversation', Restored(journal')[1])
  BY <1>1, <1>2 DEF RunInv, MemoryInv
<1>8. MemoryInv'
  BY <1>1, <1>7 DEF MemoryInv
<1>9. overflowed' = {} => Agree(compactionSummary, Restored(journal')[2])
  BY <1>1, <1>2 DEF RunInv, SummaryInv
<1>10. SummaryAfter(requestSummary)' = compactionSummary
  BY <1>1 DEF SummaryAfter
<1>11. SummaryInv'
  BY <1>1, <1>4, <1>5, <1>9, <1>10 DEF SummaryInv
<1>. QED
  BY <1>6, <1>8, <1>11 DEF RunInv

\* What the agent remembers, the log restores, and every step keeps it so.
LEMMA RunInductive ==
  SessionInv /\ LoopIsRun /\ DueInv /\ JobHasAgent /\ RunInv /\ [SessionNext]_allVars
    => RunInv'
<1>. SUFFICES ASSUME SessionInv, LoopIsRun, DueInv, JobHasAgent, RunInv,
                     [SessionNext]_allVars
              PROVE  RunInv'
  OBVIOUS
<1>1. CASE \/ FirstTurnStep \/ NextTurnStep \/ OverflowStep \/ AssistantStep \/ ToolStep
           \/ QuietStep
  BY <1>1, FirstTurnKept, NextTurnKept, OverflowKept, AssistantKept, ToolKept, QuietKept
<1>2. CASE FinishRunStep \/ FinishCompactionStep
  BY <1>2, FinishRunKept, FinishCompactionKept
<1>3. CASE ModeSet \/ EffortSet
  <2>1. SessionInv'
    BY SessionInductive
  <2>. QED
    BY <1>3, <2>1, SettingKept
<1>4. CASE PrepareRun \/ AttachAgent \/ RestoreForCompaction \/ StartAgent
  BY <1>4, PrepareRunKept, AttachKept, RestoreKept, StartAgentKept
<1>5. CASE UNCHANGED allVars
  <2>1. UNCHANGED aboutVars /\ Same(journal, journal')
    BY <1>5 DEF allVars, sessionVars, hostVars, vars, agentVars, loopVars, historyVars,
                aboutVars, Same
  <2>. QED
    BY <2>1, RunUnmoved
<1>6. CASE CrashAndResume
  <2>1. job' = "resume" /\ pc' = "idle" /\ initializedAgent' = 0
    BY <1>6 DEF CrashAndResume
  <2>2. pc' \in {"idle", "manual"} /\ job' # "run"
    BY <2>1
  <2>. QED
    BY <2>1, <2>2, RunRests
<1>7. CASE ResolveFails \/ JobReturns \/ PrepareCompaction \/ StartCompaction
  <2>1. /\ job' # "run" /\ pc \in {"idle", "manual"} /\ pc' \in {"idle", "manual"}
        /\ UNCHANGED <<messages, journal, initializedAgent, overflowed>>
        /\ UNCHANGED compactionSummary
    <3>1. CASE ResolveFails \/ JobReturns \/ PrepareCompaction
      BY <3>1 DEF ResolveFails, JobReturns, PrepareCompaction, LoopIsRun, vars, agentVars,
                  loopVars, summaryVars
    <3>2. CASE StartCompaction
      BY <3>2 DEF StartCompaction, StartManualCompaction, agentVars, summaryVars
    <3>. QED
      BY <1>7, <3>1, <3>2
  <2>2. 1 \notin overflowed' /\ initializedAgent' # 0
          => Found(messages', Restored(journal')[1])
    BY <2>1 DEF RunInv, MemoryInv
  <2>3. overflowed' = {} /\ initializedAgent' # 0
          => Agree(compactionSummary', Restored(journal')[2])
    BY <2>1 DEF RunInv, SummaryInv
  <2>. QED
    BY <2>1, <2>2, <2>3, RunRests
<1>. QED
  BY <1>1, <1>2, <1>3, <1>4, <1>5, <1>6, <1>7 DEF SessionNext

\* At first there is neither agent nor job.
LEMMA RunInitially == SessionInit => JobHasAgent /\ RunInv
<1>. SUFFICES ASSUME SessionInit PROVE JobHasAgent /\ RunInv
  OBVIOUS
<1>1. pc = "idle" /\ job = "none" /\ phase = "none" /\ initializedAgent = 0
  BY DEF SessionInit, Init
<1>2. JobHasAgent
  BY <1>1 DEF JobHasAgent
<1>3. StagedInv /\ MemoryInv /\ SummaryInv
  BY <1>1 DEF StagedInv, MemoryInv, SummaryInv
<1>. QED
  BY <1>2, <1>3 DEF RunInv

\* Between jobs an agent remembers nothing that a resume would not restore, and sends
\* the native summary that the log has: nothing a run adds to its conversation, compacts
\* or drops is missed by the log, except what the hypotheses of the property name.
THEOREM ContextKept == SessionSpec => []ContextIsKept
<1>. DEFINE KeptInv == SessionInv /\ LoopIsRun /\ DueInv /\ JobHasAgent /\ RunInv
<1>1. SessionInit => KeptInv
  BY SessionInvInitially, DueInitially, RunInitially
<1>2. KeptInv /\ [SessionNext]_allVars => KeptInv'
  BY SessionInductive, LoopIsRunInductive, DueInductive, JobHasAgentInductive, RunInductive
<1>3. KeptInv => ContextIsKept
  <2>. SUFFICES ASSUME SessionInv, LoopIsRun, RunInv, job = "none", initializedAgent # 0
                PROVE  /\ 1 \notin overflowed
                            => Embeds(messages, ContextMessages(journal.entries))
                       /\ overflowed = {} /\ ~CompactedLocally(journal.entries)
                            => compactionSummary = ContextSummary(journal.entries)
    BY Zenon DEF ContextIsKept, MemorySurvivesUnlessOverflow, MemorySurvivesResume,
                 SummaryAgreesUnlessOverflow
  <2>1. pc \in {"idle", "manual"} /\ JournalOK(journal) /\ messages \in Seq(Message)
    BY DEF LoopIsRun, SessionInv, TypeOK
  <2>2. /\ ContextMessages(journal.entries) = Restored(journal)[1]
        /\ Agree(ContextSummary(journal.entries), Restored(journal)[2])
        /\ ~CompactedLocally(journal.entries) => Restored(journal)[2] # -1
        /\ Restored(journal)[1] \in Seq(Message)
    BY <2>1, ContextIs, RestoredTyped DEF Views
  <2>3. ASSUME 1 \notin overflowed
        PROVE  Embeds(messages, ContextMessages(journal.entries))
    <3>1. Found(messages, Restored(journal)[1])
      BY <2>1, <2>3 DEF RunInv, MemoryInv
    <3>. QED
      BY <2>1, <2>2, <3>1, FoundEmbeds
  <2>4. ASSUME overflowed = {}, ~CompactedLocally(journal.entries)
        PROVE  compactionSummary = ContextSummary(journal.entries)
    <3>1. Agree(compactionSummary, Restored(journal)[2])
      BY <2>1, <2>4 DEF RunInv, SummaryInv
    <3>. QED
      BY <2>2, <2>4, <3>1 DEF Agree
  <2>. QED
    BY <2>3, <2>4
<1>. QED
  BY <1>1, <1>2, <1>3, PTL DEF SessionSpec
=============================================================================
