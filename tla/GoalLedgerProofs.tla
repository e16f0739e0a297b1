--------------------------- MODULE GoalLedgerProofs ---------------------------
(***************************************************************************)
(* The goal is as it was saved, and what was said to be saved survives the *)
(* process, for any number of goals, usage reports, requests, reads,       *)
(* failed appends and crashes.                                             *)
(*                                                                         *)
(* The invariant, LedgerInv, says what the queue leads to when nothing     *)
(* fails (Reaches), which request awaits which write (CallFits), and that  *)
(* the ledger replays to the store's copy (ReplayFits).                    *)
(***************************************************************************)
EXTENDS GoalLedger, FiniteSetTheorems, SequenceTheorems, WellFoundedInduction, TLAPS

\* A set of natural numbers that is not empty has a least element.
LEMMA LeastExists ==
  ASSUME NEW S, S \subseteq Nat, S # {}
  PROVE  \E m \in S : \A n \in S : m <= n
<1>. DEFINE R == {ss \in Nat \X Nat : ss[1] < ss[2]}
<1>1. IsWellFoundedOn(R, Nat)
  BY NatLessThanWellFounded DEF OpToRel
<1>. HIDE DEF R
<1>2. PICK m \in S : \A n \in S : <<n, m>> \notin R
  BY <1>1, WFMin
<1>3. \A n \in S : ~(n < m)
  BY <1>2 DEF R
<1>. QED
  BY <1>3

-----------------------------------------------------------------------------
\* Replay, one line at a time.

\* f is the recursive function by which the fold over n lines is defined.
IsReplay(f, s, n) ==
  f = [x \in SUBSET (1..n) |->
         IF x = {} THEN Blank ELSE Apply(f[x \ {Max(x)}], s[Max(x)])]

LEMMA MaxIs ==
  ASSUME NEW k \in Nat, NEW x \in SUBSET (1..(k + 1)), k + 1 \in x
  PROVE  Max(x) = k + 1 /\ x \ {k + 1} \in SUBSET (1..k)
<1>1. k + 1 \in x /\ \A y \in x : y \in Nat /\ k + 1 >= y
  OBVIOUS
<1>2. \A m \in x : (\A y \in x : m >= y) => m = k + 1
  BY <1>1
<1>3. (CHOOSE m \in x : \A y \in x : m >= y) = k + 1
  BY <1>1, <1>2
<1>4. 1..(k + 1) = 1..k \cup {k + 1}
  OBVIOUS
<1>. QED
  BY <1>3, <1>4 DEF Max

LEMMA ReplayExists ==
  ASSUME NEW s, NEW n \in Nat
  PROVE  \E f : IsReplay(f, s, n)
<1>. DEFINE Is(f, k) == IsReplay(f, s, k)
            B == {k \in Nat : ~\E f : Is(f, k)}
<1>1. \E f : Is(f, 0)
  <2>1. Is([x \in SUBSET (1..0) |-> Blank], 0)
    BY 1..0 = {} DEF IsReplay
  <2>. QED
    BY <2>1
<1>2. ASSUME NEW k \in Nat, \E f : Is(f, k)
      PROVE  \E f : Is(f, k + 1)
  <2>1. PICK f : Is(f, k)
    BY <1>2
  <2>. DEFINE e == [x \in SUBSET (1..(k + 1)) |->
                      IF k + 1 \in x THEN Apply(f[x \ {k + 1}], s[k + 1]) ELSE f[x]]
              F(x) == IF x = {} THEN Blank ELSE Apply(e[x \ {Max(x)}], s[Max(x)])
  <2>2. 1..(k + 1) = 1..k \cup {k + 1} /\ k + 1 \notin 1..k
    OBVIOUS
  <2>3. ASSUME NEW x \in SUBSET (1..k)
        PROVE  x \in SUBSET (1..(k + 1)) /\ e[x] = f[x] /\ k + 1 \notin x
    BY <2>2
  <2>. HIDE DEF e
  <2>5. ASSUME NEW x \in SUBSET (1..(k + 1))
        PROVE  e[x] = F(x)
    <3>1. CASE k + 1 \in x
      <4>1. x # {} /\ e[x] = Apply(f[x \ {k + 1}], s[k + 1])
        BY <3>1 DEF e
      <4>. QED
        BY <2>3, MaxIs, <3>1, <4>1
    <3>2. CASE k + 1 \notin x
      <4>1. x \in SUBSET (1..k) /\ x \ {Max(x)} \in SUBSET (1..k)
        BY <2>2, <3>2
      <4>2. e[x] = f[x] /\ e[x \ {Max(x)}] = f[x \ {Max(x)}]
        BY <2>3, <4>1
      <4>3. f[x] = IF x = {} THEN Blank ELSE Apply(f[x \ {Max(x)}], s[Max(x)])
        BY <2>1, <4>1 DEF IsReplay
      <4>. QED
        BY <4>2, <4>3
    <3>. QED
      BY <3>1, <3>2
  <2>6. e = [x \in SUBSET (1..(k + 1)) |-> e[x]]
    BY DEF e
  <2>7. Is(e, k + 1)
    BY <2>5, <2>6 DEF IsReplay
  <2>. QED
    BY <2>7
<1>. HIDE DEF Is
<1>3. B = {}
  <2>. SUFFICES ASSUME B # {} PROVE FALSE
    OBVIOUS
  <2>1. PICK m \in B : \A k \in B : m <= k
    BY LeastExists
  <2>2. m # 0
    BY <1>1
  <2>3. m - 1 \in Nat /\ m - 1 \notin B
    BY <2>1, <2>2
  <2>. QED
    BY <1>2, <2>1, <2>3
<1>4. \E f : Is(f, n)
  BY <1>3
<1>. QED
  BY <1>4 DEF Is

\* What replaying s yields: r[i] after i lines.
IsHistory(r, s) ==
  /\ r[0] = Blank /\ r[Len(s)] = FoldLeft(Apply, Blank, s)
  /\ \A i \in 1..Len(s) : r[i] = Apply(r[i - 1], s[i])

LEMMA HistoryExists ==
  ASSUME NEW T, NEW s \in Seq(T)
  PROVE  \E r : IsHistory(r, s)
<1>. DEFINE Is(f) == f = [x \in SUBSET DOMAIN s |->
                            IF x = {} THEN Blank ELSE Apply(f[x \ {Max(x)}], s[Max(x)])]
            iter == CHOOSE f : Is(f)
<1>1. Len(s) \in Nat /\ DOMAIN s = 1..Len(s)
  OBVIOUS
<1>2. FoldLeft(Apply, Blank, s) = iter[DOMAIN s]
  BY Zenon DEF FoldLeft, MapThenFoldSet
<1>3. PICK f : IsReplay(f, s, Len(s))
  BY <1>1, ReplayExists
<1>4. Is(f)
  BY <1>1, <1>3 DEF IsReplay
<1>5. Is(iter)
  BY <1>4, Zenon
<1>. HIDE DEF iter
<1>. DEFINE r == [i \in 0..Len(s) |-> iter[1..i]]
<1>6. r[0] = Blank
  <2>1. 1..0 = {} /\ {} \in SUBSET DOMAIN s /\ 0 \in 0..Len(s)
    BY <1>1
  <2>. QED
    BY <1>5, <2>1
<1>7. ASSUME NEW i \in 1..Len(s)
      PROVE  r[i] = Apply(r[i - 1], s[i])
  <2>1. /\ i - 1 \in Nat /\ i - 1 + 1 = i /\ i \in 1..i /\ 1..i \subseteq 1..Len(s)
        /\ i \in 0..Len(s) /\ i - 1 \in 0..Len(s) /\ (1..i) \ {i} = 1..(i - 1)
    BY <1>1
  <2>2. Max(1..i) = i
    <3>1. PICK k \in Nat : k = i - 1
      BY <2>1
    <3>2. k + 1 = i /\ 1..i \in SUBSET (1..(k + 1)) /\ k + 1 \in 1..i
      BY <2>1, <3>1
    <3>3. Max(1..i) = k + 1
      BY <3>2, MaxIs
    <3>. QED
      BY <3>2, <3>3
  <2>3. 1..i \in SUBSET DOMAIN s /\ 1..i # {}
    BY <1>1, <2>1
  <2>4. iter[1..i] = Apply(iter[(1..i) \ {i}], s[i])
    BY <1>5, <2>2, <2>3
  <2>. QED
    BY <2>1, <2>4
<1>8. r[Len(s)] = iter[DOMAIN s]
  BY <1>1
<1>. QED
  BY <1>2, <1>6, <1>7, <1>8, Zenon DEF IsHistory

LEMMA SameHistory ==
  ASSUME NEW T, NEW s \in Seq(T), NEW t \in Seq(T), Len(s) <= Len(t),
         \A i \in 1..Len(s) : s[i] = t[i],
         NEW r, IsHistory(r, s), NEW q, IsHistory(q, t)
  PROVE  q[Len(s)] = FoldLeft(Apply, Blank, s)
<1>. DEFINE B == {i \in 0..Len(s) : r[i] # q[i]}
<1>1. Len(s) \in Nat /\ Len(t) \in Nat
  OBVIOUS
<1>2. 0 \notin B
  BY DEF IsHistory
<1>3. ASSUME NEW i \in 1..Len(s), i - 1 \notin B
      PROVE  i \notin B
  <2>1. i - 1 \in 0..Len(s) /\ i \in 1..Len(t)
    BY <1>1
  <2>2. r[i] = Apply(r[i - 1], s[i]) /\ q[i] = Apply(q[i - 1], t[i])
    BY <2>1 DEF IsHistory
  <2>3. r[i - 1] = q[i - 1] /\ s[i] = t[i]
    BY <1>3, <2>1
  <2>. QED
    BY <2>2, <2>3
<1>4. B = {}
  <2>. SUFFICES ASSUME B # {} PROVE FALSE
    OBVIOUS
  <2>1. B \subseteq Nat
    BY <1>1
  <2>2. PICK m \in B : \A i \in B : m <= i
    BY <2>1, LeastExists
  <2>3. m \in 0..Len(s) /\ m # 0
    BY <1>2, <2>2
  <2>4. m \in 1..Len(s) /\ m - 1 \notin B
    BY <1>1, <2>2, <2>3
  <2>. QED
    BY <1>3, <2>2, <2>4
<1>. HIDE DEF B
<1>5. r[Len(s)] = q[Len(s)]
  BY <1>1, <1>4 DEF B
<1>. QED
  BY <1>5 DEF IsHistory

LEMMA ReplayOfNothing == FoldLeft(Apply, Blank, <<>>) = Blank
<1>1. <<>> \in Seq({}) /\ Len(<<>>) = 0
  OBVIOUS
<1>2. PICK r : IsHistory(r, <<>>)
  BY <1>1, HistoryExists
<1>. QED
  BY <1>1, <1>2 DEF IsHistory

LEMMA ReplayAppended ==
  ASSUME NEW T, NEW s \in Seq(T), NEW x \in T
  PROVE  FoldLeft(Apply, Blank, Append(s, x)) = Apply(FoldLeft(Apply, Blank, s), x)
<1>. DEFINE t == Append(s, x)
<1>1. /\ t \in Seq(T) /\ Len(s) \in Nat /\ Len(t) = Len(s) + 1 /\ t[Len(s) + 1] = x
      /\ \A i \in 1..Len(s) : s[i] = t[i]
  OBVIOUS
<1>. HIDE DEF t
<1>2. PICK r : IsHistory(r, s)
  BY HistoryExists
<1>3. PICK q : IsHistory(q, t)
  BY <1>1, HistoryExists
<1>4. q[Len(s)] = FoldLeft(Apply, Blank, s)
  BY <1>1, <1>2, <1>3, SameHistory
<1>5. Len(t) \in 1..Len(t) /\ Len(t) - 1 = Len(s)
  BY <1>1
<1>6. q[Len(t)] = Apply(q[Len(s)], x)
  BY <1>1, <1>3, <1>5 DEF IsHistory
<1>. QED
  BY <1>3, <1>4, <1>6 DEF IsHistory, t

Goals0 == Goal \cup {NoGoal}
Entries == [type : {"snapshot"}, goal : Goals0, revision : Nat]
             \cup [type : {"usage"}, sample : Samples, id : Goals]
Appends == [entry : Entries, recovery : BOOLEAN]
Stores == [goal : Goals0, sequence : Nat, revision : Nat, keys : SUBSET Samples]
Changes == [stage : {"none", "writes", "store"}, left : Nat, revision : Nat]

LedgerTypes ==
  /\ goal \in Goals0 /\ clearing \in Goals0
  /\ revision \in Nat /\ failure \in BOOLEAN /\ torn \in BOOLEAN /\ lateFailure \in BOOLEAN
  /\ counted \subseteq Samples /\ minted \subseteq Goals
  /\ phase \in {"closed", "opening", "open", "unusable"}
  /\ reading \in [Readers -> Nat] /\ caller \in [Requests -> Changes]
  /\ stored \in Stores /\ queue \in Seq(Appends) /\ acknowledged \in Nat

\* Snapshots come in the order of their revisions, each later than the store's.
IsSaved(x) == x.entry.type = "snapshot"
QueueFits(q, s, n) ==
  /\ s.revision <= n
  /\ \A i \in 1..Len(q) : q[i].recovery => IsSaved(q[i])
  /\ \A i \in 1..Len(q) : IsSaved(q[i]) => /\ s.revision <= q[i].entry.revision
                                           /\ q[i].entry.revision <= n
  /\ \A i, j \in 1..Len(q) :
       i < j /\ IsSaved(q[i]) /\ IsSaved(q[j]) => q[i].entry.revision <= q[j].entry.revision

\* A sample that is queued is new to the store.
SamplesFit(q, s, k) ==
  /\ s.keys \subseteq k
  /\ \A i \in 1..Len(q) : ~IsSaved(q[i]) => q[i].entry.sample \in k \ s.keys
  /\ \A i, j \in 1..Len(q) :
       i # j /\ ~IsSaved(q[i]) /\ ~IsSaved(q[j]) => q[i].entry.sample # q[j].entry.sample

\* A request awaits the write of its own revision; after that one, either the store is
\* as new or the failure is known, and what is queued is newer.
CallFits(c, q, s, n, failed) ==
  c # NoCall =>
    /\ c.stage # "none" /\ c.left \in 1..Len(q) /\ c.revision <= n
    /\ c.stage = "writes" => IsSaved(q[c.left]) /\ q[c.left].entry.revision = c.revision
    /\ c.stage = "store" =>
         /\ failed \/ c.revision <= s.revision
         /\ \A i \in 1..Len(q) : IsSaved(q[i]) => c.revision <= q[i].entry.revision

\* What the queue leads to, if nothing fails: the last snapshot, or the store's goal, and
\* what was charged since.  f[i] is the goal after i writes.
BaseGoal(q, s, k) == IF k = 0 THEN s.goal ELSE q[k].entry.goal
BaseRevision(q, s, k) == IF k = 0 THEN s.revision ELSE q[k].entry.revision
Leads(q, s, g, n, k, f) ==
  /\ k > 0 => IsSaved(q[k])
  /\ f[k] = BaseGoal(q, s, k) /\ f[Len(q)] = g /\ n = BaseRevision(q, s, k)
  /\ \A i \in (k + 1)..Len(q) : ~IsSaved(q[i]) /\ f[i] = Charged(f[i - 1], q[i].entry.id)
Reaches(q, s, g, n) == \E k \in 0..Len(q) : \E f : Leads(q, s, g, n, k, f)

GoalFits(q, s, g, n, failed, late) ==
  ~late /\ (failed => \E i \in 1..Len(q) : q[i].recovery) => Reaches(q, s, g, n)

\* The ledger replays to the store's copy.
ReplayFits ==
  /\ lines \in Seq([entry : Entries, sequence : Nat] \cup {Unreadable})
  /\ Readable => /\ Replayed \in Stores /\ acknowledged <= Replayed.revision
                 /\ phase # "closed" => Replayed = stored

QueuesFit ==
  /\ QueueFits(queue, stored, revision) /\ SamplesFit(queue, stored, counted)
  /\ GoalFits(queue, stored, goal, revision, failure, lateFailure)
  /\ \A c \in Requests : CallFits(caller[c], queue, stored, revision, failure)

LedgerInv ==
  /\ LedgerTypes /\ QueuesFit /\ ReplayFits /\ FailureStopsTheGoal
  /\ phase = "closed" => queue = <<>>

-----------------------------------------------------------------------------
\* What the operations do to the queue.

\* p is q with snapshots added, of the revisions after n up to m.
Adds(p, q, n, m) ==
  /\ p \in Seq(Appends) /\ Len(p) >= Len(q) /\ \A i \in 1..Len(q) : p[i] = q[i]
  /\ \A i \in (Len(q) + 1)..Len(p) :
       IsSaved(p[i]) /\ p[i].entry.revision > n /\ p[i].entry.revision <= m
  /\ \A i, j \in (Len(q) + 1)..Len(p) : i < j => p[i].entry.revision <= p[j].entry.revision

LEMMA AppendTypes ==
  ASSUME NEW x \in Appends
  PROVE  /\ x.recovery \in BOOLEAN /\ x.entry \in Entries
         /\ IsSaved(x) => x.entry.goal \in Goals0 /\ x.entry.revision \in Nat
         /\ ~IsSaved(x) => /\ x.entry.type = "usage"
                           /\ x.entry.sample \in Samples /\ x.entry.id \in Goals
<1>1. x.recovery \in BOOLEAN /\ x.entry \in Entries
  BY DEF Appends
<1>. QED
  BY <1>1 DEF Entries, IsSaved

LEMMA AddsKeepsQueue ==
  ASSUME NEW q \in Seq(Appends), NEW s \in Stores, NEW n \in Nat, NEW m \in Nat, n <= m,
         NEW p, Adds(p, q, n, m), QueueFits(q, s, n)
  PROVE  QueueFits(p, s, m)
<1>1. Len(q) \in Nat /\ Len(p) \in Nat /\ p \in Seq(Appends) /\ s.revision \in Nat
  BY DEF Adds, Stores
<1>2. \A i \in 1..Len(p) : i \in 1..Len(q) \/ i \in (Len(q) + 1)..Len(p)
  BY <1>1
<1>3. \A i \in 1..Len(q) : p[i] = q[i] /\ i \in 1..Len(p)
  BY <1>1 DEF Adds
<1>4. \A i \in 1..Len(p) : IsSaved(p[i]) => p[i].entry.revision \in Nat
  BY <1>1, AppendTypes
<1>5. s.revision <= m
  BY <1>1 DEF QueueFits
<1>6. ASSUME NEW i \in 1..Len(p)
      PROVE  p[i].recovery => IsSaved(p[i])
  BY <1>2, <1>3 DEF QueueFits, Adds
<1>7. ASSUME NEW i \in 1..Len(p), IsSaved(p[i])
      PROVE  s.revision <= p[i].entry.revision /\ p[i].entry.revision <= m
  <2>1. CASE i \in 1..Len(q)
    BY <1>1, <1>3, <1>4, <1>7, <2>1 DEF QueueFits
  <2>2. CASE i \in (Len(q) + 1)..Len(p)
    <3>1. PICK a \in Nat : a = p[i].entry.revision
      BY <1>4, <1>7
    <3>2. a > n /\ a <= m
      BY <2>2, <3>1 DEF Adds
    <3>3. s.revision <= n
      BY DEF QueueFits
    <3>4. s.revision <= a
      BY <1>1, <3>2, <3>3
    <3>. QED
      BY <3>1, <3>2, <3>4
  <2>. QED
    BY <1>2, <2>1, <2>2
<1>8. ASSUME NEW i \in 1..Len(p), NEW j \in 1..Len(p), i < j, IsSaved(p[i]), IsSaved(p[j])
      PROVE  p[i].entry.revision <= p[j].entry.revision
  <2>1. CASE j \in 1..Len(q)
    <3>1. i \in 1..Len(q)
      BY <1>1, <1>8, <2>1
    <3>. QED
      BY <1>3, <1>8, <2>1, <3>1 DEF QueueFits
  <2>2. CASE i \in 1..Len(q) /\ j \in (Len(q) + 1)..Len(p)
    <3>1. p[i].entry.revision <= n
      BY <1>3, <1>8, <2>2 DEF QueueFits
    <3>2. p[j].entry.revision > n
      BY <2>2 DEF Adds
    <3>3. PICK a \in Nat, b \in Nat : a = p[i].entry.revision /\ b = p[j].entry.revision
      BY <1>4, <1>8
    <3>4. a <= n /\ b > n
      BY <3>1, <3>2, <3>3, Zenon
    <3>5. a <= b
      BY <3>4
    <3>. QED
      BY <3>3, <3>5
  <2>3. CASE i \in (Len(q) + 1)..Len(p) /\ j \in (Len(q) + 1)..Len(p)
    BY <1>8, <2>3 DEF Adds
  <2>. QED
    BY <1>1, <1>2, <1>8, <2>1, <2>2, <2>3
<1>. QED
  BY <1>5, <1>6, <1>7, <1>8 DEF QueueFits

LEMMA AddsKeepsSamples ==
  ASSUME NEW q \in Seq(Appends), NEW s, NEW k, NEW n, NEW m,
         NEW p, Adds(p, q, n, m), SamplesFit(q, s, k)
  PROVE  SamplesFit(p, s, k)
<1>1. Len(q) \in Nat /\ Len(p) \in Nat
  BY DEF Adds
<1>2. \A i \in 1..Len(p) : ~IsSaved(p[i]) => i \in 1..Len(q) /\ p[i] = q[i]
  BY <1>1 DEF Adds
<1>. QED
  BY <1>2 DEF SamplesFit

LEMMA AddsKeepsCall ==
  ASSUME NEW q \in Seq(Appends), NEW s \in Stores, NEW n \in Nat, NEW m \in Nat, n <= m,
         NEW p, Adds(p, q, n, m), NEW failed, NEW c \in Changes, CallFits(c, q, s, n, failed)
  PROVE  CallFits(c, p, s, m, failed)
<1>. SUFFICES ASSUME c # NoCall PROVE CallFits(c, p, s, m, failed)
  BY DEF CallFits
<1>1. /\ Len(q) \in Nat /\ Len(p) \in Nat /\ Len(q) <= Len(p)
      /\ c.left \in Nat /\ c.revision \in Nat
  BY DEF Adds, Changes
<1>2. c.stage # "none" /\ c.left \in 1..Len(q) /\ c.revision <= n
  BY DEF CallFits
<1>3. c.left \in 1..Len(p) /\ c.revision <= m /\ p[c.left] = q[c.left]
  BY <1>1, <1>2 DEF Adds
<1>4. c.stage = "writes" => IsSaved(p[c.left]) /\ p[c.left].entry.revision = c.revision
  BY <1>3 DEF CallFits
<1>5. ASSUME c.stage = "store", NEW i \in 1..Len(p), IsSaved(p[i])
      PROVE  c.revision <= p[i].entry.revision
  <2>1. CASE i \in 1..Len(q)
    BY <1>5, <2>1 DEF CallFits, Adds
  <2>2. CASE i \notin 1..Len(q)
    <3>1. p[i].entry.revision > n /\ p \in Seq(Appends)
      BY <1>1, <2>2 DEF Adds
    <3>2. p[i].entry.revision \in Nat
      BY <1>5, <3>1, AppendTypes
    <3>. QED
      BY <1>1, <1>2, <3>1, <3>2
  <2>. QED
    BY <2>1, <2>2
<1>6. c.stage = "store" => failed \/ c.revision <= s.revision
  BY DEF CallFits
<1>. QED
  BY <1>2, <1>3, <1>4, <1>5, <1>6 DEF CallFits

\* A snapshot says what the goal is.
LEMMA LastReaches ==
  ASSUME NEW p \in Seq(Appends), p # <<>>, NEW s, NEW g, NEW n,
         IsSaved(p[Len(p)]), p[Len(p)].entry.goal = g, p[Len(p)].entry.revision = n
  PROVE  Reaches(p, s, g, n)
<1>. DEFINE k == Len(p)
            f == [i \in {k} |-> g]
<1>1. k \in Nat /\ k > 0 /\ k \in 0..Len(p)
  OBVIOUS
<1>2. f[k] = g
  OBVIOUS
<1>3. (k + 1)..k = {}
  BY <1>1
<1>4. Leads(p, s, g, n, k, f)
  BY <1>1, <1>2, <1>3 DEF Leads, BaseGoal, BaseRevision
<1>. QED
  BY <1>1, <1>4 DEF Reaches

LEMMA UsageReaches ==
  ASSUME NEW q \in Seq(Appends), NEW s, NEW g, NEW n, Reaches(q, s, g, n),
         NEW x, ~IsSaved(x)
  PROVE  Reaches(Append(q, x), s, Charged(g, x.entry.id), n)
<1>0. PICK k \in 0..Len(q) : \E f : Leads(q, s, g, n, k, f)
  BY DEF Reaches
<1>1. PICK f : Leads(q, s, g, n, k, f)
  BY <1>0
<1>. DEFINE p == Append(q, x)
            h == [i \in 0..Len(p) |-> IF i = Len(p) THEN Charged(g, x.entry.id) ELSE f[i]]
<1>2. /\ Len(q) \in Nat /\ Len(p) = Len(q) + 1 /\ p[Len(q) + 1] = x
      /\ \A i \in 1..Len(q) : p[i] = q[i]
  OBVIOUS
<1>. HIDE DEF p
<1>3. k \in 0..Len(p) /\ k # Len(p) /\ (k > 0 => p[k] = q[k])
  BY <1>2
<1>4. h[Len(p)] = Charged(g, x.entry.id) /\ \A i \in 0..Len(q) : h[i] = f[i]
  BY <1>2
<1>. HIDE DEF h
<1>5. k > 0 => IsSaved(p[k])
  BY <1>1, <1>3 DEF Leads
<1>6. h[k] = BaseGoal(p, s, k) /\ n = BaseRevision(p, s, k)
  BY <1>1, <1>3, <1>4 DEF Leads, BaseGoal, BaseRevision
<1>7. ASSUME NEW i \in (k + 1)..Len(p)
      PROVE  ~IsSaved(p[i]) /\ h[i] = Charged(h[i - 1], p[i].entry.id)
  <2>1. CASE i = Len(p)
    <3>1. i - 1 = Len(q) /\ h[i - 1] = g
      BY <1>1, <1>2, <1>4, <2>1 DEF Leads
    <3>. QED
      BY <1>2, <1>4, <2>1, <3>1
  <2>2. CASE i # Len(p)
    <3>1. i \in (k + 1)..Len(q) /\ i - 1 \in 0..Len(q) /\ i \in 0..Len(q) /\ i \in 1..Len(q)
      BY <1>2, <2>2
    <3>. QED
      BY <1>1, <1>2, <1>4, <3>1 DEF Leads
  <2>. QED
    BY <2>1, <2>2
<1>8. Leads(p, s, Charged(g, x.entry.id), n, k, h)
  BY <1>4, <1>5, <1>6, <1>7 DEF Leads
<1>. QED
  BY <1>3, <1>8 DEF Reaches, p

\* What a write does to the store's copy.
Written(s, x, t) ==
  /\ t \in Stores
  /\ IsSaved(x) => /\ t.goal = x.entry.goal /\ t.revision = x.entry.revision
                   /\ t.keys = s.keys
  /\ ~IsSaved(x) => /\ t.goal = Charged(s.goal, x.entry.id) /\ t.revision = s.revision
                    /\ t.keys = s.keys \cup {x.entry.sample}

LEMMA WriteReaches ==
  ASSUME NEW q \in Seq(Appends), q # <<>>, NEW s, NEW g, NEW n, Reaches(q, s, g, n),
         NEW t, Written(s, q[1], t)
  PROVE  Reaches(Tail(q), t, g, n)
<1>0. PICK k \in 0..Len(q) : \E f : Leads(q, s, g, n, k, f)
  BY DEF Reaches
<1>1. PICK f : Leads(q, s, g, n, k, f)
  BY <1>0
<1>. DEFINE p == Tail(q)
            h == [i \in 0..Len(p) |-> f[i + 1]]
            j == IF k = 0 THEN 0 ELSE k - 1
<1>2. /\ Len(q) \in Nat /\ Len(q) > 0 /\ Len(p) = Len(q) - 1
      /\ \A i \in 1..Len(p) : p[i] = q[i + 1]
  OBVIOUS
<1>. HIDE DEF p
<1>3. j \in 0..Len(p) /\ (k > 0 => j = k - 1) /\ (k = 0 => j = 0)
  BY <1>2
<1>4. \A i \in 0..Len(p) : h[i] = f[i + 1]
  OBVIOUS
<1>. HIDE DEF h, j
<1>5. h[Len(p)] = g
  BY <1>1, <1>2, <1>4 DEF Leads
<1>6. j > 0 => p[j] = q[k] /\ k > 0
  BY <1>2, <1>3
<1>7. j > 0 => IsSaved(p[j])
  BY <1>1, <1>6 DEF Leads
<1>8. h[j] = BaseGoal(p, t, j) /\ n = BaseRevision(p, t, j)
  <2>1. CASE k = 0
    <3>1. ~IsSaved(q[1]) /\ f[1] = Charged(f[0], q[1].entry.id) /\ f[0] = s.goal
      <4>1. 1 \in (k + 1)..Len(q) /\ 1 - 1 = 0
        BY <1>2, <2>1
      <4>. QED
        BY <1>1, <2>1, <4>1 DEF Leads, BaseGoal
    <3>2. h[0] = f[1] /\ n = s.revision /\ j = 0
      BY <1>1, <1>2, <1>3, <1>4, <2>1 DEF Leads, BaseRevision
    <3>. QED
      BY <3>1, <3>2 DEF Written, BaseGoal, BaseRevision
  <2>2. CASE k = 1
    <3>1. IsSaved(q[1]) /\ f[1] = q[1].entry.goal /\ n = q[1].entry.revision
      BY <1>1, <2>2 DEF Leads, BaseGoal, BaseRevision
    <3>2. h[0] = f[1] /\ j = 0
      BY <1>2, <1>3, <1>4, <2>2
    <3>. QED
      BY <3>1, <3>2 DEF Written, BaseGoal, BaseRevision
  <2>3. CASE k > 1
    <3>1. j > 0 /\ h[j] = f[k]
      BY <1>2, <1>3, <1>4, <2>3
    <3>. QED
      BY <1>1, <1>6, <2>3, <3>1 DEF Leads, BaseGoal, BaseRevision
  <2>. QED
    BY <2>1, <2>2, <2>3
<1>9. ASSUME NEW i \in (j + 1)..Len(p)
      PROVE  ~IsSaved(p[i]) /\ h[i] = Charged(h[i - 1], p[i].entry.id)
  <2>1. /\ i + 1 \in (k + 1)..Len(q) /\ p[i] = q[i + 1] /\ h[i] = f[i + 1] /\ (i + 1) - 1 = i
        /\ h[i - 1] = f[i]
    BY <1>2, <1>3, <1>4
  <2>. QED
    BY <1>1, <2>1 DEF Leads
<1>10. Leads(p, t, g, n, j, h)
  BY <1>5, <1>7, <1>8, <1>9 DEF Leads
<1>. QED
  BY <1>3, <1>10 DEF Reaches, p

LEMMA ApplyWrites ==
  ASSUME NEW s \in Stores, NEW x \in Appends, ~IsSaved(x) => x.entry.sample \notin s.keys
  PROVE  Written(s, x, Apply(s, [entry |-> x.entry, sequence |-> s.sequence + 1]))
<1>. DEFINE line == [entry |-> x.entry, sequence |-> s.sequence + 1]
            m == s.sequence + 1
            n == [s EXCEPT !.sequence = m]
<1>1. line.entry = x.entry /\ line.sequence = m
  OBVIOUS
<1>2. s.sequence \in Nat /\ s.goal \in Goals0 /\ s.revision \in Nat /\ s.keys \in SUBSET Samples
  BY DEF Stores
<1>3. m \in Nat
  BY <1>2
<1>4. n \in Stores /\ n.goal = s.goal /\ n.revision = s.revision /\ n.keys = s.keys
  BY <1>3 DEF Stores
<1>. HIDE DEF line, m
<1>5. CASE IsSaved(x)
  <2>. DEFINE a == [n EXCEPT !.goal = x.entry.goal, !.revision = x.entry.revision]
  <2>1. Apply(s, line) = a
    BY <1>1, <1>5 DEF Apply, IsSaved
  <2>2. x.entry.goal \in Goals0 /\ x.entry.revision \in Nat
    BY <1>5, AppendTypes
  <2>. HIDE DEF n
  <2>3. a \in Stores /\ a.goal = x.entry.goal /\ a.revision = x.entry.revision /\ a.keys = n.keys
    BY <1>4, <2>2 DEF Stores
  <2>. QED
    BY <1>4, <1>5, <2>1, <2>3 DEF Written, line
<1>6. CASE ~IsSaved(x)
  <2>. DEFINE k == s.keys \cup {x.entry.sample}
              g == Charged(s.goal, x.entry.id)
              a == [n EXCEPT !.keys = k, !.goal = g]
  <2>1. /\ x.entry.type = "usage" /\ x.entry.sample \in Samples /\ x.entry.id \in Goals
        /\ x.entry.sample \notin s.keys
    BY <1>6, AppendTypes
  <2>2. Apply(s, line) = a
    BY <1>1, <1>4, <2>1 DEF Apply
  <2>3. k \in SUBSET Samples
    BY <1>2, <2>1
  <2>4. g \in Goals0
    BY <1>2 DEF Charged, Goals0, Goal
  <2>. HIDE DEF n, k, g
  <2>5. a \in Stores /\ a.goal = g /\ a.revision = n.revision /\ a.keys = k
    BY <1>4, <2>3, <2>4 DEF Stores
  <2>. QED
    BY <1>4, <1>6, <2>2, <2>5 DEF Written, line, k, g
<1>. QED
  BY <1>5, <1>6

\* A write ends: done, or failed and then known.
WrittenOrKnown(s, x, t, known) == Written(s, x, t) \/ (t = s /\ known)

LEMMA SettleKeepsQueue ==
  ASSUME NEW q \in Seq(Appends), q # <<>>, NEW s \in Stores, NEW n \in Nat, QueueFits(q, s, n),
         NEW t, NEW known, WrittenOrKnown(s, q[1], t, known)
  PROVE  QueueFits(Tail(q), t, n) /\ s.revision <= t.revision /\ t \in Stores
<1>. DEFINE p == Tail(q)
<1>1. /\ Len(q) \in Nat /\ Len(q) > 0 /\ Len(p) = Len(q) - 1
      /\ \A i \in 1..Len(p) : p[i] = q[i + 1] /\ i + 1 \in 1..Len(q)
  OBVIOUS
<1>. HIDE DEF p
<1>2. s.revision \in Nat /\ t \in Stores
  BY DEF WrittenOrKnown, Written, Stores
<1>3. 1 \in 1..Len(q)
  BY <1>1
<1>4a. \/ t.revision = s.revision
       \/ IsSaved(q[1]) /\ t.revision = q[1].entry.revision
  BY DEF WrittenOrKnown, Written
<1>4. s.revision <= t.revision /\ t.revision <= n
  <2>1. s.revision <= n
    BY DEF QueueFits
  <2>2. IsSaved(q[1]) => s.revision <= q[1].entry.revision /\ q[1].entry.revision <= n
    BY <1>3 DEF QueueFits
  <2>4. CASE t.revision = s.revision
    <3>1. PICK a \in Nat : a = s.revision
      BY <1>2
    <3>2. a <= n /\ a <= a
      BY <2>1, <3>1
    <3>. QED
      BY <2>4, <3>1, <3>2, Zenon
  <2>5. CASE IsSaved(q[1]) /\ t.revision = q[1].entry.revision
    BY <2>2, <2>5, Zenon
  <2>. QED
    BY <1>4a, <2>4, <2>5
<1>5. ASSUME NEW i \in 1..Len(p)
      PROVE  /\ p[i].recovery => IsSaved(p[i])
             /\ IsSaved(p[i]) => t.revision <= p[i].entry.revision /\ p[i].entry.revision <= n
  <2>1. p[i] = q[i + 1] /\ i + 1 \in 1..Len(q) /\ 1 < i + 1
    BY <1>1
  <2>2. p[i].recovery => IsSaved(p[i])
    BY <2>1 DEF QueueFits
  <2>3. IsSaved(p[i]) => p[i].entry.revision <= n /\ s.revision <= p[i].entry.revision
    BY <2>1 DEF QueueFits
  <2>4. IsSaved(p[i]) /\ IsSaved(q[1]) => q[1].entry.revision <= p[i].entry.revision
    BY <1>3, <2>1 DEF QueueFits
  <2>. QED
    BY <1>4a, <1>4, <2>2, <2>3, <2>4
<1>6. ASSUME NEW i \in 1..Len(p), NEW j \in 1..Len(p), i < j, IsSaved(p[i]), IsSaved(p[j])
      PROVE  p[i].entry.revision <= p[j].entry.revision
  <2>1. p[i] = q[i + 1] /\ i + 1 \in 1..Len(q) /\ p[j] = q[j + 1] /\ j + 1 \in 1..Len(q)
    BY <1>1
  <2>2. i + 1 < j + 1
    BY <1>1, <1>6
  <2>. QED
    BY <1>6, <2>1, <2>2 DEF QueueFits
<1>. QED
  BY <1>2, <1>4, <1>5, <1>6 DEF QueueFits, p

LEMMA SettleKeepsSamples ==
  ASSUME NEW q \in Seq(Appends), q # <<>>, NEW s, NEW k, SamplesFit(q, s, k),
         NEW t, NEW known, WrittenOrKnown(s, q[1], t, known)
  PROVE  SamplesFit(Tail(q), t, k)
<1>. DEFINE p == Tail(q)
<1>1. /\ Len(q) \in Nat /\ Len(q) > 0 /\ Len(p) = Len(q) - 1
      /\ \A i \in 1..Len(p) : p[i] = q[i + 1] /\ i + 1 \in 1..Len(q)
  OBVIOUS
<1>. HIDE DEF p
<1>2. 1 \in 1..Len(q)
  BY <1>1
<1>3. t.keys = s.keys \/ (~IsSaved(q[1]) /\ t.keys = s.keys \cup {q[1].entry.sample})
  BY DEF WrittenOrKnown, Written
<1>4. t.keys \subseteq k
  BY <1>2, <1>3 DEF SamplesFit
<1>5. ASSUME NEW i \in 1..Len(p), ~IsSaved(p[i])
      PROVE  p[i].entry.sample \in k \ t.keys
  <2>1. p[i] = q[i + 1] /\ i + 1 \in 1..Len(q) /\ 1 # i + 1
    BY <1>1
  <2>2. p[i].entry.sample \in k \ s.keys
    BY <1>5, <2>1 DEF SamplesFit
  <2>3. ~IsSaved(q[1]) => p[i].entry.sample # q[1].entry.sample
    BY <1>2, <1>5, <2>1 DEF SamplesFit
  <2>. QED
    BY <1>3, <2>2, <2>3
<1>6. ASSUME NEW i \in 1..Len(p), NEW j \in 1..Len(p), i # j, ~IsSaved(p[i]), ~IsSaved(p[j])
      PROVE  p[i].entry.sample # p[j].entry.sample
  <2>1. p[i] = q[i + 1] /\ i + 1 \in 1..Len(q) /\ p[j] = q[j + 1] /\ j + 1 \in 1..Len(q)
    BY <1>1
  <2>2. i + 1 # j + 1
    BY <1>1, <1>6
  <2>. QED
    BY <1>6, <2>1, <2>2 DEF SamplesFit
<1>. QED
  BY <1>4, <1>5, <1>6 DEF SamplesFit, p

\* A request that goes on waiting waits for the right write; one that ends, when no failure
\* is left, has its revision in the store.
LEMMA SettleKeepsCall ==
  ASSUME queue \in Seq(Appends), queue # <<>>, NEW s \in Stores, NEW n \in Nat,
         QueueFits(queue, s, n), NEW t, NEW known, NEW failed, WrittenOrKnown(s, queue[1], t, known),
         ~known => ~failed \/ queue[1].recovery,
         NEW c \in Changes, CallFits(c, queue, s, n, failed)
  PROVE  /\ Awaited(c) \in Changes /\ CallFits(Awaited(c), Tail(queue), t, n, known)
         /\ c # NoCall /\ Ends(c) /\ ~known => c.revision <= t.revision
<1>. DEFINE q == queue
            p == Tail(q)
<1>1. /\ Len(q) \in Nat /\ Len(q) > 0 /\ Len(p) = Len(q) - 1 /\ (p = <<>> <=> Len(p) = 0)
      /\ \A i \in 1..Len(p) : p[i] = q[i + 1] /\ i + 1 \in 1..Len(q)
  <2>1. q \in Seq(Appends) /\ q # <<>>
    OBVIOUS
  <2>. HIDE DEF q
  <2>2. p \in Seq(Appends) /\ Len(q) \in Nat /\ Len(q) > 0 /\ Len(p) = Len(q) - 1
    BY <2>1
  <2>3. \A i \in 1..Len(p) : p[i] = q[i + 1] /\ i + 1 \in 1..Len(q)
    BY <2>1, <2>2
  <2>. HIDE DEF p
  <2>4. p = <<>> <=> Len(p) = 0
    BY <2>2, EmptySeq
  <2>. QED
    BY <2>2, <2>3, <2>4
<1>2. Rest = p
  BY DEF Rest
<1>. HIDE DEF q, p
<1>0. /\ NoCall.stage = "none" /\ NoCall.left = 0 /\ NoCall \in Changes
      /\ q = queue /\ p = Tail(queue)
  BY DEF NoCall, Changes, q, p
<1>3. CASE c = NoCall
  BY <1>0, <1>3 DEF Awaited, CallFits
<1>. SUFFICES ASSUME c # NoCall
     PROVE  /\ Awaited(c) \in Changes /\ CallFits(Awaited(c), p, t, n, known)
            /\ Ends(c) /\ ~known => c.revision <= t.revision
  BY <1>0, <1>3
<1>4. /\ c.stage \in {"writes", "store"} /\ c.left \in 1..Len(q)
      /\ c.revision \in Nat /\ c.left \in Nat
  BY <1>0, <1>1 DEF CallFits, Changes
<1>5. c.revision <= n
  BY <1>0 DEF CallFits
<1>6. QueueFits(p, t, n) /\ s.revision <= t.revision /\ t \in Stores
  BY <1>0, SettleKeepsQueue
<1>7. 1 \in 1..Len(q) /\ s.revision \in Nat /\ t.revision \in Nat
  BY <1>1, <1>6 DEF Stores
<1>8. c.stage = "writes" => IsSaved(q[c.left]) /\ q[c.left].entry.revision = c.revision
  BY <1>0 DEF CallFits
\* Once its own write is over, it is done or known to have failed.
<1>9. ASSUME c.stage = "writes" => c.left = 1
      PROVE  /\ known \/ c.revision <= t.revision
             /\ \A i \in 1..Len(p) : IsSaved(p[i]) => c.revision <= p[i].entry.revision
  <2>1. CASE c.stage = "writes"
    <3>1. IsSaved(q[1]) /\ q[1].entry.revision = c.revision
      BY <1>8, <1>9, <2>1
    <3>2. known \/ t.revision = c.revision
      BY <1>0, <3>1 DEF WrittenOrKnown, Written
    <3>3. ASSUME NEW i \in 1..Len(p), IsSaved(p[i])
          PROVE  c.revision <= p[i].entry.revision
      <4>1. p[i] = q[i + 1] /\ i + 1 \in 1..Len(q) /\ 1 < i + 1
        BY <1>1
      <4>. QED
        BY <1>0, <1>7, <3>1, <3>3, <4>1 DEF QueueFits
    <3>. QED
      BY <1>4, <1>7, <3>2, <3>3
  <2>2. CASE c.stage = "store"
    <3>1. /\ failed \/ c.revision <= s.revision
          /\ \A i \in 1..Len(q) : IsSaved(q[i]) => c.revision <= q[i].entry.revision
      BY <1>0, <2>2 DEF CallFits
    <3>2. \A i \in 1..Len(p) : IsSaved(p[i]) => c.revision <= p[i].entry.revision
      BY <1>1, <3>1
    <3>3. ASSUME ~known
          PROVE  c.revision <= t.revision
      <4>1. CASE ~failed
        BY <1>4, <1>6, <1>7, <3>1, <4>1
      <4>2. CASE queue[1].recovery
        <5>1. IsSaved(q[1])
          BY <1>0, <1>7, <4>2 DEF QueueFits
        <5>2. t.revision = q[1].entry.revision
          BY <1>0, <3>3, <5>1 DEF WrittenOrKnown, Written
        <5>. QED
          BY <1>7, <3>1, <5>1, <5>2
      <4>. QED
        BY <3>3, <4>1, <4>2
    <3>. QED
      BY <3>2, <3>3
  <2>. QED
    BY <1>4, <2>1, <2>2
<1>10. CASE Ends(c)
  <2>1. Awaited(c) = NoCall
    BY <1>10 DEF Awaited
  <2>2. c.left = 1
    BY <1>10 DEF Ends
  <2>. QED
    BY <1>0, <1>9, <2>1, <2>2 DEF CallFits
<1>11. CASE ~Ends(c) /\ c.left = 1
  <2>. DEFINE m == Len(p)
              a == [c EXCEPT !.stage = "store", !.left = m]
  <2>1. Awaited(c) = a
    BY <1>2, <1>11 DEF Awaited
  <2>2. m \in Nat /\ m \in 1..Len(p)
    BY <1>1, <1>2, <1>4, <1>11 DEF Ends
  <2>. HIDE DEF m
  <2>3. a \in Changes /\ a.stage = "store" /\ a.left = m /\ a.revision = c.revision
    BY <2>2 DEF Changes
  <2>. HIDE DEF a
  <2>4. CallFits(a, p, t, n, known)
    BY <1>5, <1>9, <1>11, <2>2, <2>3 DEF CallFits
  <2>. QED
    BY <1>11, <2>1, <2>3, <2>4
<1>12. CASE c.left # 1
  <2>. DEFINE m == c.left - 1
              a == [c EXCEPT !.left = m]
  <2>1. Awaited(c) = a
    BY <1>12 DEF Awaited, Ends
  <2>2. m \in Nat /\ m \in 1..Len(p) /\ p[m] = q[c.left]
    <3>1. m \in Nat /\ m \in 1..Len(p) /\ m + 1 = c.left
      BY <1>1, <1>4, <1>12
    <3>. QED
      BY <1>1, <3>1
  <2>. HIDE DEF m
  <2>3. a \in Changes /\ a.stage = c.stage /\ a.left = m /\ a.revision = c.revision
    BY <2>2 DEF Changes
  <2>. HIDE DEF a
  <2>4. a.stage = "store" =>
          /\ known \/ a.revision <= t.revision
          /\ \A i \in 1..Len(p) : IsSaved(p[i]) => a.revision <= p[i].entry.revision
    BY <1>9, <2>3
  <2>5. a.stage = "writes" => IsSaved(p[a.left]) /\ p[a.left].entry.revision = a.revision
    BY <1>8, <2>2, <2>3
  <2>6. a.stage # "none" /\ a.left \in 1..Len(p) /\ a.revision <= n
    BY <1>4, <1>5, <2>2, <2>3
  <2>7. CallFits(a, p, t, n, known)
    BY <2>4, <2>5, <2>6, Zenon DEF CallFits
  <2>8. ~Ends(c)
    BY <1>12 DEF Ends
  <2>. QED
    BY <2>1, <2>3, <2>7, <2>8
<1>. QED
  BY <1>10, <1>11, <1>12

-----------------------------------------------------------------------------
\* Saves.

LEMMA SnapshotIs ==
  ASSUME NEW g \in Goals0, NEW n \in Nat, NEW r \in BOOLEAN
  PROVE  /\ Stamped(g, n) \in Goals0 /\ (Stamped(g, n) = NoGoal <=> g = NoGoal)
         /\ g # NoGoal => Stamped(g, n).status = g.status
         /\ Snapshot(g, n, r) \in Appends /\ IsSaved(Snapshot(g, n, r))
         /\ Snapshot(g, n, r).entry.goal = Stamped(g, n)
         /\ Snapshot(g, n, r).entry.revision = n
<1>1. NoGoal \notin Goal
  BY LedgerConstants
<1>4. /\ Stamped(g, n) \in Goals0 /\ (Stamped(g, n) = NoGoal <=> g = NoGoal)
      /\ g # NoGoal => Stamped(g, n).status = g.status
  <2>1. CASE g = NoGoal
    BY <2>1 DEF Stamped, Goals0
  <2>2. CASE g # NoGoal
    <3>1. g \in Goal /\ Stamped(g, n) = [g EXCEPT !.revision = n]
      BY <2>2 DEF Goals0, Stamped
    <3>2. [g EXCEPT !.revision = n] \in Goal /\ [g EXCEPT !.revision = n].status = g.status
      BY <3>1 DEF Goal
    <3>. QED
      BY <1>1, <2>2, <3>1, <3>2 DEF Goals0
  <2>. QED
    BY <2>1, <2>2
<1>. DEFINE e == [type |-> "snapshot", goal |-> Stamped(g, n), revision |-> n]
            x == [entry |-> e, recovery |-> r]
<1>5. Snapshot(g, n, r) = x
  BY DEF Snapshot
<1>6. e \in Entries /\ e.goal = Stamped(g, n) /\ e.revision = n /\ e.type = "snapshot"
  BY <1>4 DEF Entries
<1>. HIDE DEF e
<1>7. x \in Appends /\ x.entry = e
  BY <1>6 DEF Appends
<1>. HIDE DEF x
<1>. QED
  BY <1>4, <1>5, <1>6, <1>7 DEF IsSaved

LEMMA AppendAdds ==
  ASSUME NEW q \in Seq(Appends), NEW x \in Appends, NEW n \in Nat, IsSaved(x),
         x.entry.revision = n + 1
  PROVE  /\ Adds(Append(q, x), q, n, n + 1) /\ Append(q, x) # <<>>
         /\ Append(q, x)[Len(Append(q, x))] = x /\ Len(Append(q, x)) = Len(q) + 1
<1>. DEFINE p == Append(q, x)
<1>1. /\ p \in Seq(Appends) /\ Len(q) \in Nat /\ Len(p) = Len(q) + 1 /\ p[Len(q) + 1] = x
      /\ \A i \in 1..Len(q) : p[i] = q[i]
  OBVIOUS
<1>. HIDE DEF p
<1>2. \A i \in (Len(q) + 1)..Len(p) : i = Len(q) + 1 /\ p[i] = x
  BY <1>1
<1>3. Adds(p, q, n, n + 1)
  BY <1>1, <1>2 DEF Adds
<1>4. p # <<>>
  BY <1>1, EmptySeq
<1>. QED
  BY <1>1, <1>3, <1>4 DEF p

\* What a snapshot at the end of queue p says.
LEMMA EndFits ==
  ASSUME NEW p \in Seq(Appends), p # <<>>, NEW s, NEW g, NEW n, NEW failed, NEW late,
         IsSaved(p[Len(p)]), p[Len(p)].entry.goal = g, p[Len(p)].entry.revision = n
  PROVE  GoalFits(p, s, g, n, failed, late)
BY LastReaches DEF GoalFits

\* q is the queue before the snapshot, k what is counted.
LEMMA SaveKeeps ==
  ASSUME LedgerInv, phase # "closed", UNCHANGED <<stored, lines, phase, acknowledged, failure>>,
         NEW q \in Seq(Appends), QueueFits(q, stored, revision),
         NEW k \in SUBSET Samples, SamplesFit(q, stored, k), counted' = k,
         NEW g \in Goals0, NEW r \in BOOLEAN, SaveAfter(q, g, r),
         failure /\ g # NoGoal => g.status # "active",
         lateFailure' \in BOOLEAN, torn' \in BOOLEAN, clearing' \in Goals0,
         minted' \subseteq Goals, reading' \in [Readers -> Nat],
         caller' \in [Requests -> Changes],
         \A c \in Requests : CallFits(caller'[c], queue', stored, revision', failure)
  PROVE  LedgerInv'
<1>. DEFINE n == revision + 1
            x == Snapshot(g, n, r)
            p == Append(q, x)
<1>1. revision \in Nat /\ n \in Nat /\ revision <= n /\ stored \in Stores
  BY DEF LedgerInv, LedgerTypes
<1>. HIDE DEF n
<1>2. revision' = n /\ goal' = Stamped(g, n) /\ queue' = p
  BY DEF SaveAfter, n
<1>3. /\ Stamped(g, n) \in Goals0 /\ (Stamped(g, n) = NoGoal <=> g = NoGoal)
      /\ g # NoGoal => Stamped(g, n).status = g.status
      /\ x \in Appends /\ IsSaved(x) /\ x.entry.goal = Stamped(g, n) /\ x.entry.revision = n
  BY <1>1, SnapshotIs
<1>. HIDE DEF x
<1>4. /\ Adds(p, q, revision, n) /\ p # <<>> /\ p[Len(p)] = x /\ p \in Seq(Appends)
  BY <1>1, <1>3, AppendAdds DEF Adds, n
<1>. HIDE DEF p
<1>5. QueueFits(p, stored, n)
  BY <1>1, <1>4, AddsKeepsQueue
<1>6. SamplesFit(p, stored, k)
  BY <1>4, AddsKeepsSamples
<1>7. GoalFits(p, stored, Stamped(g, n), n, failure', lateFailure')
  BY <1>3, <1>4, EndFits
<1>8. QueuesFit'
  <2>1. \A c \in Requests : CallFits(caller'[c], queue', stored', revision', failure')
    OBVIOUS
  <2>. QED
    BY <1>2, <1>5, <1>6, <1>7, <2>1 DEF QueuesFit
<1>9. ReplayFits'
  BY DEF LedgerInv, ReplayFits, Readable, Replayed
<1>10. FailureStopsTheGoal'
  BY <1>2, <1>3 DEF FailureStopsTheGoal, Active
<1>11. LedgerTypes'
  <2>1. goal' \in Goals0 /\ revision' \in Nat /\ queue' \in Seq(Appends)
    BY <1>1, <1>2, <1>3, <1>4
  <2>. QED
    BY <2>1 DEF LedgerInv, LedgerTypes
<1>. QED
  BY <1>8, <1>9, <1>10, <1>11 DEF LedgerInv

\* The request that saves awaits its own write, unless one of its kind still waits.
LEMMA AwaitFits ==
  ASSUME LedgerInv, NEW g \in Goals0, Save(g), UNCHANGED <<stored, failure>>,
         caller' = caller \/ \E request \in Requests : Await(request)
  PROVE  /\ caller' \in [Requests -> Changes]
         /\ \A c \in Requests : CallFits(caller'[c], queue', stored, revision', failure)
<1>. DEFINE n == revision + 1
            x == Snapshot(g, n, FALSE)
            p == Append(queue, x)
<1>1. /\ revision \in Nat /\ n \in Nat /\ revision <= n /\ stored \in Stores
      /\ queue \in Seq(Appends) /\ caller \in [Requests -> Changes] /\ Len(queue) \in Nat
  BY DEF LedgerInv, LedgerTypes
<1>2. revision' = n /\ queue' = p
  BY DEF Save, SaveAfter
<1>3. x \in Appends /\ IsSaved(x) /\ x.entry.revision = n
  BY <1>1, SnapshotIs
<1>. HIDE DEF x
<1>4. /\ Adds(p, queue, revision, n) /\ Len(p) = Len(queue) + 1 /\ p[Len(p)] = x
  BY <1>1, <1>3, AppendAdds
<1>5. \A c \in Requests : CallFits(caller[c], queue, stored, revision, failure)
  BY DEF LedgerInv, QueuesFit
<1>. DEFINE m == Len(queue) + 1
            a == [stage |-> "writes", left |-> m, revision |-> n]
<1>6. m \in Nat /\ m \in 1..Len(p) /\ p[m] = x
  BY <1>1, <1>4
<1>. HIDE DEF n, p, m
<1>7. \A c \in Requests : CallFits(caller[c], p, stored, n, failure)
  BY <1>1, <1>4, <1>5, AddsKeepsCall
<1>8. a \in Changes /\ a.stage = "writes" /\ a.left = m /\ a.revision = n
  BY <1>1, <1>6 DEF Changes
<1>. HIDE DEF a
<1>9. CallFits(a, p, stored, n, failure)
  BY <1>1, <1>3, <1>6, <1>8 DEF CallFits
<1>10. CASE caller' = caller
  BY <1>1, <1>2, <1>7, <1>10
<1>11. ASSUME NEW request \in Requests, Await(request)
       PROVE  /\ caller' \in [Requests -> Changes]
              /\ \A c \in Requests : CallFits(caller'[c], p, stored, n, failure)
  <2>1. caller' = IF caller[request] = NoCall THEN [caller EXCEPT ![request] = a] ELSE caller
    BY <1>11 DEF Await, a, m, n
  <2>2. CASE caller' = caller
    BY <1>1, <1>7, <2>2
  <2>3. CASE caller' = [caller EXCEPT ![request] = a]
    BY <1>1, <1>7, <1>8, <1>9, <2>3
  <2>. QED
    BY <2>1, <2>2, <2>3
<1>. QED
  BY <1>2, <1>10, <1>11

LEMMA InvTypes ==
  ASSUME LedgerInv
  PROVE  /\ goal \in Goals0 /\ clearing \in Goals0 /\ revision \in Nat /\ failure \in BOOLEAN
         /\ torn \in BOOLEAN /\ lateFailure \in BOOLEAN /\ counted \in SUBSET Samples
         /\ minted \subseteq Goals /\ stored \in Stores
         /\ reading \in [Readers -> Nat] /\ caller \in [Requests -> Changes]
         /\ queue \in Seq(Appends) /\ acknowledged \in Nat
         /\ QueueFits(queue, stored, revision) /\ SamplesFit(queue, stored, counted)
BY DEF LedgerInv, LedgerTypes, QueuesFit

\* A save by a request, or by work for the goal.
LEMMA ChangeKeeps ==
  ASSUME LedgerInv, phase # "closed", NEW g \in Goals0, Save(g),
         failure /\ g # NoGoal => g.status # "active",
         caller' = caller \/ \E request \in Requests : Await(request),
         UNCHANGED <<counted, failure, stored, lines, torn, phase, reading, acknowledged,
                     lateFailure>>,
         clearing' \in Goals0, minted' \subseteq Goals
  PROVE  LedgerInv'
<1>1. /\ caller' \in [Requests -> Changes]
      /\ \A c \in Requests : CallFits(caller'[c], queue', stored, revision', failure)
  BY AwaitFits
<1>2. SaveAfter(queue, g, FALSE)
  BY DEF Save
<1>3. /\ lateFailure' \in BOOLEAN /\ torn' \in BOOLEAN /\ reading' \in [Readers -> Nat]
      /\ counted \in SUBSET Samples /\ counted' = counted /\ queue \in Seq(Appends)
      /\ QueueFits(queue, stored, revision) /\ SamplesFit(queue, stored, counted)
  BY InvTypes
<1>. QED
  BY <1>1, <1>2, <1>3, SaveKeeps

LEMMA SetGoalKeeps ==
  ASSUME LedgerInv, NEW id \in Goals, SetGoal(id)
  PROVE  LedgerInv'
<1>. DEFINE g == [id |-> id, status |-> "active", revision |-> revision, tokens |-> 0]
<1>1. phase # "closed" /\ ~failure
  BY DEF SetGoal, Control, Open
<1>2. g \in Goals0
  BY InvTypes DEF Goals0, Goal, Statuses
<1>3. Save(g) /\ Await("change") /\ "change" \in Requests
  BY DEF SetGoal, Requests
<1>. HIDE DEF g
<1>4. clearing' \in Goals0 /\ minted' \subseteq Goals
  BY InvTypes DEF SetGoal
<1>. QED
  BY <1>1, <1>2, <1>3, <1>4, ChangeKeeps DEF SetGoal

LEMMA WithStatus ==
  ASSUME NEW g \in Goals0, g # NoGoal, NEW status \in Statuses
  PROVE  [g EXCEPT !.status = status] \in Goals0
BY DEF Goals0, Goal

LEMMA ReviseKeeps ==
  ASSUME LedgerInv, NEW status \in {"active", "stopped"}, Revise(status)
  PROVE  LedgerInv'
<1>. DEFINE g == [goal EXCEPT !.status = status]
<1>1. phase # "closed" /\ ~failure /\ goal # NoGoal
  BY DEF Revise, Control, Open
<1>2. g \in Goals0
  BY <1>1, InvTypes, WithStatus DEF Statuses
<1>3. Save(g) /\ Await("change") /\ "change" \in Requests
  BY DEF Revise, Requests
<1>. HIDE DEF g
<1>4. clearing' \in Goals0 /\ minted' \subseteq Goals
  BY InvTypes DEF Revise
<1>. QED
  BY <1>1, <1>2, <1>3, <1>4, ChangeKeeps DEF Revise

LEMMA WorkKeeps ==
  ASSUME LedgerInv, NEW status \in Statuses, Work(status)
  PROVE  LedgerInv'
<1>. DEFINE g == [goal EXCEPT !.status = status]
<1>1. phase # "closed" /\ ~failure /\ goal # NoGoal
  BY DEF Work, Open, Active, LedgerInv, FailureStopsTheGoal
<1>2. g \in Goals0
  BY <1>1, InvTypes, WithStatus
<1>3. Save(g) /\ Await("change") /\ "change" \in Requests
  BY DEF Work, Requests
<1>. HIDE DEF g
<1>4. clearing' \in Goals0 /\ minted' \subseteq Goals
  BY InvTypes DEF Work
<1>. QED
  BY <1>1, <1>2, <1>3, <1>4, ChangeKeeps DEF Work

LEMMA ClearGoalKeeps ==
  ASSUME LedgerInv, ClearGoal
  PROVE  LedgerInv'
<1>1. phase # "closed" /\ ~failure
  BY DEF ClearGoal, Control, Open
<1>2. NoGoal \in Goals0
  BY DEF Goals0
<1>3. Save(NoGoal) /\ Await("clear") /\ "clear" \in Requests
  BY DEF ClearGoal, Requests
<1>4. clearing' \in Goals0 /\ minted' \subseteq Goals
  BY InvTypes DEF ClearGoal
<1>. QED
  BY <1>1, <1>2, <1>3, <1>4, ChangeKeeps DEF ClearGoal

\* Who waits, waits on when a snapshot is added.
LEMMA CallsStay ==
  ASSUME LedgerInv, NEW q \in Seq(Appends), NEW g \in Goals0, NEW r \in BOOLEAN,
         SaveAfter(q, g, r), UNCHANGED caller,
         \A c \in Requests : CallFits(caller[c], q, stored, revision, failure)
  PROVE  /\ caller' \in [Requests -> Changes]
         /\ \A c \in Requests : CallFits(caller'[c], queue', stored, revision', failure)
<1>. DEFINE n == revision + 1
            x == Snapshot(g, n, r)
            p == Append(q, x)
<1>1. /\ revision \in Nat /\ n \in Nat /\ revision <= n /\ stored \in Stores
      /\ caller \in [Requests -> Changes]
  BY InvTypes
<1>. HIDE DEF n
<1>2. revision' = n /\ queue' = p
  BY DEF SaveAfter, n
<1>3. x \in Appends /\ IsSaved(x) /\ x.entry.revision = n
  BY <1>1, SnapshotIs
<1>. HIDE DEF x
<1>4. Adds(p, q, revision, n)
  BY <1>1, <1>3, AppendAdds DEF n
<1>. HIDE DEF p
<1>5. ASSUME NEW c \in Requests
      PROVE  CallFits(caller[c], p, stored, n, failure)
  <2>1. caller[c] \in Changes /\ CallFits(caller[c], q, stored, revision, failure)
    BY <1>1
  <2>. QED
    BY <1>1, <1>4, <2>1, AddsKeepsCall
<1>. QED
  BY <1>1, <1>2, <1>5

Usage(s, id) == [entry |-> [type |-> "usage", sample |-> s, id |-> id], recovery |-> FALSE]

LEMMA ChargedIs ==
  ASSUME NEW g \in Goals0, NEW id
  PROVE  /\ Charged(g, id) \in Goals0 /\ (Charged(g, id) = NoGoal <=> g = NoGoal)
         /\ g # NoGoal => Charged(g, id).status = g.status /\ Charged(g, id).id = g.id
<1>. DEFINE m == g.tokens + 1
            h == [g EXCEPT !.tokens = m]
<1>1. CASE g = NoGoal \/ g.id # id
  BY <1>1 DEF Charged
<1>2. CASE g # NoGoal /\ g.id = id
  <2>1. g \in Goal /\ m \in Nat
    BY <1>2 DEF Goals0, Goal
  <2>2. Charged(g, id) = h
    BY <1>2 DEF Charged
  <2>. HIDE DEF m
  <2>3. h \in Goal /\ h.status = g.status /\ h.id = g.id
    BY <2>1 DEF Goal
  <2>. HIDE DEF h
  <2>4. NoGoal \notin Goal
    BY LedgerConstants
  <2>5. Charged(g, id) # NoGoal
    BY <2>2, <2>3, <2>4
  <2>. QED
    BY <1>2, <2>2, <2>3, <2>5 DEF Goals0
<1>. QED
  BY <1>1, <1>2

\* A new sample is queued.
LEMMA UsageFits ==
  ASSUME LedgerInv, NEW s \in Samples \ counted, NEW id \in Goals
  PROVE  LET q == Append(queue, Usage(s, id)) IN
         /\ q \in Seq(Appends) /\ QueueFits(q, stored, revision)
         /\ SamplesFit(q, stored, counted \cup {s})
         /\ GoalFits(q, stored, Charged(goal, id), revision, failure, lateFailure)
         /\ \A c \in Requests : CallFits(caller[c], q, stored, revision, failure)
<1>. DEFINE x == Usage(s, id)
            q == Append(queue, x)
<1>1. x.entry.type = "usage" /\ x.entry.sample = s /\ x.entry.id = id
  BY DEF Usage
<1>2. ~x.recovery /\ x.recovery = FALSE
  BY DEF Usage
<1>3. x.entry \in Entries
  BY DEF Usage, Entries
<1>4. x \in Appends
  BY <1>3 DEF Usage, Appends
<1>5. ~IsSaved(x)
  BY <1>1 DEF IsSaved
<1>. HIDE DEF x
<1>6. /\ queue \in Seq(Appends) /\ Len(queue) \in Nat /\ stored \in Stores /\ revision \in Nat
      /\ caller \in [Requests -> Changes] /\ goal \in Goals0
      /\ QueueFits(queue, stored, revision) /\ SamplesFit(queue, stored, counted)
  BY InvTypes
<1>7. /\ q \in Seq(Appends) /\ Len(q) = Len(queue) + 1 /\ q[Len(queue) + 1] = x
      /\ \A i \in 1..Len(queue) : q[i] = queue[i]
  BY <1>4, <1>6
<1>. HIDE DEF q
<1>8. ASSUME NEW i \in 1..Len(q)
      PROVE  (i \in 1..Len(queue) /\ q[i] = queue[i]) \/ (i = Len(q) /\ q[i] = x)
  <2>1. i \in 1..Len(queue) \/ i = Len(queue) + 1
    BY <1>6, <1>7
  <2>. QED
    BY <1>7, <2>1
<1>9. QueueFits(q, stored, revision)
  <2>1. \A i \in 1..Len(q) : q[i].recovery => IsSaved(q[i])
    BY <1>2, <1>6, <1>8 DEF QueueFits
  <2>2. \A i \in 1..Len(q) : IsSaved(q[i]) => i \in 1..Len(queue) /\ q[i] = queue[i]
    BY <1>5, <1>8
  <2>. QED
    BY <1>6, <2>1, <2>2 DEF QueueFits
<1>10. SamplesFit(q, stored, counted \cup {s})
  <2>1. stored.keys \subseteq counted /\ s \notin counted
    BY <1>6 DEF SamplesFit
  <2>2. \A i \in 1..Len(queue) :
          ~IsSaved(queue[i]) => queue[i].entry.sample \in counted \ stored.keys
    BY <1>6 DEF SamplesFit
  <2>3. \A i \in 1..Len(q) :
          ~IsSaved(q[i]) => q[i].entry.sample \in (counted \cup {s}) \ stored.keys
    BY <1>1, <1>8, <2>1, <2>2
  <2>4. ASSUME NEW i \in 1..Len(q), NEW j \in 1..Len(q), i # j, ~IsSaved(q[i]), ~IsSaved(q[j])
        PROVE  q[i].entry.sample # q[j].entry.sample
    <3>1. CASE i \in 1..Len(queue) /\ q[i] = queue[i] /\ j \in 1..Len(queue) /\ q[j] = queue[j]
      BY <1>6, <2>4, <3>1 DEF SamplesFit
    <3>2. CASE i = Len(q) /\ q[i] = x /\ j \in 1..Len(queue) /\ q[j] = queue[j]
      BY <1>1, <2>1, <2>2, <2>4, <3>2
    <3>3. CASE j = Len(q) /\ q[j] = x /\ i \in 1..Len(queue) /\ q[i] = queue[i]
      BY <1>1, <2>1, <2>2, <2>4, <3>3
    <3>. QED
      BY <1>8, <2>4, <3>1, <3>2, <3>3
  <2>. QED
    BY <2>1, <2>3, <2>4 DEF SamplesFit
<1>11. GoalFits(q, stored, Charged(goal, id), revision, failure, lateFailure)
  <2>. SUFFICES ASSUME ~lateFailure, failure => \E i \in 1..Len(q) : q[i].recovery
       PROVE  Reaches(q, stored, Charged(goal, id), revision)
    BY DEF GoalFits
  <2>1. failure => \E i \in 1..Len(queue) : queue[i].recovery
    BY <1>2, <1>8
  <2>2. Reaches(queue, stored, goal, revision)
    BY <2>1 DEF LedgerInv, QueuesFit, GoalFits
  <2>. QED
    BY <1>1, <1>5, <1>6, <2>2, UsageReaches DEF q
<1>12. ASSUME NEW c \in Requests
       PROVE  CallFits(caller[c], q, stored, revision, failure)
  <2>1. CallFits(caller[c], queue, stored, revision, failure) /\ caller[c] \in Changes
    BY <1>6 DEF LedgerInv, QueuesFit
  <2>. SUFFICES ASSUME caller[c] # NoCall PROVE CallFits(caller[c], q, stored, revision, failure)
    BY DEF CallFits
  <2>2. /\ caller[c].stage # "none" /\ caller[c].left \in 1..Len(queue)
        /\ caller[c].revision <= revision
        /\ caller[c].stage = "writes" =>
             /\ IsSaved(queue[caller[c].left])
             /\ queue[caller[c].left].entry.revision = caller[c].revision
    BY <2>1 DEF CallFits
  <2>3. caller[c].left \in 1..Len(q) /\ q[caller[c].left] = queue[caller[c].left]
    BY <1>6, <1>7, <2>2
  <2>4. caller[c].stage = "store" => failure \/ caller[c].revision <= stored.revision
    BY <2>1 DEF CallFits
  <2>5. caller[c].stage = "store" =>
          \A i \in 1..Len(q) : IsSaved(q[i]) => caller[c].revision <= q[i].entry.revision
    BY <1>5, <1>8, <2>1 DEF CallFits
  <2>. QED
    BY <2>2, <2>3, <2>4, <2>5 DEF CallFits
<1>. QED
  BY <1>7, <1>9, <1>10, <1>11, <1>12 DEF q, x

LEMMA RecordUsageKeeps ==
  ASSUME LedgerInv, NEW s \in Samples, NEW id \in Goals, NEW exhausts \in BOOLEAN,
         RecordUsage(s, id, exhausts)
  PROVE  LedgerInv'
<1>. DEFINE q == Append(queue, Usage(s, id))
            k == counted \cup {s}
            c == Charged(goal, id)
            g == [c EXCEPT !.status = "stopped"]
<1>1. /\ phase # "closed" /\ s \in Samples \ counted /\ counted' = k
      /\ UNCHANGED <<failure, clearing, stored, lines, torn, phase, caller, reading,
                     minted, acknowledged, lateFailure>>
  BY DEF RecordUsage, Open
<1>2. /\ q \in Seq(Appends) /\ QueueFits(q, stored, revision) /\ SamplesFit(q, stored, k)
      /\ GoalFits(q, stored, c, revision, failure, lateFailure)
      /\ \A r \in Requests : CallFits(caller[r], q, stored, revision, failure)
  BY <1>1, UsageFits
<1>3. c \in Goals0 /\ (c = NoGoal <=> goal = NoGoal) /\ (goal # NoGoal => c.status = goal.status)
  BY InvTypes, ChargedIs
<1>4. \/ Active /\ SaveAfter(q, g, FALSE)
      \/ goal' = c /\ queue' = q /\ revision' = revision
  BY DEF RecordUsage, Usage
<1>5. k \in SUBSET Samples
  BY InvTypes
<1>6. /\ lateFailure' \in BOOLEAN /\ torn' \in BOOLEAN /\ clearing' \in Goals0
      /\ minted' \subseteq Goals /\ reading' \in [Readers -> Nat]
  BY <1>1, InvTypes
<1>. HIDE DEF q, k, c
<1>7. CASE Active /\ SaveAfter(q, g, FALSE)
  <2>1. ~failure /\ goal # NoGoal
    BY <1>7 DEF LedgerInv, FailureStopsTheGoal, Active
  <2>2. g \in Goals0
    BY <1>3, <2>1, WithStatus DEF Statuses
  <2>. HIDE DEF g
  <2>3. FALSE \in BOOLEAN /\ UNCHANGED caller
    BY <1>1
  <2>4. /\ caller' \in [Requests -> Changes]
        /\ \A r \in Requests : CallFits(caller'[r], queue', stored, revision', failure)
    BY <1>2, <1>7, <2>2, <2>3, CallsStay
  <2>. QED
    BY <1>1, <1>2, <1>5, <1>6, <1>7, <2>1, <2>2, <2>3, <2>4, SaveKeeps
<1>8. CASE goal' = c /\ queue' = q /\ revision' = revision
  <2>1. QueuesFit'
    BY <1>1, <1>2, <1>8 DEF QueuesFit
  <2>2. ReplayFits'
    BY <1>1 DEF LedgerInv, ReplayFits, Readable, Replayed
  <2>3. FailureStopsTheGoal'
    BY <1>1, <1>3, <1>8 DEF LedgerInv, FailureStopsTheGoal, Active
  <2>4. LedgerTypes'
    BY <1>1, <1>2, <1>3, <1>5, <1>6, <1>8 DEF LedgerInv, LedgerTypes
  <2>. QED
    BY <1>1, <2>1, <2>2, <2>3, <2>4 DEF LedgerInv
<1>. QED
  BY <1>4, <1>7, <1>8

LEMMA ReadKeeps ==
  ASSUME LedgerInv, NEW r \in Readers, Read(r)
  PROVE  LedgerInv'
<1>1. /\ phase # "closed"
      /\ UNCHANGED <<counted, failure, clearing, stored, lines, torn, phase, caller,
                     minted, acknowledged, lateFailure>>
  BY DEF Read, Open
<1>2. /\ goal \in Goals0 /\ queue \in Seq(Appends) /\ counted \in SUBSET Samples
      /\ QueueFits(queue, stored, revision) /\ SamplesFit(queue, stored, counted)
      /\ lateFailure' \in BOOLEAN /\ torn' \in BOOLEAN /\ clearing' \in Goals0
      /\ minted' \subseteq Goals /\ reading \in [Readers -> Nat]
  BY <1>1, InvTypes
<1>3. CASE SaveAfter(queue, goal, TRUE) /\ failure /\ UNCHANGED reading
  <2>1. goal # NoGoal => goal.status # "active"
    BY <1>3 DEF LedgerInv, FailureStopsTheGoal, Active
  <2>2. \A c \in Requests : CallFits(caller[c], queue, stored, revision, failure)
    BY DEF LedgerInv, QueuesFit
  <2>3. TRUE \in BOOLEAN /\ UNCHANGED caller /\ reading' \in [Readers -> Nat]
    BY <1>1, <1>2, <1>3
  <2>4. /\ caller' \in [Requests -> Changes]
        /\ \A c \in Requests : CallFits(caller'[c], queue', stored, revision', failure)
    BY <1>2, <1>3, <2>2, <2>3, CallsStay
  <2>. QED
    BY <1>1, <1>2, <1>3, <2>1, <2>3, <2>4, SaveKeeps
<1>4. CASE reading' = [reading EXCEPT ![r] = Len(queue)] /\ UNCHANGED <<goal, revision, queue>>
  <2>1. reading' \in [Readers -> Nat]
    BY <1>2, <1>4
  <2>2. QueuesFit'
    BY <1>1, <1>4 DEF LedgerInv, QueuesFit
  <2>3. ReplayFits'
    BY <1>1 DEF LedgerInv, ReplayFits, Readable, Replayed
  <2>4. FailureStopsTheGoal'
    BY <1>1, <1>4 DEF LedgerInv, FailureStopsTheGoal, Active
  <2>5. LedgerTypes'
    BY <1>1, <1>4, <2>1 DEF LedgerInv, LedgerTypes
  <2>. QED
    BY <1>1, <2>2, <2>3, <2>4, <2>5 DEF LedgerInv
<1>. QED
  BY <1>3, <1>4 DEF Read

-----------------------------------------------------------------------------
\* An append ends.

LEMMA CountedOnce ==
  ASSUME NEW S, IsFiniteSet(S)
  PROVE  Cardinality(S) \in Nat /\ DOMAIN SetToSeq(S) = 1..Cardinality(S)
<1>. DEFINE n == Cardinality(S)
<1>1. n \in Nat /\ ExistsBijection(1..n, S)
  BY FS_CardinalityType
<1>2. PICK f \in Bijection(1..n, S) : TRUE
  BY <1>1 DEF ExistsBijection
<1>3. f \in [1..n -> S] /\ \A a, b \in 1..n : f[a] = f[b] => a = b
  BY <1>2 DEF Bijection, Injection, IsInjective
<1>4. DOMAIN f = 1..n
  BY <1>3
<1>5. IsInjective(f)
  BY <1>3, <1>4 DEF IsInjective
<1>6. SetToSeq(S) \in [1..n -> S]
  BY <1>3, <1>5, Zenon DEF SetToSeq
<1>. QED
  BY <1>1, <1>6

LEMMA RecoveriesAre ==
  ASSUME NEW g \in Goals0, NEW n \in Nat
  PROVE  /\ Recoveries(g, n) \in Seq(Appends) /\ Len(Recoveries(g, n)) \in Nat
         /\ \A i \in 1..Len(Recoveries(g, n)) :
              Recoveries(g, n)[i] = Snapshot(g, n + i, TRUE)
<1>. DEFINE m == Cardinality(Finders)
            a == [i \in 1..m |-> Snapshot(g, n + i, TRUE)]
<1>1. IsFiniteSet(Finders)
  BY LedgerConstants, FS_Subset DEF Finders
<1>2. m \in Nat /\ DOMAIN SetToSeq(Finders) = 1..m
  BY <1>1, CountedOnce
<1>3. Recoveries(g, n) = a
  BY <1>2 DEF Recoveries
<1>. HIDE DEF m
<1>4. ASSUME NEW i \in 1..m
      PROVE  Snapshot(g, n + i, TRUE) \in Appends
  <2>1. n + i \in Nat /\ TRUE \in BOOLEAN
    BY <1>2
  <2>. QED
    BY <2>1, SnapshotIs
<1>5. a \in [1..m -> Appends]
  BY <1>4
<1>7. \A i \in 1..m : a[i] = Snapshot(g, n + i, TRUE)
  OBVIOUS
<1>. HIDE DEF a
<1>6. a \in Seq(Appends) /\ Len(a) = m
  BY <1>2, <1>5
<1>. QED
  BY <1>2, <1>3, <1>6, <1>7

\* The recoveries come behind what is queued; the last of them is the goal.
Recovered(p, q, g, n, m, k) ==
  /\ k \in Nat /\ m = n + k /\ Adds(p, q, n, m)
  /\ k = 0 => p = q
  /\ k # 0 => /\ p # <<>> /\ IsSaved(p[Len(p)])
             /\ p[Len(p)].entry.goal = Stamped(g, m) /\ p[Len(p)].entry.revision = m

LEMMA RecoveriesAdd ==
  ASSUME NEW q \in Seq(Appends), NEW g \in Goals0, NEW n \in Nat, NEW saves,
         saves = Recoveries(g, n) \/ saves = <<>>
  PROVE  Recovered(q \o saves, q, g, n, n + Len(saves), Len(saves))
<1>. DEFINE k == Len(saves)
            p == q \o saves
<1>1. /\ saves \in Seq(Appends) /\ k \in Nat
      /\ \A i \in 1..k : saves[i] = Snapshot(g, n + i, TRUE)
  <2>1. CASE saves = <<>>
    BY <2>1
  <2>2. CASE saves = Recoveries(g, n)
    BY <2>2, RecoveriesAre
  <2>. QED
    BY <2>1, <2>2
<1>2. ASSUME NEW i \in 1..k
      PROVE  /\ IsSaved(saves[i]) /\ saves[i].entry.revision = n + i
             /\ saves[i].entry.goal = Stamped(g, n + i)
  <2>1. PICK z \in Nat : z = n + i
    BY <1>1
  <2>2. saves[i] = Snapshot(g, z, TRUE)
    BY <1>1, <2>1
  <2>3. /\ IsSaved(Snapshot(g, z, TRUE)) /\ Snapshot(g, z, TRUE).entry.revision = z
        /\ Snapshot(g, z, TRUE).entry.goal = Stamped(g, z)
    BY SnapshotIs
  <2>. QED
    BY <2>1, <2>2, <2>3, Zenon
<1>3. /\ p \in Seq(Appends) /\ Len(q) \in Nat /\ Len(p) = Len(q) + k
      /\ \A i \in 1..(Len(q) + k) : p[i] = IF i <= Len(q) THEN q[i] ELSE saves[i - Len(q)]
  BY <1>1, ConcatProperties
<1>. HIDE DEF k, p
<1>4. \A i \in 1..Len(q) : p[i] = q[i]
  BY <1>1, <1>3
<1>5. ASSUME NEW i \in (Len(q) + 1)..Len(p)
      PROVE  i - Len(q) \in 1..k /\ p[i] = saves[i - Len(q)]
  BY <1>1, <1>3
<1>6. ASSUME NEW i \in (Len(q) + 1)..Len(p)
      PROVE  IsSaved(p[i]) /\ p[i].entry.revision = n + (i - Len(q))
  BY <1>2, <1>5
<1>7. Adds(p, q, n, n + k)
  <2>1. Len(p) >= Len(q)
    BY <1>1, <1>3
  <2>2. ASSUME NEW i \in (Len(q) + 1)..Len(p)
        PROVE  p[i].entry.revision > n /\ p[i].entry.revision <= n + k
    <3>1. PICK z \in 1..k : z = i - Len(q)
      BY <1>5
    <3>2. p[i].entry.revision = n + z
      BY <1>6, <3>1
    <3>3. n + z > n /\ n + z <= n + k
      BY <1>1
    <3>. QED
      BY <3>2, <3>3, Zenon
  <2>3. ASSUME NEW i \in (Len(q) + 1)..Len(p), NEW j \in (Len(q) + 1)..Len(p), i < j
        PROVE  p[i].entry.revision <= p[j].entry.revision
    <3>1. PICK y \in 1..k, z \in 1..k : y = i - Len(q) /\ z = j - Len(q)
      BY <1>5
    <3>2. y <= z
      <4>1. i \in Nat /\ j \in Nat /\ Len(q) \in Nat
        BY <1>1, <1>3
      <4>. QED
        BY <2>3, <3>1, <4>1
    <3>3. n + y <= n + z
      BY <3>2
    <3>4. p[i].entry.revision = n + y /\ p[j].entry.revision = n + z
      BY <1>6, <3>1, Zenon
    <3>. QED
      BY <3>3, <3>4, Zenon
  <2>. QED
    BY <1>3, <1>4, <1>6, <2>1, <2>2, <2>3 DEF Adds
<1>8. ASSUME k = 0
      PROVE  p = q
  <2>1. saves = <<>>
    BY <1>1, <1>8, EmptySeq DEF k
  <2>. QED
    BY <2>1, ConcatEmptySeq DEF p
<1>9. ASSUME k # 0
      PROVE  /\ p # <<>> /\ IsSaved(p[Len(p)])
             /\ p[Len(p)].entry.goal = Stamped(g, n + k) /\ p[Len(p)].entry.revision = n + k
  <2>1. k > 0
    BY <1>1, <1>9
  <2>2. Len(p) \in (Len(q) + 1)..Len(p) /\ Len(p) - Len(q) = k /\ k \in 1..k
    BY <1>1, <1>3, <2>1
  <2>3. p[Len(p)] = saves[k]
    BY <1>5, <2>2
  <2>4. p # <<>>
    BY <1>3, <2>1, <1>1, EmptySeq
  <2>. QED
    BY <1>2, <2>2, <2>3, <2>4
<1>. QED
  BY <1>1, <1>7, <1>8, <1>9 DEF k, p, Recovered

\* What acknowledged becomes: what it was, or the revision of a request that is told.
LEMMA AcknowledgedIs ==
  ASSUME LedgerInv, NEW told \in SUBSET Requests, NEW bound \in Nat,
         \A c \in told : caller[c].revision <= bound
  PROVE  LET new == CHOOSE m \in {acknowledged} \cup {caller[c].revision : c \in told} :
                      \A c \in told : m >= acknowledged /\ m >= caller[c].revision
         IN new \in Nat /\ (new = acknowledged \/ new <= bound)
<1>. DEFINE S == {acknowledged} \cup {caller[c].revision : c \in told}
            P(m) == \A c \in told : m >= acknowledged /\ m >= caller[c].revision
<1>1. acknowledged \in Nat /\ \A c \in Requests : caller[c].revision \in Nat
  BY InvTypes DEF Changes
<1>2. \E m \in S : P(m)
  <2>. DEFINE a == caller["clear"].revision
              b == caller["change"].revision
  <2>0. a \in Nat /\ b \in Nat
    BY <1>1 DEF Requests
  <2>1. CASE told = {}
    BY <2>1
  <2>2. CASE told = {"clear"}
    <3>1. S = {acknowledged, a} /\ (\A m : P(m) <=> m >= acknowledged /\ m >= a)
      BY <2>2
    <3>. HIDE DEF S, P, a
    <3>. QED
      BY <1>1, <2>0, <3>1
  <2>3. CASE told = {"change"}
    <3>1. S = {acknowledged, b} /\ (\A m : P(m) <=> m >= acknowledged /\ m >= b)
      BY <2>3
    <3>. HIDE DEF S, P, b
    <3>. QED
      BY <1>1, <2>0, <3>1
  <2>4. CASE told = {"clear", "change"}
    <3>1. S = {acknowledged, a, b}
      BY <2>4
    <3>2. \A m : P(m) <=> m >= acknowledged /\ m >= a /\ m >= b
      BY <2>4
    <3>. HIDE DEF S, P, a, b
    <3>. QED
      BY <1>1, <2>0, <3>1, <3>2
  <2>. QED
    BY <2>1, <2>2, <2>3, <2>4 DEF Requests
<1>. DEFINE new == CHOOSE m \in S : P(m)
<1>3. new \in S
  BY <1>2
<1>. HIDE DEF new
<1>4. new \in Nat /\ (new = acknowledged \/ new <= bound)
  BY <1>1, <1>3
<1>. QED
  BY <1>4 DEF new

LEMMA StoppedIs ==
  ASSUME LedgerInv, NEW ok \in BOOLEAN
  PROVE  /\ Stopped(ok) \in Goals0 /\ (ok => Stopped(ok) = goal)
         /\ ~ok /\ Stopped(ok) # NoGoal => Stopped(ok).status = "stopped"
<1>. DEFINE g == IF goal = NoGoal THEN clearing ELSE goal
            n == revision + 1
            h == [g EXCEPT !.status = "stopped", !.revision = n]
<1>1. goal \in Goals0 /\ g \in Goals0 /\ n \in Nat
  BY InvTypes
<1>2. Stopped(ok) = IF ok \/ g = NoGoal THEN goal ELSE h
  BY DEF Stopped
<1>3. ~ok /\ g = NoGoal => goal = NoGoal
  OBVIOUS
<1>. HIDE DEF g, n
<1>4. g # NoGoal => h \in Goals0 /\ h.status = "stopped"
  BY <1>1 DEF Goals0, Goal, Statuses
<1>. QED
  BY <1>1, <1>2, <1>3, <1>4

\* What the end of an append keeps, whatever it leaves on disk.
LEMMA SettleKeeps ==
  ASSUME LedgerInv, queue # <<>>, NEW ok \in BOOLEAN, Settle(ok), torn' \in BOOLEAN,
         ok => Written(stored, queue[1], stored'), ~ok => stored' = stored
  PROVE  /\ LedgerTypes' /\ QueuesFit' /\ FailureStopsTheGoal'
         /\ phase # "closed" /\ phase' # "closed" /\ stored.revision <= stored'.revision
         /\ acknowledged' = acknowledged \/ acknowledged' <= stored'.revision
<1>. DEFINE n == IF ok THEN revision ELSE revision + 1
            g == Stopped(ok)
            known == FailureAfter(ok)
            saves == IF known THEN Recoveries(g, n) ELSE <<>>
            q == Tail(queue)
            t == stored'
            p == q \o saves
            m == n + Len(saves)
<1>1. /\ queue \in Seq(Appends) /\ stored \in Stores /\ revision \in Nat /\ goal \in Goals0
      /\ QueueFits(queue, stored, revision) /\ SamplesFit(queue, stored, counted)
      /\ caller \in [Requests -> Changes] /\ reading \in [Readers -> Nat]
      /\ failure \in BOOLEAN /\ lateFailure \in BOOLEAN /\ clearing \in Goals0
      /\ counted \in SUBSET Samples /\ minted \subseteq Goals
  BY InvTypes
<1>2. phase # "closed"
  BY DEF LedgerInv
<1>3. /\ g \in Goals0 /\ (ok => g = goal)
      /\ ~ok /\ g # NoGoal => g.status = "stopped"
  BY StoppedIs
<1>4. n \in Nat /\ revision <= n
  BY <1>1
<1>5. known \in BOOLEAN /\ (known <=> ~ok \/ (failure /\ ~Head(queue).recovery))
  <2>1. Head(queue).recovery \in BOOLEAN
    <3>1. Head(queue) \in Appends
      BY <1>1
    <3>. QED
      BY <3>1, AppendTypes
  <2>. QED
    BY <1>1, <2>1 DEF FailureAfter, Write
<1>6. Head(queue) = queue[1] /\ q \in Seq(Appends) /\ Rest = q
  BY <1>1 DEF Rest
<1>7. /\ failure' = known /\ revision' = m /\ queue' = p
      /\ goal' = IF saves = <<>> THEN g ELSE Stamped(g, m)
  BY <1>6 DEF Settle
<1>8. /\ lateFailure' = (lateFailure \/ (~ok /\ \E i \in DOMAIN q : q[i].recovery))
      /\ UNCHANGED <<counted, spending, minted>>
  BY <1>6 DEF Settle
<1>9. saves = Recoveries(g, n) \/ saves = <<>>
  OBVIOUS
<1>10. WrittenOrKnown(stored, queue[1], t, known)
  BY <1>5 DEF WrittenOrKnown
<1>11. ~known => ~failure \/ queue[1].recovery
  BY <1>5, <1>6
<1>. HIDE DEF n, g, known, saves, q, t
<1>12. Recovered(p, q, g, n, m, Len(saves)) /\ (saves = <<>> <=> Len(saves) = 0)
  <2>1. q \in Seq(Appends) /\ g \in Goals0 /\ n \in Nat
    BY <1>3, <1>4, <1>6
  <2>2. Recovered(p, q, g, n, m, Len(saves))
    BY <2>1, <1>9, RecoveriesAdd, Zenon
  <2>3. saves \in Seq(Appends)
    <3>1. CASE saves = <<>>
      BY <3>1
    <3>2. CASE saves = Recoveries(g, n)
      BY <2>1, <3>2, RecoveriesAre, Zenon
    <3>. QED
      BY <1>9, <3>1, <3>2
  <2>. QED
    BY <2>2, <2>3, EmptySeq
<1>. HIDE DEF p, m
<1>13. /\ m \in Nat /\ n <= m /\ p \in Seq(Appends) /\ Adds(p, q, n, m)
       /\ (saves = <<>> => m = n /\ p = q)
       /\ saves # <<>> => /\ p # <<>> /\ IsSaved(p[Len(p)])
                         /\ p[Len(p)].entry.goal = Stamped(g, m)
                         /\ p[Len(p)].entry.revision = m
  BY <1>4, <1>12 DEF Adds, Recovered
<1>14. QueueFits(q, t, revision) /\ stored.revision <= t.revision /\ t \in Stores
  BY <1>1, <1>10, SettleKeepsQueue DEF q
<1>15. QueueFits(p, t, m)
  <2>1. Adds(p, q, revision, m)
    <3>1. \A i \in (Len(q) + 1)..Len(p) : IsSaved(p[i]) => p[i].entry.revision \in Nat
      <4>1. Len(q) \in Nat /\ Len(p) \in Nat
        BY <1>6, <1>13
      <4>. QED
        BY <1>13, <4>1, AppendTypes
    <3>2. \A i \in (Len(q) + 1)..Len(p) : IsSaved(p[i]) /\ p[i].entry.revision > n
      BY <1>13 DEF Adds
    <3>3. \A i \in (Len(q) + 1)..Len(p) : p[i].entry.revision > revision
      BY <1>1, <1>4, <3>1, <3>2
    <3>. QED
      BY <1>13, <3>3 DEF Adds
  <2>2. revision <= m
    BY <1>1, <1>4, <1>13
  <2>. QED
    BY <1>1, <1>6, <1>13, <1>14, <2>1, <2>2, AddsKeepsQueue
<1>16. SamplesFit(p, t, counted)
  <2>1. SamplesFit(q, t, counted)
    BY <1>1, <1>10, SettleKeepsSamples DEF q
  <2>. QED
    BY <1>6, <1>13, <2>1, AddsKeepsSamples
<1>17. ASSUME NEW c \in Requests
       PROVE  /\ Awaited(caller[c]) \in Changes /\ CallFits(Awaited(caller[c]), p, t, m, known)
              /\ caller[c] # NoCall /\ Ends(caller[c]) /\ ~known
                   => caller[c].revision <= t.revision
  <2>1. caller[c] \in Changes /\ CallFits(caller[c], queue, stored, revision, failure)
    BY <1>1 DEF LedgerInv, QueuesFit
  <2>2. /\ Awaited(caller[c]) \in Changes
        /\ CallFits(Awaited(caller[c]), q, t, revision, known)
        /\ caller[c] # NoCall /\ Ends(caller[c]) /\ ~known => caller[c].revision <= t.revision
    BY <1>1, <1>10, <1>11, <2>1, SettleKeepsCall DEF q
  <2>3. CallFits(Awaited(caller[c]), q, t, n, known)
    <3>1. Awaited(caller[c]).revision \in Nat
      BY <2>2 DEF Changes
    <3>. QED
      BY <1>1, <1>4, <2>2, <3>1 DEF CallFits
  <2>4. CallFits(Awaited(caller[c]), p, t, m, known)
    BY <1>4, <1>6, <1>13, <1>14, <2>2, <2>3, AddsKeepsCall
  <2>. QED
    BY <2>2, <2>4
<1>18. GoalFits(p, t, goal', m, known, lateFailure')
  <2>1. CASE saves # <<>>
    <3>1. goal' = Stamped(g, m)
      BY <1>7, <2>1
    <3>. QED
      BY <1>13, <2>1, <3>1, EndFits
  <2>2. CASE saves = <<>>
    <3>. SUFFICES ASSUME ~lateFailure', known => \E i \in 1..Len(p) : p[i].recovery
         PROVE  Reaches(p, t, goal', m)
      BY DEF GoalFits
    <3>1. goal' = g /\ p = q /\ m = n
      BY <1>7, <1>13, <2>2
    <3>2. ~lateFailure /\ (~ok => ~\E i \in DOMAIN q : q[i].recovery)
      BY <1>1, <1>8
    <3>3. DOMAIN q = 1..Len(q)
      BY <1>6
    <3>4. ok
      BY <1>5, <3>1, <3>2, <3>3
    <3>5. g = goal /\ n = revision
      BY <1>3, <3>4 DEF n
    <3>6. failure => \E i \in 1..Len(queue) : queue[i].recovery
      <4>. SUFFICES ASSUME failure PROVE \E i \in 1..Len(queue) : queue[i].recovery
        OBVIOUS
      <4>0. Len(queue) \in Nat /\ Len(queue) > 0 /\ 1 \in 1..Len(queue) /\ Len(q) = Len(queue) - 1
        BY <1>1 DEF q
      <4>1. CASE queue[1].recovery
        BY <4>0, <4>1
      <4>2. CASE ~queue[1].recovery
        <5>1. PICK i \in 1..Len(q) : q[i].recovery
          BY <1>5, <1>6, <3>1, <4>2
        <5>2. q[i] = queue[i + 1] /\ i + 1 \in 1..Len(queue)
          BY <1>1, <4>0 DEF q
        <5>. QED
          BY <5>1, <5>2
      <4>. QED
        BY <4>1, <4>2
    <3>7. Reaches(queue, stored, goal, revision)
      BY <3>2, <3>6 DEF LedgerInv, QueuesFit, GoalFits
    <3>8. Written(stored, queue[1], t)
      BY <3>4 DEF t
    <3>. QED
      BY <1>1, <3>1, <3>5, <3>7, <3>8, WriteReaches DEF q
  <2>. QED
    BY <2>1, <2>2
<1>19. caller' = [c \in Requests |-> Awaited(caller[c])]
  BY DEF Settle
<1>20. caller' \in [Requests -> Changes] /\ \A c \in Requests : CallFits(caller'[c], p, t, m, known)
  BY <1>17, <1>19
<1>21. QueuesFit'
  BY <1>7, <1>8, <1>15, <1>16, <1>18, <1>20 DEF QueuesFit, t
<1>22. FailureStopsTheGoal'
  <2>. SUFFICES ASSUME known, goal' # NoGoal PROVE goal'.status # "active"
    BY <1>7 DEF FailureStopsTheGoal, Active
  <2>1. g # NoGoal => g.status # "active"
    <3>1. CASE ok
      BY <1>3, <1>5, <3>1 DEF LedgerInv, FailureStopsTheGoal, Active
    <3>2. CASE ~ok
      BY <1>3, <3>2
    <3>. QED
      BY <3>1, <3>2
  <2>2. (Stamped(g, m) = NoGoal <=> g = NoGoal) /\ (g # NoGoal => Stamped(g, m).status = g.status)
    BY <1>3, <1>13, SnapshotIs
  <2>. QED
    BY <1>7, <2>1, <2>2
<1>23. goal' \in Goals0
  <2>1. Stamped(g, m) \in Goals0
    BY <1>3, <1>13, SnapshotIs
  <2>. QED
    BY <1>3, <1>7, <2>1
<1>24. LET told == {c \in Requests : Ends(caller[c]) /\ ~known}
           new == CHOOSE k \in {acknowledged} \cup {caller[c].revision : c \in told} :
                    \A c \in told : k >= acknowledged /\ k >= caller[c].revision
       IN  acknowledged' = new
  BY DEF Settle, known
<1>25. acknowledged' \in Nat /\ (acknowledged' = acknowledged \/ acknowledged' <= t.revision)
  <2>. DEFINE told == {c \in Requests : Ends(caller[c]) /\ ~known}
  <2>1. t.revision \in Nat
    BY <1>14 DEF Stores
  <2>2. \A c \in told : caller[c].revision <= t.revision
    <3>1. NoCall.left # 1
      BY DEF NoCall
    <3>. QED
      BY <1>17, <3>1 DEF Ends
  <2>3. told \in SUBSET Requests
    OBVIOUS
  <2>. HIDE DEF told
  <2>4. LET new == CHOOSE k \in {acknowledged} \cup {caller[c].revision : c \in told} :
                    \A c \in told : k >= acknowledged /\ k >= caller[c].revision
        IN  new \in Nat /\ (new = acknowledged \/ new <= t.revision)
    BY <2>1, <2>2, <2>3, AcknowledgedIs
  <2>. QED
    BY <1>24, <2>4 DEF told
<1>26. /\ phase' \in {"closed", "opening", "open", "unusable"} /\ phase' # "closed"
       /\ clearing' \in Goals0
  <2>1. phase \in {"closed", "opening", "open", "unusable"} /\ NoGoal \in Goals0
    BY DEF LedgerInv, LedgerTypes, Goals0
  <2>. QED
    BY <1>1, <1>2, <2>1 DEF Settle
<1>27. reading' \in [Readers -> Nat]
  <2>1. reading' = [r \in Readers |-> IF reading[r] = 0 THEN 0 ELSE reading[r] - 1]
    BY DEF Settle
  <2>. QED
    BY <1>1, <2>1
<1>28. lateFailure' \in BOOLEAN
  BY <1>8
<1>29. LedgerTypes'
  <2>1. stored' \in Stores
    BY <1>14 DEF t
  <2>2. failure' \in BOOLEAN /\ revision' \in Nat /\ queue' \in Seq(Appends)
    BY <1>5, <1>7, <1>13
  <2>3. counted' \subseteq Samples /\ minted' \subseteq Goals
    BY <1>1, <1>8
  <2>4. acknowledged' \in Nat
    BY <1>25
  <2>. QED
    BY <1>20, <1>23, <1>26, <1>27, <1>28, <2>1, <2>2, <2>3, <2>4 DEF LedgerTypes
<1>. QED
  BY <1>2, <1>14, <1>21, <1>22, <1>25, <1>26, <1>29 DEF t

-----------------------------------------------------------------------------
\* Appends end.

Ledger == [entry : Entries, sequence : Nat] \cup {Unreadable}

\* What an append that is done leaves on disk, and what that replays to.
LEMMA AppendedFits ==
  ASSUME LedgerInv, queue # <<>>, lines' = Appended
  PROVE  /\ lines' \in Seq(Ledger)
         /\ Readable' => /\ Readable /\ Replayed' = Apply(stored, Line)
         /\ Written(stored, queue[1], Apply(stored, Line))
<1>1. /\ queue \in Seq(Appends) /\ stored \in Stores /\ SamplesFit(queue, stored, counted)
      /\ lines \in Seq(Ledger) /\ phase # "closed"
  BY InvTypes DEF LedgerInv, ReplayFits, Ledger
<1>2. Write = queue[1] /\ queue[1] \in Appends /\ 1 \in 1..Len(queue)
  BY <1>1 DEF Write
<1>3. stored.sequence + 1 \in Nat /\ queue[1].entry \in Entries
  BY <1>1, <1>2, AppendTypes DEF Stores
<1>4. Line = [entry |-> queue[1].entry, sequence |-> stored.sequence + 1]
  BY <1>2 DEF Line
<1>5. Line \in Ledger
  BY <1>3, <1>4 DEF Ledger
<1>6. Written(stored, queue[1], Apply(stored, Line))
  <2>1. ~IsSaved(queue[1]) => queue[1].entry.sample \notin stored.keys
    BY <1>1, <1>2 DEF SamplesFit
  <2>. QED
    BY <1>1, <1>2, <1>4, <2>1, ApplyWrites
<1>. DEFINE x == IF torn THEN Unreadable ELSE Line
<1>7. x \in Ledger /\ lines' = Append(lines, x)
  BY <1>5 DEF Appended, Ledger
<1>. HIDE DEF x
<1>8. /\ lines' \in Seq(Ledger) /\ Len(lines) \in Nat /\ Len(lines') = Len(lines) + 1
      /\ lines'[Len(lines) + 1] = x /\ \A i \in 1..Len(lines) : lines'[i] = lines[i]
      /\ DOMAIN lines = 1..Len(lines) /\ DOMAIN lines' = 1..(Len(lines) + 1)
  BY <1>1, <1>7
<1>9. ASSUME Readable'
      PROVE  Readable /\ Replayed' = Apply(stored, Line)
  <2>1. \A i \in 1..(Len(lines) + 1) : lines'[i] # Unreadable /\ lines'[i].sequence = i
    BY <1>8, <1>9 DEF Readable
  <2>2. Readable
    BY <1>8, <2>1 DEF Readable
  <2>3. x # Unreadable
    BY <1>8, <2>1
  <2>4. x = Line
    BY <2>3 DEF x
  <2>5. Replayed' = Apply(Replayed, x)
    BY <1>1, <1>7, ReplayAppended DEF Replayed
  <2>6. Replayed = stored
    BY <1>1, <2>2 DEF LedgerInv, ReplayFits
  <2>. QED
    BY <2>2, <2>4, <2>5, <2>6
<1>. QED
  BY <1>6, <1>8, <1>9

LEMMA WriteSucceedsKeeps ==
  ASSUME LedgerInv, WriteSucceeds
  PROVE  LedgerInv'
<1>. DEFINE t == Apply(stored, Line)
<1>1. queue # <<>> /\ lines' = Appended /\ torn' = FALSE /\ stored' = t /\ Settle(TRUE)
  BY DEF WriteSucceeds
<1>2. /\ lines' \in Seq(Ledger) /\ (Readable' => Readable /\ Replayed' = t)
      /\ Written(stored, queue[1], t)
  BY <1>1, AppendedFits
<1>. HIDE DEF t
<1>3. /\ LedgerTypes' /\ QueuesFit' /\ FailureStopsTheGoal'
      /\ phase # "closed" /\ phase' # "closed" /\ stored.revision <= stored'.revision
      /\ acknowledged' = acknowledged \/ acknowledged' <= stored'.revision
  <2>1. TRUE \in BOOLEAN /\ torn' \in BOOLEAN
    BY <1>1
  <2>. QED
    BY <1>1, <1>2, <2>1, SettleKeeps
<1>4. t \in Stores
  BY <1>2 DEF Written
<1>5. ASSUME Readable'
      PROVE  acknowledged' <= t.revision
  <2>1. acknowledged <= stored.revision
    BY <1>2, <1>3, <1>5 DEF LedgerInv, ReplayFits
  <2>2. acknowledged \in Nat /\ stored.revision \in Nat /\ t.revision \in Nat
    BY <1>4, InvTypes DEF Stores
  <2>. QED
    BY <1>1, <1>3, <2>1, <2>2
<1>6. ReplayFits'
  BY <1>1, <1>2, <1>4, <1>5 DEF ReplayFits, Ledger
<1>. QED
  BY <1>3, <1>6 DEF LedgerInv

LEMMA WriteFailsKeeps ==
  ASSUME LedgerInv, NEW partly \in BOOLEAN, WriteFails(partly)
  PROVE  LedgerInv'
<1>1. queue # <<>> /\ UNCHANGED <<lines, stored>> /\ torn' = (torn \/ partly) /\ Settle(FALSE)
  BY DEF WriteFails
<1>2. /\ LedgerTypes' /\ QueuesFit' /\ FailureStopsTheGoal'
      /\ phase # "closed" /\ phase' # "closed"
      /\ acknowledged' = acknowledged \/ acknowledged' <= stored'.revision
  <2>1. FALSE \in BOOLEAN /\ torn' \in BOOLEAN /\ stored' = stored
    BY <1>1, InvTypes
  <2>. QED
    BY <1>1, <2>1, SettleKeeps
<1>3. (Readable' <=> Readable) /\ Replayed' = Replayed
  BY <1>1 DEF Readable, Replayed
<1>4. ReplayFits'
  BY <1>1, <1>2, <1>3 DEF LedgerInv, ReplayFits
<1>. QED
  BY <1>2, <1>4 DEF LedgerInv

-----------------------------------------------------------------------------
\* The process dies, and the next one opens the ledger.

\* A store whose queue is empty, with the goal as it is stored.
LEMMA NothingQueued ==
  ASSUME NEW s \in Stores, NEW failed \in BOOLEAN
  PROVE  /\ QueueFits(<<>>, s, s.revision) /\ SamplesFit(<<>>, s, s.keys)
         /\ GoalFits(<<>>, s, s.goal, s.revision, failed, FALSE)
         /\ CallFits(NoCall, <<>>, s, s.revision, failed)
<1>1. Len(<<>>) = 0 /\ 1..0 = {} /\ s.revision \in Nat
  BY DEF Stores
<1>2. QueueFits(<<>>, s, s.revision)
  BY <1>1 DEF QueueFits
<1>3. SamplesFit(<<>>, s, s.keys)
  BY <1>1 DEF SamplesFit
<1>4. CallFits(NoCall, <<>>, s, s.revision, failed)
  BY DEF CallFits
<1>5. Reaches(<<>>, s, s.goal, s.revision)
  <2>. DEFINE f == [i \in {0} |-> s.goal]
  <2>1. f[0] = s.goal /\ 0 \in 0..0 /\ (0 + 1)..0 = {}
    OBVIOUS
  <2>. HIDE DEF f
  <2>2. Leads(<<>>, s, s.goal, s.revision, 0, f)
    BY <1>1, <2>1 DEF Leads, BaseGoal, BaseRevision
  <2>. QED
    BY <1>1, <2>1, <2>2 DEF Reaches
<1>. QED
  BY <1>2, <1>3, <1>4, <1>5 DEF GoalFits

LEMMA BlankIsStore == Blank \in Stores /\ NoGoal \in Goals0
BY DEF Blank, Stores, Goals0

LEMMA NoCallIs == NoCall \in Changes
BY DEF NoCall, Changes

\* The process forgets; s is what the ledger replays to, if it can be read.
LEMMA ForgottenFits ==
  ASSUME Forgotten
  PROVE  QueuesFit' /\ FailureStopsTheGoal' /\ queue' = <<>>
<1>1. /\ goal' = NoGoal /\ revision' = 0 /\ counted' = {} /\ failure' = FALSE
      /\ stored' = Blank /\ queue' = <<>> /\ lateFailure' = FALSE
      /\ caller' = [c \in Requests |-> NoCall]
  BY DEF Forgotten
<1>2. Blank.goal = NoGoal /\ Blank.revision = 0 /\ Blank.keys = {}
  BY DEF Blank
<1>3. /\ QueueFits(<<>>, Blank, 0) /\ SamplesFit(<<>>, Blank, {})
      /\ GoalFits(<<>>, Blank, NoGoal, 0, FALSE, FALSE)
      /\ CallFits(NoCall, <<>>, Blank, 0, FALSE)
  BY <1>2, BlankIsStore, NothingQueued
<1>4. \A c \in Requests : caller'[c] = NoCall
  BY <1>1
<1>5. QueuesFit'
  BY <1>1, <1>3, <1>4 DEF QueuesFit
<1>. QED
  BY <1>1, <1>5 DEF FailureStopsTheGoal

LEMMA CrashKeeps ==
  ASSUME LedgerInv, Crash
  PROVE  LedgerInv'
<1>1. /\ phase # "closed" /\ phase' = "closed" /\ Forgotten /\ UNCHANGED <<minted, acknowledged>>
      /\ \/ UNCHANGED <<lines, torn>>
         \/ queue # <<>> /\ torn' = TRUE /\ UNCHANGED lines
         \/ queue # <<>> /\ lines' = Appended /\ torn' = FALSE
  BY DEF Crash
<1>2. QueuesFit' /\ FailureStopsTheGoal' /\ queue' = <<>>
  BY <1>1, ForgottenFits
<1>3. LedgerTypes'
  <2>1. stored' \in Stores /\ goal' \in Goals0 /\ clearing' \in Goals0
    BY <1>1, BlankIsStore DEF Forgotten
  <2>2. caller' \in [Requests -> Changes] /\ reading' \in [Readers -> Nat]
    BY <1>1, NoCallIs DEF Forgotten
  <2>3. queue' \in Seq(Appends)
    BY <1>2
  <2>4. torn' \in BOOLEAN /\ acknowledged' \in Nat /\ minted' \subseteq Goals
    BY <1>1, InvTypes
  <2>5. /\ revision' \in Nat /\ failure' \in BOOLEAN /\ lateFailure' \in BOOLEAN
        /\ counted' \subseteq Samples
    BY <1>1 DEF Forgotten
  <2>. QED
    BY <1>1, <2>1, <2>2, <2>3, <2>4, <2>5 DEF LedgerTypes
<1>4. ReplayFits'
  <2>1. CASE UNCHANGED lines
    <3>1. (Readable' <=> Readable) /\ Replayed' = Replayed
      BY <2>1 DEF Readable, Replayed
    <3>. QED
      BY <1>1, <2>1, <3>1 DEF LedgerInv, ReplayFits
  <2>2. CASE queue # <<>> /\ lines' = Appended
    <3>. DEFINE t == Apply(stored, Line)
    <3>1. /\ lines' \in Seq(Ledger) /\ (Readable' => Readable /\ Replayed' = t)
          /\ Written(stored, queue[1], t)
      BY <2>2, AppendedFits
    <3>. HIDE DEF t
    <3>2. stored.revision <= t.revision /\ t \in Stores
      <4>1. /\ queue \in Seq(Appends) /\ stored \in Stores /\ revision \in Nat
            /\ QueueFits(queue, stored, revision)
        BY InvTypes
      <4>2. WrittenOrKnown(stored, queue[1], t, TRUE)
        BY <3>1 DEF WrittenOrKnown
      <4>. QED
        BY <2>2, <4>1, <4>2, SettleKeepsQueue
    <3>3. ASSUME Readable'
          PROVE  acknowledged' <= t.revision
      <4>1. acknowledged <= stored.revision
        BY <1>1, <3>1, <3>3 DEF LedgerInv, ReplayFits
      <4>2. acknowledged \in Nat /\ stored.revision \in Nat /\ t.revision \in Nat
        BY <3>2, InvTypes DEF Stores
      <4>. QED
        BY <1>1, <3>2, <4>1, <4>2
    <3>. QED
      BY <1>1, <3>1, <3>2, <3>3 DEF ReplayFits, Ledger
  <2>. QED
    BY <1>1, <2>1, <2>2
<1>. QED
  BY <1>2, <1>3, <1>4 DEF LedgerInv

\* A goal that was running is paused, and that is queued.
Paused(g, n) == [g EXCEPT !.status = "stopped", !.revision = n]
PauseQueue(g, n) == <<Snapshot([g EXCEPT !.status = "stopped"], n, FALSE)>>
PauseCall(n) == [stage |-> "writes", left |-> 1, revision |-> n]

PauseFits(s, g, n, q, p, c) ==
  /\ q \in Seq(Appends) /\ q # <<>> /\ n \in Nat /\ p \in Goals0 /\ p.status = "stopped"
  /\ QueueFits(q, s, n) /\ SamplesFit(q, s, s.keys)
  /\ \A failed, late : GoalFits(q, s, p, n, failed, late)
  /\ c \in Changes
  /\ \A failed : CallFits(NoCall, q, s, n, failed) /\ CallFits(c, q, s, n, failed)

LEMMA PausedFits ==
  ASSUME NEW s \in Stores, NEW g \in Goals0, g # NoGoal, NEW n, n = s.revision + 1
  PROVE  PauseFits(s, g, n, PauseQueue(g, n), Paused(g, n), PauseCall(n))
<1>. DEFINE h == [g EXCEPT !.status = "stopped"]
            x == Snapshot(h, n, FALSE)
            q == <<x>>
            p == [g EXCEPT !.status = "stopped", !.revision = n]
            a == [stage |-> "writes", left |-> 1, revision |-> n]
<1>1. s.revision \in Nat /\ n \in Nat /\ s.revision <= n
  BY DEF Stores
<1>2. h \in Goals0 /\ h # NoGoal
  <2>1. g \in Goal
    BY DEF Goals0
  <2>2. h \in Goal
    BY <2>1 DEF Goal, Statuses
  <2>. QED
    BY <2>2, LedgerConstants DEF Goals0
<1>3. p \in Goals0 /\ p.status = "stopped" /\ Stamped(h, n) = p
  <2>1. g \in Goal
    BY DEF Goals0
  <2>2. p \in Goal /\ p.status = "stopped" /\ p = [h EXCEPT !.revision = n]
    BY <1>1, <2>1 DEF Goal, Statuses
  <2>. QED
    BY <1>2, <2>2 DEF Goals0, Stamped
<1>4. x \in Appends /\ IsSaved(x) /\ x.entry.revision = n
  BY <1>1, <1>2, SnapshotIs
<1>5. x.entry.goal = Stamped(h, n)
  BY DEF Snapshot
<1>6. a.stage = "writes" /\ a.left = 1 /\ a.revision = n /\ a \in Changes
  BY <1>1 DEF Changes
<1>. HIDE DEF h, x, p, a
<1>7. q \in Seq(Appends) /\ Len(q) = 1 /\ q[1] = x /\ q # <<>> /\ 1..1 = {1}
  BY <1>4
<1>. HIDE DEF q
<1>8. QueueFits(q, s, n)
  BY <1>1, <1>4, <1>7 DEF QueueFits
<1>9. SamplesFit(q, s, s.keys)
  BY <1>4, <1>7 DEF SamplesFit
<1>10. ASSUME NEW failed, NEW late
       PROVE  GoalFits(q, s, p, n, failed, late)
  <2>1. /\ IsSaved(q[Len(q)]) /\ q[Len(q)].entry.goal = p /\ q[Len(q)].entry.revision = n
    BY <1>3, <1>4, <1>5, <1>7
  <2>. QED
    BY <1>7, <2>1, EndFits
<1>11. ASSUME NEW failed
       PROVE  CallFits(NoCall, q, s, n, failed) /\ CallFits(a, q, s, n, failed)
  <2>1. CallFits(NoCall, q, s, n, failed)
    BY DEF CallFits
  <2>. QED
    BY <1>1, <1>4, <1>6, <1>7, <2>1 DEF CallFits
<1>. QED
  BY <1>1, <1>3, <1>6, <1>7, <1>8, <1>9, <1>10, <1>11
     DEF h, x, q, p, a, PauseFits, PauseQueue, Paused, PauseCall

LEMMA OpenLedgerKeeps ==
  ASSUME LedgerInv, OpenLedger
  PROVE  LedgerInv'
<1>. DEFINE s == Replayed
            n == s.revision + 1
            q == PauseQueue(s.goal, n)
            p == Paused(s.goal, n)
            a == PauseCall(n)
<1>1. /\ Readable /\ phase = "closed" /\ torn' = FALSE /\ stored' = s /\ counted' = s.keys
      /\ UNCHANGED <<failure, clearing, lines, reading, minted, acknowledged, lateFailure>>
  BY DEF OpenLedger
<1>2. \/ /\ s.goal # NoGoal /\ phase' = "opening" /\ revision' = n /\ goal' = p /\ queue' = q
         /\ caller' = [caller EXCEPT !["change"] = a]
      \/ /\ ~(s.goal # NoGoal /\ s.goal.status = "active")
         /\ phase' = "open" /\ revision' = s.revision /\ goal' = s.goal
         /\ UNCHANGED <<queue, caller>>
  BY DEF OpenLedger, PauseQueue, Paused, PauseCall
<1>3. s \in Stores /\ acknowledged <= s.revision
  BY <1>1 DEF LedgerInv, ReplayFits
<1>4. /\ queue = <<>> /\ caller \in [Requests -> Changes] /\ clearing \in Goals0
      /\ reading \in [Readers -> Nat] /\ failure \in BOOLEAN /\ lateFailure \in BOOLEAN
      /\ minted \subseteq Goals /\ acknowledged \in Nat
  BY <1>1, InvTypes DEF LedgerInv
<1>5. \A c \in Requests : caller[c] = NoCall
  <2>1. \A c \in Requests : CallFits(caller[c], queue, stored, revision, failure)
    BY DEF LedgerInv, QueuesFit
  <2>2. Len(queue) = 0 /\ 1..0 = {}
    BY <1>4
  <2>. QED
    BY <2>1, <2>2 DEF CallFits
<1>6. s.goal \in Goals0 /\ s.revision \in Nat /\ s.keys \subseteq Samples
  BY <1>3 DEF Stores
<1>7. (Readable' <=> Readable) /\ Replayed' = s
  BY <1>1 DEF Readable, Replayed
<1>8. ReplayFits'
  BY <1>1, <1>3, <1>7 DEF LedgerInv, ReplayFits
<1>. HIDE DEF s, n
<1>9. CASE /\ s.goal # NoGoal /\ phase' = "opening" /\ revision' = n /\ goal' = p /\ queue' = q
           /\ caller' = [caller EXCEPT !["change"] = a]
  <2>1. /\ q \in Seq(Appends) /\ q # <<>> /\ n \in Nat /\ p \in Goals0 /\ p.status = "stopped"
        /\ QueueFits(q, s, n) /\ SamplesFit(q, s, s.keys)
        /\ GoalFits(q, s, p, n, failure, lateFailure)
        /\ CallFits(NoCall, q, s, n, failure) /\ CallFits(a, q, s, n, failure)
    <3>1. n = s.revision + 1
      BY DEF n
    <3>2. PauseFits(s, s.goal, n, q, p, a)
      BY <1>3, <1>6, <1>9, <3>1, PausedFits, Zenon
    <3>. QED
      BY <3>2 DEF PauseFits
  <2>2. a \in Changes
    BY <1>3, <1>6, <1>9, PausedFits DEF PauseFits, n
  <2>. HIDE DEF q, p, a
  <2>3. /\ caller' \in [Requests -> Changes]
        /\ \A c \in Requests : caller'[c] = NoCall \/ caller'[c] = a
    BY <1>4, <1>5, <1>9, <2>2
  <2>4. QueuesFit'
    BY <1>1, <1>9, <2>1, <2>3 DEF QueuesFit
  <2>5. FailureStopsTheGoal'
    BY <1>9, <2>1 DEF FailureStopsTheGoal, Active
  <2>6. LedgerTypes'
    BY <1>1, <1>3, <1>4, <1>6, <1>9, <2>1, <2>3 DEF LedgerTypes
  <2>. QED
    BY <1>8, <1>9, <2>4, <2>5, <2>6 DEF LedgerInv
<1>10. CASE /\ ~(s.goal # NoGoal /\ s.goal.status = "active")
            /\ phase' = "open" /\ revision' = s.revision /\ goal' = s.goal
            /\ UNCHANGED <<queue, caller>>
  <2>1. /\ QueueFits(<<>>, s, s.revision) /\ SamplesFit(<<>>, s, s.keys)
        /\ GoalFits(<<>>, s, s.goal, s.revision, failure, FALSE)
        /\ CallFits(NoCall, <<>>, s, s.revision, failure)
    BY <1>3, <1>4, NothingQueued
  <2>2. GoalFits(<<>>, s, s.goal, s.revision, failure, lateFailure)
    BY <2>1 DEF GoalFits
  <2>3. QueuesFit'
    BY <1>1, <1>4, <1>5, <1>10, <2>1, <2>2 DEF QueuesFit
  <2>4. FailureStopsTheGoal'
    BY <1>10 DEF FailureStopsTheGoal, Active
  <2>5. LedgerTypes'
    <3>1. queue' \in Seq(Appends)
      BY <1>4, <1>10
    <3>. QED
      BY <1>1, <1>3, <1>4, <1>6, <1>10, <3>1 DEF LedgerTypes
  <2>. QED
    BY <1>4, <1>8, <1>10, <2>3, <2>4, <2>5 DEF LedgerInv
<1>. QED
  BY <1>2, <1>9, <1>10

LEMMA RefuseLedgerKeeps ==
  ASSUME LedgerInv, RefuseLedger
  PROVE  LedgerInv'
<1>1. /\ ~Readable /\ phase' = "unusable"
      /\ UNCHANGED <<memory, stored, queue, lines, torn, caller, reading, minted,
                     acknowledged, lateFailure>>
  BY DEF RefuseLedger
<1>2. ~Readable'
  BY <1>1 DEF Readable
<1>3. ReplayFits'
  BY <1>1, <1>2 DEF LedgerInv, ReplayFits
<1>4. QueuesFit' /\ FailureStopsTheGoal'
  BY <1>1 DEF memory, LedgerInv, QueuesFit, FailureStopsTheGoal, Active
<1>5. LedgerTypes'
  BY <1>1 DEF memory, LedgerInv, LedgerTypes
<1>. QED
  BY <1>1, <1>3, <1>4, <1>5 DEF LedgerInv

LEMMA InitLedger == LedgerInit => LedgerInv
<1>. SUFFICES ASSUME LedgerInit PROVE LedgerInv
  OBVIOUS
<1>1. lines = <<>> /\ stored = Blank /\ acknowledged = 0 /\ phase = "closed" /\ queue = <<>>
  BY DEF LedgerInit
<1>2. Replayed = Blank
  BY <1>1, ReplayOfNothing DEF Replayed
<1>3. Blank \in Stores /\ Blank.goal = NoGoal /\ Blank.revision = 0 /\ Blank.keys = {}
  BY BlankIsStore DEF Blank
<1>4. ReplayFits
  BY <1>1, <1>2, <1>3 DEF ReplayFits
<1>5. /\ QueueFits(<<>>, Blank, 0) /\ SamplesFit(<<>>, Blank, {})
      /\ GoalFits(<<>>, Blank, NoGoal, 0, FALSE, FALSE)
      /\ CallFits(NoCall, <<>>, Blank, 0, FALSE)
  BY <1>3, NothingQueued
<1>6. caller = [c \in Requests |-> NoCall]
  BY DEF LedgerInit
<1>7. QueuesFit
  BY <1>1, <1>5, <1>6 DEF QueuesFit, LedgerInit
<1>8. FailureStopsTheGoal
  BY DEF LedgerInit, FailureStopsTheGoal
<1>9. LedgerTypes
  <2>1. caller \in [Requests -> Changes] /\ queue \in Seq(Appends) /\ goal \in Goals0
    BY <1>1, <1>6, NoCallIs, BlankIsStore DEF LedgerInit
  <2>2. /\ clearing \in Goals0 /\ revision \in Nat /\ failure \in BOOLEAN /\ torn \in BOOLEAN
        /\ lateFailure \in BOOLEAN /\ counted \subseteq Samples /\ minted \subseteq Goals
    BY BlankIsStore DEF LedgerInit
  <2>3. reading \in [Readers -> Nat]
    BY DEF LedgerInit
  <2>. QED
    BY <1>1, <1>3, <2>1, <2>2, <2>3 DEF LedgerTypes
<1>. QED
  BY <1>1, <1>4, <1>7, <1>8, <1>9 DEF LedgerInv

LEMMA LedgerStep == LedgerInv /\ [LedgerNext]_ledgerVars => LedgerInv'
<1>. SUFFICES ASSUME LedgerInv, [LedgerNext]_ledgerVars PROVE LedgerInv'
  OBVIOUS
<1>1. CASE LedgerNext
  <2>1. CASE \E id \in Goals : SetGoal(id)
    BY <2>1, SetGoalKeeps
  <2>2. CASE \E status \in {"active", "stopped"} : Revise(status)
    BY <2>2, ReviseKeeps
  <2>3. CASE \E status \in Statuses : Work(status)
    BY <2>3, WorkKeeps
  <2>4. CASE \E s \in Samples, id \in Goals, exhausts \in BOOLEAN : RecordUsage(s, id, exhausts)
    BY <2>4, RecordUsageKeeps
  <2>5. CASE \E r \in Readers : Read(r)
    BY <2>5, ReadKeeps
  <2>6. CASE \E partly \in BOOLEAN : WriteFails(partly)
    BY <2>6, WriteFailsKeeps
  <2>. QED
    BY <1>1, <2>1, <2>2, <2>3, <2>4, <2>5, <2>6, ClearGoalKeeps, WriteSucceedsKeeps, CrashKeeps,
       OpenLedgerKeeps, RefuseLedgerKeeps DEF LedgerNext
<1>2. CASE UNCHANGED ledgerVars
  <2>1. UNCHANGED <<goal, revision, counted, failure, clearing, stored, queue, lines, torn, phase,
                    caller, reading, minted, acknowledged, lateFailure>>
    BY <1>2 DEF ledgerVars, memory
  <2>2. ReplayFits'
    BY <2>1 DEF LedgerInv, ReplayFits, Readable, Replayed
  <2>3. QueuesFit' /\ FailureStopsTheGoal'
    BY <2>1 DEF LedgerInv, QueuesFit, FailureStopsTheGoal, Active
  <2>4. LedgerTypes'
    BY <2>1 DEF LedgerInv, LedgerTypes
  <2>. QED
    BY <2>1, <2>2, <2>3, <2>4 DEF LedgerInv
<1>. QED
  BY <1>1, <1>2

LEMMA LedgerInvHolds == LedgerSpec => []LedgerInv
BY InitLedger, LedgerStep, PTL DEF LedgerSpec

-----------------------------------------------------------------------------
\* What it says.

\* What requests wait for is still to be written, and when nothing is left to write, the
\* goal a process goes by is the one it saved (controller.ts, store.ts); no failed write
\* leaves a goal that is worked on.  However many requests, reads and failures there are.
THEOREM WhatIsSavedIsTheGoal == LedgerSpec => []GoalIsAsSaved
<1>1. LedgerInv => GoalIsAsSaved
  <2>. SUFFICES ASSUME LedgerInv, queue = <<>>, ~failure, ~lateFailure
       PROVE  stored.goal = goal /\ stored.revision = revision /\ stored.keys \subseteq counted
    BY DEF LedgerInv, GoalIsAsSaved, StoreAgreesUnlessLateFailure
  <2>1. Reaches(queue, stored, goal, revision)
    BY DEF LedgerInv, QueuesFit, GoalFits
  <2>2. Len(queue) = 0 /\ 0..0 = {0}
    OBVIOUS
  <2>3. PICK k \in 0..0 : \E f : Leads(queue, stored, goal, revision, k, f)
    BY <2>1, <2>2 DEF Reaches
  <2>4. k = 0
    BY <2>2
  <2>5. PICK f : Leads(queue, stored, goal, revision, k, f)
    BY <2>3
  <2>6. stored.goal = goal /\ stored.revision = revision
    BY <2>2, <2>4, <2>5 DEF Leads, BaseGoal, BaseRevision
  <2>. QED
    BY <2>6, InvTypes DEF SamplesFit
<1>. QED
  BY <1>1, LedgerInvHolds, PTL

\* What a request was told is saved, the next process finds: the ledger replays to the
\* store's copy, at that revision or a later one (GoalStore.open).
THEOREM SavedChangesSurvive == LedgerSpec => []AcknowledgedSurvives
<1>1. LedgerInv => AcknowledgedSurvives
  <2>. SUFFICES ASSUME LedgerInv, Readable
       PROVE  /\ Replayed.revision >= acknowledged
              /\ phase \in {"opening", "open"} => Replayed = stored
    BY DEF AcknowledgedSurvives
  <2>1. /\ Replayed \in Stores /\ acknowledged <= Replayed.revision
        /\ phase # "closed" => Replayed = stored
    BY DEF LedgerInv, ReplayFits
  <2>2. acknowledged \in Nat /\ Replayed.revision \in Nat
    BY <2>1, InvTypes DEF Stores
  <2>. QED
    BY <2>1, <2>2
<1>. QED
  BY <1>1, LedgerInvHolds, PTL

-----------------------------------------------------------------------------
\* Every goal there is was set: in memory, in the queue, in the store's copy and on disk.

Set(g, M) == g = NoGoal \/ g.id \in M
AllSet(q, M) == \A i \in 1..Len(q) : IsSaved(q[i]) => Set(q[i].entry.goal, M)

GoalsAreSet ==
  /\ spending \subseteq minted
  /\ Set(goal, minted) /\ Set(clearing, minted) /\ Set(stored.goal, minted)
  /\ AllSet(queue, minted)
  /\ Readable => Set(Replayed.goal, minted)

\* Nothing takes the id of a goal away, or what is set.
LEMMA SetStays ==
  ASSUME NEW M, NEW N, M \subseteq N
  PROVE  /\ \A g : Set(g, M) => Set(g, N)
         /\ \A q : AllSet(q, M) => AllSet(q, N)
BY DEF Set, AllSet

LEMMA ChangedIsSet ==
  ASSUME NEW g \in Goals0, g # NoGoal, NEW M, Set(g, M), NEW status \in Statuses
  PROVE  g.id \in M /\ Set([g EXCEPT !.status = status], M)
<1>1. g \in Goal /\ g.id \in M
  BY DEF Set, Goals0
<1>2. [g EXCEPT !.status = status].id = g.id
  BY <1>1 DEF Goal
<1>. QED
  BY <1>1, <1>2 DEF Set

LEMMA PausedIsSet ==
  ASSUME NEW g \in Goals0, g # NoGoal, NEW M, Set(g, M), NEW n
  PROVE  Set([g EXCEPT !.status = "stopped", !.revision = n], M)
<1>1. g \in Goal /\ g.id \in M
  BY DEF Set, Goals0
<1>2. [g EXCEPT !.status = "stopped", !.revision = n].id = g.id
  BY <1>1 DEF Goal
<1>. QED
  BY <1>1, <1>2 DEF Set

LEMMA KeptIsSet ==
  ASSUME NEW g \in Goals0, NEW M, Set(g, M)
  PROVE  (\A n : Set(Stamped(g, n), M)) /\ (\A id : Set(Charged(g, id), M))
<1>1. CASE g = NoGoal
  <2>1. \A n, id : Stamped(g, n) = g /\ Charged(g, id) = g
    BY <1>1 DEF Stamped, Charged
  <2>. QED
    BY <2>1
<1>2. CASE g # NoGoal
  <2>1. g \in Goal /\ g.id \in M
    BY <1>2 DEF Goals0, Set
  <2>2. ASSUME NEW n
        PROVE  Set(Stamped(g, n), M)
    <3>1. [g EXCEPT !.revision = n].id = g.id
      BY <2>1 DEF Goal
    <3>. QED
      BY <1>2, <2>1, <3>1 DEF Set, Stamped
  <2>3. ASSUME NEW id
        PROVE  Set(Charged(g, id), M)
    <3>1. CASE Charged(g, id) = g
      BY <2>1, <3>1 DEF Set
    <3>2. CASE Charged(g, id) = [g EXCEPT !.tokens = @ + 1]
      <4>1. [g EXCEPT !.tokens = @ + 1].id = g.id
        BY <2>1 DEF Goal
      <4>. QED
        BY <2>1, <3>2, <4>1 DEF Set
    <3>. QED
      BY <3>1, <3>2 DEF Charged
  <2>. QED
    BY <2>2, <2>3
<1>. QED
  BY <1>1, <1>2

\* A snapshot goes behind queue q.
LEMMA SaveIsSet ==
  ASSUME NEW q \in Seq(Appends), NEW M, AllSet(q, M), NEW g \in Goals0, Set(g, M), NEW r,
         SaveAfter(q, g, r)
  PROVE  Set(goal', M) /\ AllSet(queue', M)
<1>. DEFINE x == Snapshot(g, revision + 1, r)
<1>1. goal' = Stamped(g, revision + 1) /\ queue' = Append(q, x)
  BY DEF SaveAfter
<1>2. x.entry.goal = Stamped(g, revision + 1)
  BY DEF Snapshot
<1>. HIDE DEF x
<1>3. Set(goal', M) /\ Set(x.entry.goal, M)
  BY <1>1, <1>2, KeptIsSet
<1>4. /\ Len(queue') = Len(q) + 1 /\ Len(q) \in Nat /\ queue'[Len(q) + 1] = x
      /\ \A i \in 1..Len(q) : queue'[i] = q[i]
  BY <1>1
<1>5. \A i \in 1..Len(queue') : i \in 1..Len(q) \/ i = Len(q) + 1
  BY <1>4
<1>. QED
  BY <1>3, <1>4, <1>5 DEF AllSet

\* Nothing else changes.
LEMMA MemorySet ==
  ASSUME LedgerInv, GoalsAreSet, UNCHANGED <<stored, lines>>, minted \subseteq minted',
         Set(goal', minted'), Set(clearing', minted'), AllSet(queue', minted'),
         spending' \subseteq minted'
  PROVE  GoalsAreSet'
<1>1. (Readable' <=> Readable) /\ Replayed' = Replayed /\ stored' = stored
  BY DEF Readable, Replayed
<1>2. Set(stored.goal, minted) /\ (Readable => Set(Replayed.goal, minted))
  BY DEF GoalsAreSet
<1>3. Set(stored.goal, minted') /\ (Readable => Set(Replayed.goal, minted'))
  BY <1>2, SetStays
<1>. QED
  BY <1>1, <1>3 DEF GoalsAreSet

LEMMA MemoryIsSet ==
  ASSUME LedgerInv, GoalsAreSet,
         \/ \E id \in Goals : SetGoal(id)
         \/ \E status \in {"active", "stopped"} : Revise(status)
         \/ \E status \in Statuses : Work(status)
         \/ ClearGoal
         \/ \E s \in Samples, id \in Goals, exhausts \in BOOLEAN : RecordUsage(s, id, exhausts)
         \/ \E r \in Readers : Read(r)
  PROVE  GoalsAreSet'
<1>1. /\ goal \in Goals0 /\ clearing \in Goals0 /\ queue \in Seq(Appends)
      /\ Set(goal, minted) /\ Set(clearing, minted) /\ AllSet(queue, minted)
      /\ spending \subseteq minted /\ revision \in Nat
  BY InvTypes DEF GoalsAreSet
<1>2. ASSUME NEW id \in Goals, SetGoal(id)
      PROVE  GoalsAreSet'
  <2>. DEFINE g == [id |-> id, status |-> "active", revision |-> revision, tokens |-> 0]
  <2>1. /\ SaveAfter(queue, g, FALSE) /\ minted' = minted \cup {id}
        /\ spending' = spending \cup {id} /\ UNCHANGED <<stored, lines, clearing>>
    BY <1>2 DEF SetGoal, Save
  <2>2. g \in Goals0 /\ Set(g, minted')
    BY <1>1, <2>1 DEF Goals0, Goal, Statuses, Set
  <2>. HIDE DEF g
  <2>3. minted \subseteq minted' /\ spending' \subseteq minted'
    BY <1>1, <2>1
  <2>4. AllSet(queue, minted') /\ Set(clearing', minted')
    BY <1>1, <2>1, <2>3, SetStays
  <2>5. Set(goal', minted') /\ AllSet(queue', minted')
    BY <1>1, <2>1, <2>2, <2>4, SaveIsSet
  <2>. QED
    BY <2>1, <2>3, <2>4, <2>5, MemorySet
<1>. DEFINE Kept == /\ UNCHANGED <<stored, lines, minted>> /\ spending' \subseteq minted
                    /\ clearing' = clearing \/ clearing' = goal
\* What saves a goal that is set and mints none.
<1>3. ASSUME NEW g \in Goals0, Set(g, minted), NEW q \in Seq(Appends), AllSet(q, minted),
             NEW r, SaveAfter(q, g, r), Kept
      PROVE  GoalsAreSet'
  <2>1. Set(goal', minted) /\ AllSet(queue', minted)
    BY <1>3, SaveIsSet
  <2>2. Set(clearing', minted) /\ minted' = minted
    BY <1>1, <1>3
  <2>. QED
    BY <1>3, <2>1, <2>2, MemorySet
<1>4. ASSUME NEW status \in {"active", "stopped"}, Revise(status)
      PROVE  GoalsAreSet'
  <2>. DEFINE g == [goal EXCEPT !.status = status]
  <2>1. /\ SaveAfter(queue, g, FALSE) /\ UNCHANGED <<stored, lines, minted, clearing>>
        /\ goal # NoGoal /\ spending' \in {spending, spending \cup {goal.id}}
    BY <1>4 DEF Revise, Save
  <2>0. status \in Statuses
    BY DEF Statuses
  <2>2. g \in Goals0 /\ Set(g, minted) /\ goal.id \in minted
    BY <1>1, <2>0, <2>1, ChangedIsSet, WithStatus, Zenon
  <2>3. spending' \subseteq minted
    BY <1>1, <2>1, <2>2
  <2>. HIDE DEF g
  <2>4. Kept
    BY <1>1, <2>1, <2>3
  <2>. HIDE DEF Kept
  <2>. QED
    BY <1>1, <1>3, <2>1, <2>2, <2>3, <2>4, Zenon
<1>5. ASSUME NEW status \in Statuses, Work(status)
      PROVE  GoalsAreSet'
  <2>. DEFINE g == [goal EXCEPT !.status = status]
  <2>1. /\ SaveAfter(queue, g, FALSE) /\ UNCHANGED <<stored, lines, minted, clearing, spending>>
        /\ goal # NoGoal
    BY <1>5 DEF Work, Save, Active
  <2>2. g \in Goals0 /\ Set(g, minted)
    BY <1>1, <2>1, ChangedIsSet, WithStatus, Zenon
  <2>. HIDE DEF g
  <2>4. Kept
    BY <1>1, <2>1
  <2>. HIDE DEF Kept
  <2>. QED
    BY <1>1, <1>3, <2>1, <2>2, <2>4, Zenon
<1>6. ASSUME ClearGoal
      PROVE  GoalsAreSet'
  <2>1. /\ SaveAfter(queue, NoGoal, FALSE) /\ UNCHANGED <<stored, lines, minted, spending>>
        /\ clearing' = goal
    BY <1>6 DEF ClearGoal, Save
  <2>2. NoGoal \in Goals0 /\ Set(NoGoal, minted)
    BY DEF Goals0, Set
  <2>4. Kept
    BY <1>1, <2>1
  <2>. HIDE DEF Kept
  <2>. QED
    BY <1>1, <1>3, <2>1, <2>2, <2>4, Zenon
<1>7. ASSUME NEW s \in Samples, NEW id \in Goals, NEW exhausts \in BOOLEAN,
             RecordUsage(s, id, exhausts)
      PROVE  GoalsAreSet'
  <2>. DEFINE x == Usage(s, id)
              q == Append(queue, x)
              c == Charged(goal, id)
              g == [c EXCEPT !.status = "stopped"]
  <2>1. /\ UNCHANGED <<stored, lines, minted, spending, clearing>>
        /\ \/ goal # NoGoal /\ SaveAfter(q, g, FALSE)
           \/ goal' = c /\ queue' = q
    BY <1>7 DEF RecordUsage, Usage, Active
  <2>2. x \in Appends /\ ~IsSaved(x)
    BY DEF Usage, Appends, Entries, IsSaved
  <2>3. q \in Seq(Appends) /\ AllSet(q, minted)
    <3>. HIDE DEF x
    <3>1. /\ q \in Seq(Appends) /\ Len(q) = Len(queue) + 1 /\ Len(queue) \in Nat
          /\ q[Len(queue) + 1] = x /\ \A i \in 1..Len(queue) : q[i] = queue[i]
      BY <1>1, <2>2
    <3>2. \A i \in 1..Len(q) : i \in 1..Len(queue) \/ i = Len(queue) + 1
      BY <3>1
    <3>. HIDE DEF q
    <3>. QED
      BY <1>1, <2>2, <3>1, <3>2 DEF AllSet
  <2>4. c \in Goals0 /\ Set(c, minted) /\ (goal # NoGoal => c # NoGoal)
    BY <1>1, ChargedIs, KeptIsSet
  <2>. HIDE DEF q, c
  <2>5. CASE goal # NoGoal /\ SaveAfter(q, g, FALSE)
    <3>0. "stopped" \in Statuses
      BY DEF Statuses
    <3>1. g \in Goals0 /\ Set(g, minted)
      BY <2>4, <2>5, <3>0, ChangedIsSet, WithStatus, Zenon
    <3>. HIDE DEF g
    <3>2. Kept
      BY <1>1, <2>1
    <3>. HIDE DEF Kept
    <3>. QED
      BY <1>1, <1>3, <2>1, <2>3, <2>5, <3>1, <3>2, Zenon
  <2>6. CASE goal' = c /\ queue' = q
    BY <1>1, <2>1, <2>3, <2>4, <2>6, MemorySet
  <2>. QED
    BY <2>1, <2>5, <2>6
<1>8. ASSUME NEW r \in Readers, Read(r)
      PROVE  GoalsAreSet'
  <2>1. /\ UNCHANGED <<stored, lines, minted, spending, clearing>>
        /\ SaveAfter(queue, goal, TRUE) \/ UNCHANGED <<goal, queue>>
    BY <1>8 DEF Read
  <2>2. CASE SaveAfter(queue, goal, TRUE)
    <3>1. Kept
      BY <1>1, <2>1
    <3>. HIDE DEF Kept
    <3>. QED
      BY <1>1, <1>3, <2>2, <3>1, Zenon
  <2>3. CASE UNCHANGED <<goal, queue>>
    BY <1>1, <2>1, <2>3, MemorySet
  <2>. QED
    BY <2>1, <2>2, <2>3
<1>. QED
  BY <1>2, <1>4, <1>5, <1>6, <1>7, <1>8

\* The end of an append: the goal, or the one that was being cleared, goes on.
LEMMA SettledIsSet ==
  ASSUME LedgerInv, GoalsAreSet, queue # <<>>, NEW ok \in BOOLEAN, Settle(ok)
  PROVE  /\ Set(goal', minted) /\ Set(clearing', minted) /\ AllSet(queue', minted)
         /\ minted' = minted /\ spending' = spending
<1>. DEFINE n == IF ok THEN revision ELSE revision + 1
            g == Stopped(ok)
            saves == IF FailureAfter(ok) THEN Recoveries(g, n) ELSE <<>>
            m == n + Len(saves)
<1>1. /\ goal \in Goals0 /\ clearing \in Goals0 /\ queue \in Seq(Appends) /\ revision \in Nat
      /\ Set(goal, minted) /\ Set(clearing, minted) /\ AllSet(queue, minted)
  BY InvTypes DEF GoalsAreSet
<1>2. /\ goal' = IF saves = <<>> THEN g ELSE Stamped(g, m)
      /\ queue' = Rest \o saves /\ UNCHANGED <<minted, spending>>
      /\ clearing' = clearing \/ clearing' = NoGoal
  BY DEF Settle
<1>3. g \in Goals0
  BY StoppedIs
<1>4. Set(g, minted)
  <2>. DEFINE h == IF goal = NoGoal THEN clearing ELSE goal
  <2>1. h \in Goals0 /\ Set(h, minted)
    BY <1>1
  <2>2. CASE ok \/ h = NoGoal
    BY <1>1, <2>2 DEF Stopped
  <2>3. CASE ~(ok \/ h = NoGoal)
    <3>1. Stopped(ok) = [h EXCEPT !.status = "stopped", !.revision = revision + 1]
      BY <2>3 DEF Stopped
    <3>. HIDE DEF h
    <3>. QED
      <4>1. Set([h EXCEPT !.status = "stopped", !.revision = revision + 1], minted)
        BY <2>1, <2>3, PausedIsSet
      <4>. QED
        BY <3>1, <4>1, Zenon
  <2>. QED
    BY <2>2, <2>3
<1>5. n \in Nat /\ (saves = Recoveries(g, n) \/ saves = <<>>)
  BY <1>1
<1>. HIDE DEF n, g, m
<1>6. Set(goal', minted)
  <2>1. Set(Stamped(g, m), minted)
    BY <1>3, <1>4, KeptIsSet
  <2>. QED
    BY <1>2, <1>4, <2>1
<1>. HIDE DEF saves
<1>7. saves \in Seq(Appends) /\ \A i \in 1..Len(saves) : Set(saves[i].entry.goal, minted)
  <2>1. CASE saves = <<>>
    BY <2>1
  <2>2. CASE saves = Recoveries(g, n)
    <3>1. /\ saves \in Seq(Appends)
          /\ \A i \in 1..Len(saves) : saves[i] = Snapshot(g, n + i, TRUE)
      BY <1>3, <1>5, <2>2, RecoveriesAre
    <3>2. \A k : Snapshot(g, k, TRUE).entry.goal = Stamped(g, k)
      BY DEF Snapshot
    <3>3. \A k : Set(Stamped(g, k), minted)
      BY <1>3, <1>4, KeptIsSet
    <3>4. ASSUME NEW i \in 1..Len(saves)
          PROVE  Set(saves[i].entry.goal, minted)
      <4>1. saves[i].entry.goal = Stamped(g, n + i)
        BY <3>1, <3>2, Zenon
      <4>. QED
        BY <3>3, <4>1, Zenon
    <3>. QED
      BY <3>1, <3>4
  <2>. QED
    BY <1>5, <2>1, <2>2
<1>8. AllSet(queue', minted)
  <2>1. /\ Rest \in Seq(Appends) /\ Len(Rest) = Len(queue) - 1 /\ Len(queue) \in Nat
        /\ Len(Rest) \in Nat /\ \A i \in 1..Len(Rest) : Rest[i] = queue[i + 1]
    BY <1>1 DEF Rest
  <2>2. ASSUME NEW i \in 1..Len(queue'), IsSaved(queue'[i])
        PROVE  Set(queue'[i].entry.goal, minted)
    <3>0. Len(queue') = Len(Rest) + Len(saves) /\ Len(saves) \in Nat
      <4>1. Len(Rest \o saves) = Len(Rest) + Len(saves)
        BY <1>7, <2>1, ConcatProperties
      <4>2. Len(saves) \in Nat
        BY <1>7
      <4>. QED
        BY <1>2, <4>1, <4>2
    <3>1. queue'[i] = IF i <= Len(Rest) THEN Rest[i] ELSE saves[i - Len(Rest)]
      <4>1. i \in 1..(Len(Rest) + Len(saves))
        BY <2>2, <3>0
      <4>2. \A k \in 1..(Len(Rest) + Len(saves)) :
              (Rest \o saves)[k] = IF k <= Len(Rest) THEN Rest[k] ELSE saves[k - Len(Rest)]
        BY <1>7, <2>1, ConcatProperties
      <4>. QED
        BY <1>2, <4>1, <4>2
    <3>2. CASE i <= Len(Rest)
      <4>1. queue'[i] = queue[i + 1] /\ i + 1 \in 1..Len(queue)
        BY <2>1, <2>2, <3>1, <3>2
      <4>. QED
        BY <1>1, <2>2, <4>1 DEF AllSet
    <3>3. CASE ~(i <= Len(Rest))
      <4>1. queue'[i] = saves[i - Len(Rest)] /\ i - Len(Rest) \in 1..Len(saves)
        BY <2>1, <2>2, <3>0, <3>1, <3>3
      <4>. QED
        BY <1>7, <4>1
    <3>. QED
      BY <3>2, <3>3
  <2>. QED
    BY <2>2 DEF AllSet
<1>9. Set(clearing', minted)
  BY <1>1, <1>2 DEF Set
<1>. QED
  BY <1>2, <1>6, <1>8, <1>9

\* What an append leaves in the store.
LEMMA WrittenIsSet ==
  ASSUME LedgerInv, GoalsAreSet, queue # <<>>, NEW t, Written(stored, queue[1], t)
  PROVE  Set(t.goal, minted)
<1>1. /\ queue \in Seq(Appends) /\ stored \in Stores /\ 1 \in 1..Len(queue)
      /\ Set(stored.goal, minted) /\ AllSet(queue, minted)
  BY InvTypes DEF GoalsAreSet
<1>2. stored.goal \in Goals0
  BY <1>1 DEF Stores
<1>3. \A id : Set(Charged(stored.goal, id), minted)
  BY <1>1, <1>2, KeptIsSet
<1>. QED
  BY <1>1, <1>3 DEF Written, AllSet

LEMMA WriteIsSet ==
  ASSUME LedgerInv, GoalsAreSet, WriteSucceeds \/ \E partly \in BOOLEAN : WriteFails(partly)
  PROVE  GoalsAreSet'
<1>1. spending \subseteq minted /\ Set(stored.goal, minted)
      /\ (Readable => Set(Replayed.goal, minted))
  BY DEF GoalsAreSet
<1>2. CASE WriteSucceeds
  <2>. DEFINE t == Apply(stored, Line)
  <2>1. queue # <<>> /\ lines' = Appended /\ stored' = t /\ Settle(TRUE) /\ TRUE \in BOOLEAN
    BY <1>2 DEF WriteSucceeds
  <2>2. (Readable' => Replayed' = t) /\ Written(stored, queue[1], t)
    BY <2>1, AppendedFits
  <2>. HIDE DEF t
  <2>3. Set(t.goal, minted)
    BY <2>1, <2>2, WrittenIsSet
  <2>4. /\ Set(goal', minted) /\ Set(clearing', minted) /\ AllSet(queue', minted)
        /\ minted' = minted /\ spending' = spending
    BY <2>1, SettledIsSet
  <2>. QED
    BY <1>1, <2>1, <2>2, <2>3, <2>4 DEF GoalsAreSet
<1>3. CASE \E partly \in BOOLEAN : WriteFails(partly)
  <2>1. queue # <<>> /\ UNCHANGED <<lines, stored>> /\ Settle(FALSE) /\ FALSE \in BOOLEAN
    BY <1>3 DEF WriteFails
  <2>2. (Readable' <=> Readable) /\ Replayed' = Replayed /\ stored' = stored
    BY <2>1 DEF Readable, Replayed
  <2>3. /\ Set(goal', minted) /\ Set(clearing', minted) /\ AllSet(queue', minted)
        /\ minted' = minted /\ spending' = spending
    BY <2>1, SettledIsSet
  <2>. QED
    BY <1>1, <2>2, <2>3 DEF GoalsAreSet
<1>. QED
  BY <1>2, <1>3

LEMMA BlankIsSet ==
  ASSUME NEW M
  PROVE  Set(NoGoal, M) /\ Set(Blank.goal, M) /\ AllSet(<<>>, M)
BY DEF Set, Blank, AllSet

LEMMA ProcessIsSet ==
  ASSUME LedgerInv, GoalsAreSet, Crash \/ OpenLedger \/ RefuseLedger \/ UNCHANGED ledgerVars
  PROVE  GoalsAreSet'
<1>1. /\ spending \subseteq minted /\ Set(goal, minted) /\ Set(clearing, minted)
      /\ AllSet(queue, minted) /\ Set(stored.goal, minted)
      /\ (Readable => Set(Replayed.goal, minted))
  BY DEF GoalsAreSet
<1>2. CASE Crash
  <2>1. /\ goal' = NoGoal /\ clearing' = NoGoal /\ stored' = Blank /\ queue' = <<>>
        /\ spending' = {} /\ minted' = minted
        /\ UNCHANGED lines \/ (queue # <<>> /\ lines' = Appended)
    BY <1>2 DEF Crash, Forgotten
  <2>2. Readable' => Set(Replayed'.goal, minted)
    <3>1. CASE UNCHANGED lines
      <4>1. (Readable' <=> Readable) /\ Replayed' = Replayed
        BY <3>1 DEF Readable, Replayed
      <4>. QED
        BY <1>1, <4>1
    <3>2. CASE queue # <<>> /\ lines' = Appended
      <4>. DEFINE t == Apply(stored, Line)
      <4>1. (Readable' => Replayed' = t) /\ Written(stored, queue[1], t)
        BY <3>2, AppendedFits
      <4>. HIDE DEF t
      <4>2. Set(t.goal, minted)
        BY <3>2, <4>1, WrittenIsSet
      <4>. QED
        BY <4>1, <4>2
    <3>. QED
      BY <2>1, <3>1, <3>2
  <2>. QED
    BY <2>1, <2>2, BlankIsSet DEF GoalsAreSet
<1>3. CASE OpenLedger
  <2>. DEFINE g == Replayed.goal
              n == Replayed.revision + 1
  <2>1. /\ Readable /\ phase = "closed" /\ stored' = Replayed
        /\ UNCHANGED <<lines, clearing, minted, spending>>
        /\ \/ /\ g # NoGoal /\ goal' = [g EXCEPT !.status = "stopped", !.revision = n]
              /\ queue' = <<Snapshot([g EXCEPT !.status = "stopped"], n, FALSE)>>
           \/ goal' = g /\ queue' = queue
    BY <1>3 DEF OpenLedger
  <2>2. (Readable' <=> Readable) /\ Replayed' = Replayed
    BY <2>1 DEF Readable, Replayed
  <2>3. g \in Goals0 /\ Set(g, minted)
    BY <1>1, <2>1 DEF LedgerInv, ReplayFits, Stores
  <2>. HIDE DEF g, n
  <2>4. Set(goal', minted) /\ AllSet(queue', minted)
    <3>1. CASE goal' = g /\ queue' = queue
      BY <1>1, <2>3, <3>1
    <3>2. CASE /\ g # NoGoal /\ goal' = [g EXCEPT !.status = "stopped", !.revision = n]
               /\ queue' = <<Snapshot([g EXCEPT !.status = "stopped"], n, FALSE)>>
      <4>. DEFINE h == [g EXCEPT !.status = "stopped"]
                  x == Snapshot(h, n, FALSE)
      <4>0. "stopped" \in Statuses
        BY DEF Statuses
      <4>1. h \in Goals0 /\ Set(h, minted)
        BY <2>3, <3>2, <4>0, ChangedIsSet, WithStatus, Zenon
      <4>2. Set(goal', minted)
        BY <2>3, <3>2, PausedIsSet, Zenon
      <4>. HIDE DEF h
      <4>3. x.entry.goal = Stamped(h, n)
        BY DEF Snapshot
      <4>4. Set(x.entry.goal, minted)
        BY <4>1, <4>3, KeptIsSet
      <4>5. queue' = <<x>>
        BY <3>2 DEF h
      <4>. HIDE DEF x
      <4>6. Len(queue') = 1 /\ queue'[1] = x /\ 1..1 = {1}
        BY <4>5
      <4>7. AllSet(queue', minted)
        BY <4>4, <4>6 DEF AllSet
      <4>. QED
        BY <4>2, <4>7
    <3>. QED
      BY <2>1, <3>1, <3>2
  <2>5. Set(stored'.goal, minted) /\ (Readable' => Set(Replayed'.goal, minted))
    BY <2>1, <2>2, <2>3 DEF g
  <2>. QED
    BY <1>1, <2>1, <2>4, <2>5 DEF GoalsAreSet
<1>4. CASE RefuseLedger \/ UNCHANGED ledgerVars
  <2>1. UNCHANGED <<memory, stored, queue, lines, minted, spending>>
    BY <1>4 DEF RefuseLedger, ledgerVars
  <2>2. (Readable' <=> Readable) /\ Replayed' = Replayed
    BY <2>1 DEF Readable, Replayed
  <2>. QED
    BY <1>1, <2>1, <2>2 DEF GoalsAreSet, memory
<1>. QED
  BY <1>2, <1>3, <1>4

LEMMA InitIsSet == LedgerInit => GoalsAreSet
<1>. SUFFICES ASSUME LedgerInit PROVE GoalsAreSet
  OBVIOUS
<1>1. /\ goal = NoGoal /\ clearing = NoGoal /\ stored = Blank /\ queue = <<>> /\ lines = <<>>
      /\ spending = {}
  BY DEF LedgerInit
<1>2. Replayed = Blank
  BY <1>1, ReplayOfNothing DEF Replayed
<1>. QED
  BY <1>1, <1>2, BlankIsSet DEF GoalsAreSet

LEMMA GoalsAreSetHolds == LedgerSpec => []GoalsAreSet
<1>1. LedgerInv /\ GoalsAreSet /\ [LedgerNext]_ledgerVars => GoalsAreSet'
  <2>. SUFFICES ASSUME LedgerInv, GoalsAreSet, [LedgerNext]_ledgerVars PROVE GoalsAreSet'
    OBVIOUS
  <2>. QED
    BY MemoryIsSet, WriteIsSet, ProcessIsSet, Zenon DEF LedgerNext
<1>. QED
  BY <1>1, InitIsSet, LedgerInvHolds, PTL DEF LedgerSpec

\* Goals, revisions and queues have their types, a request only waits for writes that are
\* queued, and the store refuses none of them as too old (GoalStore.append).
THEOREM LedgerTyped == LedgerSpec => []LedgerTypeOK
<1>1. LedgerInv /\ GoalsAreSet => LedgerTypeOK
  <2>. SUFFICES ASSUME LedgerInv, GoalsAreSet PROVE LedgerTypeOK
    OBVIOUS
  <2>1. /\ queue \in Seq(Appends) /\ stored \in Stores /\ QueueFits(queue, stored, revision)
        /\ \A c \in Requests : CallFits(caller[c], queue, stored, revision, failure)
    BY InvTypes DEF LedgerInv, QueuesFit
  <2>2. \A c \in Requests : caller[c] # NoCall => caller[c].left \in 1..Len(queue)
    BY <2>1 DEF CallFits
  <2>3. ASSUME NEW i \in DOMAIN queue
        PROVE  ~Obsolete(stored, queue[i].entry)
    <3>1. i \in 1..Len(queue) /\ queue[i] \in Appends /\ stored.revision \in Nat
      BY <2>1, <2>3 DEF Stores
    <3>2. IsSaved(queue[i]) => /\ stored.revision <= queue[i].entry.revision
                               /\ queue[i].entry.revision \in Nat
      BY <2>1, <3>1, AppendTypes DEF QueueFits
    <3>. QED
      BY <3>1, <3>2 DEF Obsolete, IsSaved
  <2>. QED
    BY <2>2, <2>3 DEF LedgerInv, LedgerTypes, LedgerTypeOK, GoalsAreSet, Goals0
<1>. QED
  BY <1>1, LedgerInvHolds, GoalsAreSetHolds, PTL
=============================================================================
