------------------------------ MODULE VmmProofs ------------------------------
(***************************************************************************)
(* Virtual memory, proved for every size of table, bitmap and memory that  *)
(* the assumptions of Pmm and Vmm admit.  The heart of it is IsTree: the   *)
(* tables form a tree, no page is reached on two ways.  It is stated of a  *)
(* memory m and a top table r, and not of the variables, so that the       *)
(* lemmas can speak of the memory before and after a step.                 *)
(***************************************************************************)
EXTENDS Vmm, FiniteSetTheorems, TLAPS

Slots == 0 .. Fanout - 1

\* The tables of each level, from the top (4) down to the page tables (1).
BelowIn(m, tables) == {m[t][i].frame : t \in tables, i \in Slots} \ {0}
L4(r) == {r} \ {NULL}
L3(m, r) == BelowIn(m, L4(r))
L2(m, r) == BelowIn(m, L3(m, r))
L1(m, r) == BelowIn(m, L2(m, r))
AboveIn(m, r) == L4(r) \cup L3(m, r) \cup L2(m, r)
TablesIn(m, r) == AboveIn(m, r) \cup L1(m, r)

\* The walk for a virtual page: the table of each level, NULL if there is none.
DownIn(m, t, v, level) ==
    IF t # NULL /\ Present(m[t][Index(v, level)]) THEN m[t][Index(v, level)].frame ELSE NULL
At3(m, r, v) == DownIn(m, r, v, 4)
At2(m, r, v) == DownIn(m, At3(m, r, v), v, 3)
At1(m, r, v) == DownIn(m, At2(m, r, v), v, 2)
TranslationIn(m, r, v) ==
    IF At1(m, r, v) = NULL THEN Zero ELSE m[At1(m, r, v)][Index(v, 1)]

\* Above the page tables an entry is clear or leads to a page of A, and no two
\* lead to the same page or back to the top.
IsEntry(A, e) == e = Zero \/ (e.flags = Flags /\ e.frame \in A)
Unshared(m, tables) ==
    \A t, u \in tables : \A i, j \in Slots :
        m[t][i].frame # 0 /\ m[t][i].frame = m[u][j].frame => t = u /\ i = j
IsTree(A, m, r) ==
    /\ A \subseteq Nat \ {0}
    /\ m \in [A -> Table]
    /\ r \in A \cup {NULL}
    /\ \A t \in AboveIn(m, r), i \in Slots : IsEntry(A, m[t][i])
    /\ r \notin L3(m, r) \cup L2(m, r) \cup L1(m, r)
    /\ Unshared(m, AboveIn(m, r))

-----------------------------------------------------------------------------
\* Division with remainder, and dividing twice.
LEMMA DivMod ==
    ASSUME NEW a \in Nat, NEW d \in Nat \ {0}
    PROVE  a \div d \in Nat /\ a % d \in 0 .. d - 1 /\ a = d * (a \div d) + (a % d)
  OBVIOUS

LEMMA DivUnique ==
    ASSUME NEW a \in Nat, NEW d \in Nat \ {0}, NEW q \in Int, NEW s \in 0 .. d - 1,
           a = d * q + s
    PROVE  q = a \div d /\ s = a % d
  OBVIOUS

LEMMA DivBound ==
    ASSUME NEW a \in Nat, NEW d \in Nat \ {0}, NEW e \in Nat, a < d * e
    PROVE  a \div d < e
  <1> DEFINE q == a \div d
  <1>1. q \in Nat /\ d * q <= a
    BY DivMod
  <1> HIDE DEF q
  <1>2. ASSUME q >= e PROVE FALSE
    <2>1. d * q >= d * e
      BY <1>1, <1>2
    <2>2. QED
      BY <2>1, <1>1
  <1>3. QED
    BY <1>1, <1>2 DEF q

LEMMA DivDiv ==
    ASSUME NEW a \in Nat, NEW d \in Nat \ {0}, NEW e \in Nat \ {0}
    PROVE  a \div (d * e) = (a \div d) \div e
  <1> DEFINE q == a \div d
             r == a % d
             p == q \div e
             s == q % e
  <1>1. q \in Nat /\ r \in 0 .. d - 1 /\ a = d * q + r
    BY DivMod
  <1>2. p \in Nat /\ s \in 0 .. e - 1 /\ q = e * p + s
    BY <1>1, DivMod
  <1> HIDE DEF q, p, s, r
  <1>3. a = (d * e) * p + (d * s + r)
    BY <1>1, <1>2
  <1>4. d * s + r \in 0 .. d * e - 1
    <2>1. d * s <= d * (e - 1)
      BY <1>2
    <2>2. d * (e - 1) = d * e - d
      OBVIOUS
    <2>3. QED
      BY <2>1, <2>2, <1>1, <1>2
  <1>5. d * e \in Nat \ {0}
    OBVIOUS
  <1>6. p = a \div (d * e)
    BY <1>2, <1>3, <1>4, <1>5, DivUnique
  <1>7. QED
    BY <1>6 DEF p, q

\* An index is one of the table's, and the four of them are the page's number:
\* two pages with the same indices are the same.
LEMMA IndexInTable ==
    ASSUME NEW v \in Nat, NEW level \in 1 .. 4
    PROVE  Index(v, level) \in Slots
  <1>1. Fanout * Fanout \in Nat \ {0} /\ Fanout * Fanout * Fanout \in Nat \ {0}
    <2>1. Fanout * Fanout \in Nat \ {0}
      BY VmmAssumption
    <2>2. QED
      BY <2>1, VmmAssumption
  <1>2. Shift[level] \in Nat \ {0}
    BY <1>1, VmmAssumption DEF Shift
  <1>3. v \div Shift[level] \in Nat
    BY <1>2, DivMod
  <1>4. QED
    BY <1>3, DivMod, VmmAssumption DEF Index, Slots

LEMMA IndicesOfPage ==
    ASSUME NEW v \in 0 .. Fanout * Fanout * Fanout * Fanout - 1,
           NEW w \in 0 .. Fanout * Fanout * Fanout * Fanout - 1,
           \A level \in 1 .. 4 : Index(v, level) = Index(w, level)
    PROVE  v = w
  <1> DEFINE F == Fanout
             Q1(x) == x \div F
             Q2(x) == x \div (F * F)
             Q3(x) == x \div (F * F * F)
  <1>1. F \in Nat \ {0} /\ F * F \in Nat \ {0} /\ F * F * F \in Nat \ {0}
    <2>1. F * F \in Nat \ {0}
      BY VmmAssumption
    <2>2. QED
      BY <2>1, VmmAssumption
  <1>2. v \in Nat /\ w \in Nat
    OBVIOUS
  <1>3. ASSUME NEW x \in {v, w}
        PROVE  /\ Index(x, 4) = Q3(x) /\ Q2(x) = F * Q3(x) + Index(x, 3)
               /\ Q1(x) = F * Q2(x) + Index(x, 2) /\ x = F * Q1(x) + Index(x, 1)
    <2>1. x \in 0 .. F * F * F * F - 1 /\ x \in Nat
      OBVIOUS
    <2>2. Index(x, 1) = x % F
      <3>1. Shift[1] = 1 /\ x \div 1 = x
        BY <2>1 DEF Shift
      <3>2. QED
        BY <3>1 DEF Index
    <2>3. Index(x, 2) = Q1(x) % F /\ Index(x, 3) = Q2(x) % F /\ Index(x, 4) = Q3(x) % F
      BY DEF Index, Shift
    <2>4. Q1(x) \in Nat /\ Q2(x) \in Nat /\ Q3(x) \in Nat
      BY <1>1, <2>1, DivMod
    <2>5. Q2(x) = Q1(x) \div F /\ Q3(x) = Q2(x) \div F
      BY <1>1, <2>1, DivDiv
    <2>6. Q3(x) < F
      <3>1. x < (F * F * F) * F
        BY <2>1, <1>1
      <3>2. QED
        BY <3>1, <2>1, <1>1, DivBound
    <2>7. Q3(x) % F = Q3(x)
      BY <2>4, <2>6, <1>1
    <2>8. QED
      BY <2>1, <2>2, <2>3, <2>4, <2>5, <2>7, <1>1, DivMod
  <1> HIDE DEF Q1, Q2, Q3
  <1>4. Q3(v) = Q3(w)
    BY <1>3
  <1>5. Q2(v) = Q2(w)
    BY <1>3, <1>4
  <1>6. Q1(v) = Q1(w)
    BY <1>3, <1>5
  <1>7. QED
    BY <1>3, <1>6

-----------------------------------------------------------------------------
\* Two entries that lead to the same page are one.
LEMMA OneWay ==
    ASSUME NEW A, NEW m, NEW r, IsTree(A, m, r),
           NEW t \in AboveIn(m, r), NEW u \in AboveIn(m, r), NEW i \in Slots, NEW j \in Slots,
           m[t][i].frame # 0, m[t][i].frame = m[u][j].frame
    PROVE  t = u /\ i = j
  <1>1. Unshared(m, AboveIn(m, r))
    BY DEF IsTree
  <1>2. QED
    BY <1>1 DEF Unshared

\* In a tree the levels are apart and none holds the page 0.
LEMMA TreeLevels ==
    ASSUME NEW A, NEW m, NEW r, IsTree(A, m, r)
    PROVE  /\ L4(r) \subseteq A /\ L3(m, r) \subseteq A /\ L2(m, r) \subseteq A /\ L1(m, r) \subseteq A
           /\ L3(m, r) \cap L2(m, r) = {} /\ L3(m, r) \cap L1(m, r) = {}
           /\ L2(m, r) \cap L1(m, r) = {}
           /\ L4(r) \cap (L3(m, r) \cup L2(m, r) \cup L1(m, r)) = {}
           /\ NULL \notin TablesIn(m, r)
  <1>1. L4(r) \subseteq A
    BY DEF IsTree, L4
  <1>2. ASSUME NEW tables, tables \subseteq AboveIn(m, r)
        PROVE  BelowIn(m, tables) \subseteq A
    BY <1>2 DEF IsTree, IsEntry, BelowIn, Zero
  <1>3. L3(m, r) \subseteq A /\ L2(m, r) \subseteq A /\ L1(m, r) \subseteq A
    BY <1>2 DEF AboveIn, L3, L2, L1
  <1>4. ASSUME NEW p, NEW S, NEW T, S \subseteq AboveIn(m, r), T \subseteq AboveIn(m, r),
               p \in BelowIn(m, S), p \in BelowIn(m, T)
        PROVE  S \cap T # {}
    <2>1. PICK t \in S, i \in Slots : p = m[t][i].frame /\ p # 0
      BY <1>4 DEF BelowIn
    <2>2. PICK u \in T, j \in Slots : p = m[u][j].frame
      BY <1>4 DEF BelowIn
    <2>3. t \in AboveIn(m, r) /\ u \in AboveIn(m, r)
      BY <1>4
    <2>4. m[t][i].frame # 0 /\ m[t][i].frame = m[u][j].frame
      BY <2>1, <2>2
    <2>5. t = u
      BY <2>3, <2>4, OneWay
    <2>6. QED
      BY <2>5
  <1>5. L4(r) \cap L3(m, r) = {} /\ L4(r) \cap L2(m, r) = {}
    BY DEF IsTree, L4
  <1>6. L3(m, r) \cap L2(m, r) = {}
    BY <1>4, <1>5 DEF L3, L2, AboveIn
  <1>7. L3(m, r) \cap L1(m, r) = {}
    BY <1>4, <1>5 DEF L3, L1, AboveIn
  <1>8. L2(m, r) \cap L1(m, r) = {}
    BY <1>4, <1>6 DEF L2, L1, AboveIn
  <1>9. NULL \notin TablesIn(m, r)
    BY <1>1, <1>3 DEF IsTree, TablesIn, AboveIn, NULL
  <1>10. L4(r) \cap (L3(m, r) \cup L2(m, r) \cup L1(m, r)) = {}
    <2>1. r \notin L3(m, r) \cup L2(m, r) \cup L1(m, r)
      BY DEF IsTree
    <2>2. QED
      BY <2>1 DEF L4
  <1>11. QED
    BY <1>1, <1>3, <1>6, <1>7, <1>8, <1>9, <1>10

\* Above the page tables an entry is present when it leads somewhere.
LEMMA DownLeads ==
    ASSUME NEW A, NEW m, NEW r, IsTree(A, m, r), NEW v \in Nat, NEW level \in 1 .. 4,
           NEW tables, tables \subseteq AboveIn(m, r), NEW t \in tables \cup {NULL}
    PROVE  /\ DownIn(m, t, v, level) \in BelowIn(m, tables) \cup {NULL}
           /\ t # NULL => DownIn(m, t, v, level) = m[t][Index(v, level)].frame
           /\ t # NULL => (Present(m[t][Index(v, level)]) <=> DownIn(m, t, v, level) # NULL)
           /\ DownIn(m, t, v, level) # NULL => t # NULL
  <1>1. CASE t = NULL
    BY <1>1 DEF DownIn
  <1>2. CASE t # NULL
    <2>1. Index(v, level) \in Slots
      BY IndexInTable
    <2>2. IsEntry(A, m[t][Index(v, level)])
      BY <1>2, <2>1 DEF IsTree
    <2>3. Present(m[t][Index(v, level)]) <=> m[t][Index(v, level)].frame # 0
      BY <2>2 DEF IsEntry, Present, Zero, Flags, IsTree
    <2>4. QED
      BY <1>2, <2>1, <2>3 DEF DownIn, BelowIn, NULL
  <1>3. QED
    BY <1>1, <1>2

\* A walk takes one table of each level until it ends.
LEMMA WalkLevels ==
    ASSUME NEW A, NEW m, NEW r, IsTree(A, m, r), NEW v \in Nat
    PROVE  /\ r \in L4(r) \cup {NULL}
           /\ At3(m, r, v) \in L3(m, r) \cup {NULL}
           /\ At2(m, r, v) \in L2(m, r) \cup {NULL}
           /\ At1(m, r, v) \in L1(m, r) \cup {NULL}
           /\ At1(m, r, v) # NULL => At2(m, r, v) # NULL
           /\ At2(m, r, v) # NULL => At3(m, r, v) # NULL
           /\ At3(m, r, v) # NULL => r # NULL
  <1>1. r \in L4(r) \cup {NULL}
    BY DEF L4
  <1>2. At3(m, r, v) \in L3(m, r) \cup {NULL} /\ (At3(m, r, v) # NULL => r # NULL)
    BY <1>1, DownLeads DEF At3, L3, AboveIn
  <1>3. /\ At2(m, r, v) \in L2(m, r) \cup {NULL}
        /\ At2(m, r, v) # NULL => At3(m, r, v) # NULL
    BY <1>2, DownLeads DEF At2, L2, AboveIn
  <1>4. /\ At1(m, r, v) \in L1(m, r) \cup {NULL}
        /\ At1(m, r, v) # NULL => At2(m, r, v) # NULL
    BY <1>3, DownLeads DEF At1, L1, AboveIn
  <1>5. QED
    BY <1>1, <1>2, <1>3, <1>4

\* Two pages that share a table share the way to it.
LEMMA SamePath ==
    ASSUME NEW A, NEW m, NEW r, IsTree(A, m, r), NEW v \in Nat, NEW w \in Nat
    PROVE  /\ At3(m, r, v) # NULL /\ At3(m, r, v) = At3(m, r, w) => Index(v, 4) = Index(w, 4)
           /\ At2(m, r, v) # NULL /\ At2(m, r, v) = At2(m, r, w) =>
                 At3(m, r, v) = At3(m, r, w) /\ Index(v, 3) = Index(w, 3)
           /\ At1(m, r, v) # NULL /\ At1(m, r, v) = At1(m, r, w) =>
                 At2(m, r, v) = At2(m, r, w) /\ Index(v, 2) = Index(w, 2)
  <1>1. ASSUME NEW t \in AboveIn(m, r) \cup {NULL}, NEW u \in AboveIn(m, r) \cup {NULL},
               NEW level \in 1 .. 4,
               DownIn(m, t, v, level) # NULL, DownIn(m, t, v, level) = DownIn(m, u, w, level)
        PROVE  t = u /\ Index(v, level) = Index(w, level)
    <2>1. t # NULL /\ u # NULL
      BY <1>1 DEF DownIn
    <2>2. /\ DownIn(m, t, v, level) = m[t][Index(v, level)].frame
          /\ DownIn(m, u, w, level) = m[u][Index(w, level)].frame
      BY <1>1, <2>1, DownLeads
    <2>3. Index(v, level) \in Slots /\ Index(w, level) \in Slots
      BY IndexInTable
    <2>4. t \in AboveIn(m, r) /\ u \in AboveIn(m, r)
      BY <2>1
    <2>5. /\ m[t][Index(v, level)].frame # 0
          /\ m[t][Index(v, level)].frame = m[u][Index(w, level)].frame
      BY <1>1, <2>2 DEF NULL
    <2>6. QED
      BY <2>3, <2>4, <2>5, OneWay
  <1>2. r \in AboveIn(m, r) \cup {NULL}
    BY DEF AboveIn, L4
  <1>3. At3(m, r, v) \in AboveIn(m, r) \cup {NULL} /\ At3(m, r, w) \in AboveIn(m, r) \cup {NULL}
    BY WalkLevels DEF AboveIn
  <1>4. At2(m, r, v) \in AboveIn(m, r) \cup {NULL} /\ At2(m, r, w) \in AboveIn(m, r) \cup {NULL}
    BY WalkLevels DEF AboveIn
  <1>5. QED
    BY <1>1, <1>2, <1>3, <1>4 DEF At3, At2, At1

\* Two pages with the same entry of the same page table are the same page.
Pages == (0 .. KernelPages - 1) \cup Virtuals
LEMMA OwnEntry ==
    ASSUME NEW A, NEW m, NEW r, IsTree(A, m, r), NEW v \in Pages, NEW w \in Pages,
           At1(m, r, v) # NULL, At1(m, r, v) = At1(m, r, w), Index(v, 1) = Index(w, 1)
    PROVE  v = w
  <1>1. /\ v \in 0 .. Fanout * Fanout * Fanout * Fanout - 1
        /\ w \in 0 .. Fanout * Fanout * Fanout * Fanout - 1
    BY AddressAssumption DEF Pages
  <1>2. v \in Nat /\ w \in Nat
    BY VmmAssumption DEF Pages
  <1>3. At2(m, r, v) # NULL /\ At3(m, r, v) # NULL
    BY <1>2, WalkLevels
  <1>4. Index(v, 2) = Index(w, 2) /\ At2(m, r, v) = At2(m, r, w)
    BY <1>2, SamePath
  <1>5. Index(v, 3) = Index(w, 3) /\ At3(m, r, v) = At3(m, r, w)
    BY <1>2, <1>3, <1>4, SamePath
  <1>6. Index(v, 4) = Index(w, 4)
    BY <1>2, <1>3, <1>5, SamePath
  <1>7. \A level \in 1 .. 4 : Index(v, level) = Index(w, level)
    BY <1>4, <1>5, <1>6
  <1>8. QED
    BY <1>1, <1>7, IndicesOfPage

-----------------------------------------------------------------------------
\* What is below some tables changes only with what is in them: a cleared table
\* adds nothing, an entry stored in a clear one adds its page.
LEMMA BelowSame ==
    ASSUME NEW m, NEW m2, NEW tables, \A t \in tables : m2[t] = m[t]
    PROVE  BelowIn(m2, tables) = BelowIn(m, tables)
  BY DEF BelowIn

LEMMA BelowCleared ==
    ASSUME NEW m, NEW tables, NEW p, m[p] = Cleared
    PROVE  BelowIn(m, tables \cup {p}) = BelowIn(m, tables)
  <1>1. \A i \in Slots : m[p][i].frame = 0
    BY DEF Cleared, Slots, Zero
  <1>2. QED
    BY <1>1 DEF BelowIn

LEMMA BelowPlus ==
    ASSUME NEW m, NEW m2, NEW tables, NEW q \in tables, NEW i \in Slots, NEW p, p # 0,
           m[q] \in Table, m[q][i].frame = 0,
           m2[q] = [m[q] EXCEPT ![i] = Entry(p, Flags)],
           \A t \in tables \ {q} : m2[t] = m[t]
    PROVE  BelowIn(m2, tables) = BelowIn(m, tables) \cup {p}
  <1>1. m2[q][i].frame = p /\ \A j \in Slots \ {i} : m2[q][j] = m[q][j]
    <2>1. m2[q][i] = Entry(p, Flags)
      BY DEF Table, Slots
    <2>2. \A j \in Slots \ {i} : m2[q][j] = m[q][j]
      BY DEF Table, Slots
    <2>3. QED
      BY <2>1, <2>2 DEF Entry
  <1>2. BelowIn(m2, tables) \subseteq BelowIn(m, tables) \cup {p}
    <2> SUFFICES ASSUME NEW x \in BelowIn(m2, tables), x # p
                 PROVE  x \in BelowIn(m, tables)
      OBVIOUS
    <2>1. PICK t \in tables, j \in Slots : x = m2[t][j].frame /\ x # 0
      BY DEF BelowIn
    <2>2. m2[t][j] = m[t][j]
      BY <1>1, <2>1
    <2>3. QED
      BY <2>1, <2>2 DEF BelowIn
  <1>3. p \in BelowIn(m2, tables)
    BY <1>1 DEF BelowIn
  <1>4. BelowIn(m, tables) \subseteq BelowIn(m2, tables)
    <2> SUFFICES ASSUME NEW x \in BelowIn(m, tables)
                 PROVE  x \in BelowIn(m2, tables)
      OBVIOUS
    <2>1. PICK t \in tables, j \in Slots : x = m[t][j].frame /\ x # 0
      BY DEF BelowIn
    <2>2. m2[t][j] = m[t][j]
      BY <1>1, <2>1
    <2>3. QED
      BY <2>1, <2>2 DEF BelowIn
  <1>5. QED
    BY <1>2, <1>3, <1>4

\* What CreateTable does to the memory: page p is cleared and stored in slot i of
\* table q, which was clear.
Grown(A, m, m2, r, p, q, i) ==
    /\ p \in A \ TablesIn(m, r)
    /\ q \in AboveIn(m, r) /\ i \in Slots /\ m[q][i] = Zero
    /\ m2 \in [A -> Table]
    /\ m2[p] = Cleared
    /\ m2[q] = [m[q] EXCEPT ![i] = Entry(p, Flags)]
    /\ \A t \in A \ {p, q} : m2[t] = m[t]

\* One level gains the page, the others stay.
LEMMA GrownLevels ==
    ASSUME NEW A, NEW m, NEW m2, NEW r, NEW p, NEW q, NEW i,
           IsTree(A, m, r), Grown(A, m, m2, r, p, q, i)
    PROVE  /\ L3(m2, r) = IF q \in L4(r) THEN L3(m, r) \cup {p} ELSE L3(m, r)
           /\ L2(m2, r) = IF q \in L3(m, r) THEN L2(m, r) \cup {p} ELSE L2(m, r)
           /\ L1(m2, r) = IF q \in L2(m, r) THEN L1(m, r) \cup {p} ELSE L1(m, r)
           /\ TablesIn(m2, r) = TablesIn(m, r) \cup {p}
  <1>1. /\ L4(r) \subseteq A /\ L3(m, r) \subseteq A /\ L2(m, r) \subseteq A
        /\ L3(m, r) \cap L2(m, r) = {} /\ L4(r) \cap (L3(m, r) \cup L2(m, r)) = {}
        /\ p \notin L4(r) /\ p \notin L3(m, r) /\ p \notin L2(m, r) /\ p # 0 /\ p # q
    BY TreeLevels DEF Grown, TablesIn, AboveIn, IsTree, L4
  <1>2. q \in A /\ m[q] \in Table /\ m[q][i].frame = 0 /\ i \in Slots
        /\ m2[q] = [m[q] EXCEPT ![i] = Entry(p, Flags)] /\ m2[p] = Cleared
        /\ \A t \in A \ {p, q} : m2[t] = m[t]
    BY <1>1 DEF Grown, AboveIn, IsTree, Zero
  <1>3. ASSUME NEW tables, tables \subseteq A, p \notin tables
        PROVE  BelowIn(m2, tables) = IF q \in tables THEN BelowIn(m, tables) \cup {p}
                                     ELSE BelowIn(m, tables)
    <2>1. CASE q \in tables
      <3>1. \A t \in tables \ {q} : m2[t] = m[t]
        BY <1>2, <1>3
      <3>2. QED
        BY <2>1, <3>1, <1>1, <1>2, BelowPlus
    <2>2. CASE q \notin tables
      <3>1. \A t \in tables : m2[t] = m[t]
        BY <1>2, <1>3, <2>2
      <3>2. QED
        BY <2>2, <3>1, BelowSame
    <2>3. QED
      BY <2>1, <2>2
  <1>4. L3(m2, r) = IF q \in L4(r) THEN L3(m, r) \cup {p} ELSE L3(m, r)
    BY <1>1, <1>3 DEF L3
  <1>5. L2(m2, r) = IF q \in L3(m, r) THEN L2(m, r) \cup {p} ELSE L2(m, r)
    <2>1. L2(m2, r) = BelowIn(m2, L3(m, r))
      BY <1>2, <1>4, BelowCleared DEF L2
    <2>2. QED
      BY <1>1, <1>3, <2>1 DEF L2
  <1>6. L1(m2, r) = IF q \in L2(m, r) THEN L1(m, r) \cup {p} ELSE L1(m, r)
    <2>1. L1(m2, r) = BelowIn(m2, L2(m, r))
      BY <1>2, <1>5, BelowCleared DEF L1
    <2>2. QED
      BY <1>1, <1>3, <2>1 DEF L1
  <1>7. q \in L4(r) \cup L3(m, r) \cup L2(m, r)
    BY DEF Grown, AboveIn
  <1>8. QED
    BY <1>4, <1>5, <1>6, <1>7 DEF TablesIn, AboveIn

\* The tables stay a tree.
LEMMA GrownTree ==
    ASSUME NEW A, NEW m, NEW m2, NEW r, NEW p, NEW q, NEW i,
           IsTree(A, m, r), Grown(A, m, m2, r, p, q, i)
    PROVE  IsTree(A, m2, r)
  <1>1. /\ p \in A /\ p \notin TablesIn(m, r) /\ q \in AboveIn(m, r) /\ p # q
        /\ AboveIn(m, r) \subseteq A /\ i \in Slots
    BY TreeLevels DEF Grown, TablesIn, AboveIn
  <1>2. AboveIn(m2, r) \subseteq AboveIn(m, r) \cup {p}
    BY GrownLevels DEF AboveIn
  <1>3. ASSUME NEW t \in AboveIn(m2, r), NEW j \in Slots
        PROVE  \/ m2[t][j] = Zero
               \/ t = q /\ j = i /\ m2[t][j] = Entry(p, Flags)
               \/ t \in AboveIn(m, r) /\ m2[t][j] = m[t][j]
    <2>1. CASE t = p
      BY <2>1 DEF Grown, Cleared, Slots
    <2>2. CASE t = q
      <3>1. m[q] \in Table
        BY <1>1 DEF IsTree
      <3>2. QED
        BY <2>2, <3>1, <1>1 DEF Grown, Table, Slots
    <2>3. CASE t # p /\ t # q
      BY <2>3, <1>1, <1>2 DEF Grown
    <2>4. QED
      BY <2>1, <2>2, <2>3
  <1>4. \A t \in AboveIn(m2, r), j \in Slots : IsEntry(A, m2[t][j])
    <2> SUFFICES ASSUME NEW t \in AboveIn(m2, r), NEW j \in Slots
                 PROVE  IsEntry(A, m2[t][j])
      OBVIOUS
    <2>1. CASE t \in AboveIn(m, r) /\ m2[t][j] = m[t][j]
      BY <2>1 DEF IsTree
    <2>2. QED
      BY <1>1, <1>3, <2>1 DEF IsEntry, Entry
  <1>5. r \notin L3(m2, r) \cup L2(m2, r) \cup L1(m2, r)
    <2>1. r # p
      <3>1. CASE r = NULL
        BY <3>1, <1>1 DEF IsTree, NULL
      <3>2. CASE r # NULL
        BY <3>2, <1>1 DEF TablesIn, AboveIn, L4
      <3>3. QED
        BY <3>1, <3>2
    <2>2. /\ L3(m2, r) \subseteq L3(m, r) \cup {p}
          /\ L2(m2, r) \subseteq L2(m, r) \cup {p}
          /\ L1(m2, r) \subseteq L1(m, r) \cup {p}
      BY GrownLevels
    <2>3. r \notin L3(m, r) \cup L2(m, r) \cup L1(m, r)
      BY DEF IsTree
    <2>4. QED
      BY <2>1, <2>2, <2>3
  <1>6. ASSUME NEW t \in AboveIn(m, r), NEW j \in Slots
        PROVE  m[t][j].frame # p
    <2>1. m[t][j].frame = 0 \/ m[t][j].frame \in TablesIn(m, r)
      BY DEF TablesIn, AboveIn, L3, L2, L1, BelowIn
    <2>2. QED
      BY <2>1, <1>1 DEF IsTree
  <1>7. ASSUME NEW t \in AboveIn(m2, r), NEW u \in AboveIn(m2, r), NEW j \in Slots, NEW k \in Slots,
               m2[t][j].frame # 0, m2[t][j].frame = m2[u][k].frame
        PROVE  t = u /\ j = k
    <2>1. m2[t][j] # Zero /\ m2[u][k] # Zero
      BY <1>7 DEF Zero
    <2>2. CASE t = q /\ j = i /\ m2[t][j] = Entry(p, Flags)
      BY <1>3, <1>6, <1>7, <2>1, <2>2 DEF Entry
    <2>3. CASE t \in AboveIn(m, r) /\ m2[t][j] = m[t][j]
      <3>1. CASE u \in AboveIn(m, r) /\ m2[u][k] = m[u][k]
        <4>1. m[t][j].frame # 0 /\ m[t][j].frame = m[u][k].frame
          BY <1>7, <2>3, <3>1
        <4>2. QED
          BY <2>3, <3>1, <4>1, OneWay
      <3>2. CASE m2[u][k] = Entry(p, Flags)
        BY <1>6, <1>7, <2>3, <3>2 DEF Entry
      <3>3. QED
        BY <1>3, <2>1, <3>1, <3>2
    <2>4. QED
      BY <1>3, <2>1, <2>2, <2>3
  <1>8. Unshared(m2, AboveIn(m2, r))
    BY <1>7 DEF Unshared
  <1>9. A \subseteq Nat \ {0} /\ m2 \in [A -> Table] /\ r \in A \cup {NULL}
    BY DEF Grown, IsTree
  <1>10. QED
    BY <1>4, <1>5, <1>8, <1>9 DEF IsTree

\* The walk for the page in hand goes one table further; no translation changes,
\* because a new table is clear.
LEMMA GrownDown ==
    ASSUME NEW A, NEW m, NEW m2, NEW r, NEW p, NEW q, NEW i,
           IsTree(A, m, r), Grown(A, m, m2, r, p, q, i),
           NEW v \in Nat, NEW level \in 1 .. 4, NEW t \in TablesIn(m, r) \cup {NULL}
    PROVE  /\ DownIn(m2, t, v, level) =
                 IF t = q /\ Index(v, level) = i THEN p ELSE DownIn(m, t, v, level)
           /\ t = q /\ Index(v, level) = i => DownIn(m, t, v, level) = NULL
  <1>1. /\ p # NULL /\ p # t /\ q # NULL /\ q # p /\ TablesIn(m, r) \subseteq A
        /\ q \in A
    BY TreeLevels DEF Grown, TablesIn, AboveIn, IsTree, NULL
  <1>2. Index(v, level) \in Slots
    BY IndexInTable
  <1>3. m[q] \in Table /\ m[q][i] = Zero /\ m2[q] = [m[q] EXCEPT ![i] = Entry(p, Flags)]
        /\ i \in Slots
    BY <1>1 DEF Grown, IsTree
  <1>4. CASE t = q /\ Index(v, level) = i
    <2>1. m2[t][Index(v, level)] = Entry(p, Flags)
      BY <1>2, <1>3, <1>4 DEF Table, Slots
    <2>2. DownIn(m2, t, v, level) = p
      BY <1>1, <1>4, <2>1 DEF DownIn, Entry, Present, Flags
    <2>3. DownIn(m, t, v, level) = NULL
      BY <1>3, <1>4 DEF DownIn, Zero, Present
    <2>4. QED
      BY <1>4, <2>2, <2>3
  <1>5. CASE t = q /\ Index(v, level) # i
    <2>1. m2[t][Index(v, level)] = m[t][Index(v, level)]
      BY <1>2, <1>3, <1>5 DEF Table, Slots
    <2>2. QED
      BY <1>5, <2>1 DEF DownIn
  <1>6. CASE t # q
    <2>1. t = NULL \/ m2[t] = m[t]
      BY <1>1, <1>6 DEF Grown
    <2>2. QED
      BY <1>6, <2>1 DEF DownIn
  <1>7. QED
    BY <1>4, <1>5, <1>6

LEMMA GrownWalk ==
    ASSUME NEW A, NEW m, NEW m2, NEW r, NEW p, NEW q, NEW i,
           IsTree(A, m, r), Grown(A, m, m2, r, p, q, i), NEW v \in Nat
    PROVE  /\ At3(m2, r, v) = IF q = r /\ Index(v, 4) = i THEN p ELSE At3(m, r, v)
           /\ q # r => At2(m2, r, v) = IF q = At3(m, r, v) /\ Index(v, 3) = i THEN p ELSE At2(m, r, v)
           /\ q # r /\ q \notin L3(m, r) =>
                 At1(m2, r, v) = IF q = At2(m, r, v) /\ Index(v, 2) = i THEN p ELSE At1(m, r, v)
           /\ TranslationIn(m2, r, v) = TranslationIn(m, r, v)
  <1>1. /\ r \in L4(r) \cup {NULL}
        /\ At3(m, r, v) \in L3(m, r) \cup {NULL}
        /\ At2(m, r, v) \in L2(m, r) \cup {NULL}
        /\ At1(m, r, v) \in L1(m, r) \cup {NULL}
    BY WalkLevels
  <1>2. /\ L4(r) \cap (L3(m, r) \cup L2(m, r) \cup L1(m, r)) = {}
        /\ L3(m, r) \cap L2(m, r) = {} /\ L3(m, r) \cap L1(m, r) = {}
        /\ L2(m, r) \cap L1(m, r) = {}
        /\ NULL \notin TablesIn(m, r)
    BY TreeLevels
  <1>3. /\ p \notin TablesIn(m, r) /\ p # NULL /\ m2[p] = Cleared
        /\ q \in L4(r) \cup L3(m, r) \cup L2(m, r) /\ q # NULL
    BY <1>2 DEF Grown, TablesIn, AboveIn, IsTree, NULL
  <1>4. \A level \in 1 .. 4 : DownIn(m2, p, v, level) = NULL
    <2> SUFFICES ASSUME NEW level \in 1 .. 4
                 PROVE  DownIn(m2, p, v, level) = NULL
      OBVIOUS
    <2>1. m2[p][Index(v, level)] = Zero
      BY <1>3, IndexInTable DEF Cleared, Slots
    <2>2. QED
      BY <2>1 DEF DownIn, Zero, Present
  <1>5. \A level \in 1 .. 4 : DownIn(m2, NULL, v, level) = NULL
    BY DEF DownIn
  <1>6. At3(m2, r, v) = IF q = r /\ Index(v, 4) = i THEN p ELSE At3(m, r, v)
    BY <1>1, GrownDown DEF At3, TablesIn, AboveIn
  <1>7. q # r => At3(m2, r, v) = At3(m, r, v)
    BY <1>6
  <1>8. DownIn(m2, At3(m, r, v), v, 3) =
            IF q = At3(m, r, v) /\ Index(v, 3) = i THEN p ELSE At2(m, r, v)
    BY <1>1, GrownDown DEF At2, TablesIn, AboveIn
  <1>9. DownIn(m2, At2(m, r, v), v, 2) =
            IF q = At2(m, r, v) /\ Index(v, 2) = i THEN p ELSE At1(m, r, v)
    BY <1>1, GrownDown DEF At1, TablesIn, AboveIn
  <1>10. q # r => At2(m2, r, v) = IF q = At3(m, r, v) /\ Index(v, 3) = i THEN p ELSE At2(m, r, v)
    BY <1>7, <1>8 DEF At2
  <1>11. q # r /\ q \notin L3(m, r) => At2(m2, r, v) = At2(m, r, v)
    BY <1>1, <1>3, <1>10
  <1>12. q # r /\ q \notin L3(m, r) =>
            At1(m2, r, v) = IF q = At2(m, r, v) /\ Index(v, 2) = i THEN p ELSE At1(m, r, v)
    BY <1>9, <1>11 DEF At1
  <1>13. CASE q = r /\ Index(v, 4) = i
    <2>1. At1(m2, r, v) = NULL
      BY <1>4, <1>5, <1>6, <1>13 DEF At2, At1
    <2>2. At3(m, r, v) = NULL
      BY <1>1, <1>13, GrownDown DEF At3, TablesIn, AboveIn
    <2>3. At1(m, r, v) = NULL
      BY <2>2, WalkLevels
    <2>4. QED
      BY <1>6, <1>10, <1>12, <1>13, <2>1, <2>3 DEF TranslationIn
  <1>14. CASE q = At3(m, r, v) /\ Index(v, 3) = i
    <2>1. At1(m2, r, v) = NULL
      <3>1. q # r
        BY <1>1, <1>2, <1>3, <1>14 DEF L4
      <3>2. QED
        BY <1>4, <1>10, <1>14, <3>1 DEF At1
    <2>2. At2(m, r, v) = NULL
      BY <1>1, <1>14, GrownDown DEF At2, TablesIn, AboveIn
    <2>3. At1(m, r, v) = NULL
      BY <2>2, WalkLevels
    <2>4. QED
      BY <1>6, <1>10, <1>12, <2>1, <2>3 DEF TranslationIn
  <1>15. CASE q = At2(m, r, v) /\ Index(v, 2) = i
    <2>1. q # r /\ q \notin L3(m, r)
      BY <1>1, <1>2, <1>3, <1>15 DEF L4
    <2>2. At1(m2, r, v) = p
      BY <1>12, <1>15, <2>1
    <2>3. TranslationIn(m2, r, v) = Zero
      <3>1. m2[p][Index(v, 1)] = Zero
        BY <1>3, IndexInTable DEF Cleared, Slots
      <3>2. QED
        BY <1>3, <2>2, <3>1 DEF TranslationIn
    <2>4. At1(m, r, v) = NULL
      BY <1>1, <1>15, GrownDown DEF At1, TablesIn, AboveIn
    <2>5. QED
      BY <1>6, <1>10, <1>12, <2>3, <2>4 DEF TranslationIn
  <1>16. CASE /\ ~ (q = r /\ Index(v, 4) = i)
              /\ ~ (q = At3(m, r, v) /\ Index(v, 3) = i)
              /\ ~ (q = At2(m, r, v) /\ Index(v, 2) = i)
    <2>1. At3(m2, r, v) = At3(m, r, v)
      BY <1>6, <1>16
    <2>2. At2(m2, r, v) = At2(m, r, v)
      BY <1>8, <1>16, <2>1 DEF At2
    <2>3. At1(m2, r, v) = At1(m, r, v)
      BY <1>9, <1>16, <2>2 DEF At1
    <2>4. At1(m, r, v) # NULL => m2[At1(m, r, v)] = m[At1(m, r, v)]
      <3>1. L1(m, r) \subseteq A
        BY TreeLevels
      <3>2. At1(m, r, v) # NULL => At1(m, r, v) \in A \ {p, q}
        BY <1>1, <1>2, <1>3, <3>1 DEF TablesIn
      <3>3. QED
        BY <3>2 DEF Grown
    <2>5. TranslationIn(m2, r, v) = TranslationIn(m, r, v)
      BY <2>3, <2>4 DEF TranslationIn
    <2>6. QED
      BY <1>6, <1>10, <1>12, <2>5
  <1>17. QED
    BY <1>13, <1>14, <1>15, <1>16

\* An entry stored in a page table changes no table and no walk, and the
\* translation of the pages that lead to it.
Stored(A, m, m2, r, t, i, e) ==
    /\ t \in L1(m, r) /\ i \in Slots
    /\ e \in [frame : Nat, flags : SUBSET Flags]
    /\ m2 \in [A -> Table]
    /\ m2[t] = [m[t] EXCEPT ![i] = e]
    /\ \A u \in A \ {t} : m2[u] = m[u]

LEMMA StoredTree ==
    ASSUME NEW A, NEW m, NEW m2, NEW r, NEW t, NEW i, NEW e,
           IsTree(A, m, r), Stored(A, m, m2, r, t, i, e)
    PROVE  /\ IsTree(A, m2, r)
           /\ L3(m2, r) = L3(m, r) /\ L2(m2, r) = L2(m, r) /\ TablesIn(m2, r) = TablesIn(m, r)
           /\ \A u \in AboveIn(m, r) : m2[u] = m[u]
  <1>1. t \in A /\ t \notin AboveIn(m, r) /\ AboveIn(m, r) \subseteq A
    BY TreeLevels DEF AboveIn, Stored
  <1>2. \A u \in AboveIn(m, r) : m2[u] = m[u]
    BY <1>1 DEF Stored
  <1>3. /\ L4(r) \subseteq AboveIn(m, r) /\ L3(m, r) \subseteq AboveIn(m, r)
        /\ L2(m, r) \subseteq AboveIn(m, r)
    BY DEF AboveIn
  <1>4. \A tables : tables \subseteq AboveIn(m, r) => BelowIn(m2, tables) = BelowIn(m, tables)
    <2> SUFFICES ASSUME NEW tables, tables \subseteq AboveIn(m, r)
                 PROVE  BelowIn(m2, tables) = BelowIn(m, tables)
      OBVIOUS
    <2>1. \A u \in tables : m2[u] = m[u]
      BY <1>2
    <2>2. QED
      BY <2>1, BelowSame
  <1>5. L3(m2, r) = L3(m, r)
    BY <1>3, <1>4 DEF L3
  <1>6. L2(m2, r) = L2(m, r)
    BY <1>3, <1>4, <1>5 DEF L2
  <1>7. L1(m2, r) = L1(m, r)
    BY <1>3, <1>4, <1>6 DEF L1
  <1>8. AboveIn(m2, r) = AboveIn(m, r) /\ TablesIn(m2, r) = TablesIn(m, r)
    BY <1>5, <1>6, <1>7 DEF AboveIn, TablesIn
  <1>9. Unshared(m2, AboveIn(m2, r))
    <2>1. Unshared(m, AboveIn(m, r))
      BY DEF IsTree
    <2>2. QED
      BY <1>2, <1>8, <2>1 DEF Unshared
  <1>10. \A u \in AboveIn(m2, r), j \in Slots : IsEntry(A, m2[u][j])
    BY <1>2, <1>8 DEF IsTree
  <1>11. A \subseteq Nat \ {0} /\ r \in A \cup {NULL} /\ r \notin L3(m2, r) \cup L2(m2, r) \cup L1(m2, r)
    BY <1>5, <1>6, <1>7 DEF IsTree
  <1>12. QED
    BY <1>2, <1>5, <1>6, <1>8, <1>9, <1>10, <1>11 DEF IsTree, Stored

LEMMA StoredWalk ==
    ASSUME NEW A, NEW m, NEW m2, NEW r, NEW t, NEW i, NEW e,
           IsTree(A, m, r), Stored(A, m, m2, r, t, i, e), NEW v \in Nat
    PROVE  /\ At3(m2, r, v) = At3(m, r, v)
           /\ At2(m2, r, v) = At2(m, r, v)
           /\ At1(m2, r, v) = At1(m, r, v)
           /\ TranslationIn(m2, r, v) =
                 IF At1(m, r, v) = t /\ Index(v, 1) = i THEN e ELSE TranslationIn(m, r, v)
  <1>1. \A u \in AboveIn(m, r) \cup {NULL}, level \in 1 .. 4 :
            DownIn(m2, u, v, level) = DownIn(m, u, v, level)
    BY StoredTree DEF DownIn
  <1>2. /\ r \in AboveIn(m, r) \cup {NULL}
        /\ At3(m, r, v) \in AboveIn(m, r) \cup {NULL}
        /\ At2(m, r, v) \in AboveIn(m, r) \cup {NULL}
        /\ At1(m, r, v) \in L1(m, r) \cup {NULL}
    BY WalkLevels DEF AboveIn
  <1>3. At3(m2, r, v) = At3(m, r, v)
    BY <1>1, <1>2 DEF At3
  <1>4. At2(m2, r, v) = At2(m, r, v)
    BY <1>1, <1>2, <1>3 DEF At2
  <1>5. At1(m2, r, v) = At1(m, r, v)
    BY <1>1, <1>2, <1>4 DEF At1
  <1>6. t \in A /\ t # NULL /\ L1(m, r) \subseteq A /\ m \in [A -> Table] /\ i \in Slots
    <2>1. L1(m, r) \subseteq A /\ NULL \notin L1(m, r)
      BY TreeLevels DEF TablesIn
    <2>2. t \in L1(m, r) /\ i \in Slots
      BY DEF Stored
    <2>3. m \in [A -> Table]
      BY DEF IsTree
    <2>4. QED
      BY <2>1, <2>2, <2>3
  <1>7. Index(v, 1) \in Slots
    BY IndexInTable
  <1>8. m2[t] = [m[t] EXCEPT ![i] = e] /\ m[t] \in Table /\ \A u \in A \ {t} : m2[u] = m[u]
    BY <1>6 DEF Stored
  <1>9. TranslationIn(m2, r, v) =
            IF At1(m, r, v) = t /\ Index(v, 1) = i THEN e ELSE TranslationIn(m, r, v)
    <2>1. CASE At1(m, r, v) = t /\ Index(v, 1) = i
      <3>1. m2[t][Index(v, 1)] = e
        BY <1>7, <1>8, <2>1 DEF Table, Slots
      <3>2. QED
        BY <1>5, <1>6, <2>1, <3>1 DEF TranslationIn
    <2>2. CASE At1(m, r, v) = t /\ Index(v, 1) # i
      <3>1. m2[t][Index(v, 1)] = m[t][Index(v, 1)]
        BY <1>7, <1>8, <2>2 DEF Table, Slots
      <3>2. QED
        BY <1>5, <2>2, <3>1 DEF TranslationIn
    <2>3. CASE At1(m, r, v) # t
      <3>1. At1(m, r, v) # NULL => m2[At1(m, r, v)] = m[At1(m, r, v)]
        BY <1>2, <1>6, <1>8, <2>3
      <3>2. QED
        BY <1>5, <2>3, <3>1 DEF TranslationIn
    <2>4. QED
      BY <2>1, <2>2, <2>3
  <1>10. QED
    BY <1>3, <1>4, <1>5, <1>9

\* A cleared top table alone is a tree in which nothing is mapped.
Rooted(A, m2, p) ==
    A \subseteq Nat \ {0} /\ p \in A /\ m2 \in [A -> Table] /\ m2[p] = Cleared

LEMMA RootTree ==
    ASSUME NEW A, NEW m2, NEW p, Rooted(A, m2, p)
    PROVE  /\ IsTree(A, m2, p) /\ TablesIn(m2, p) = {p}
           /\ L3(m2, p) = {} /\ L2(m2, p) = {}
           /\ \A v \in Nat : TranslationIn(m2, p, v) = Zero
  <1>1. m2[p] = Cleared /\ p # NULL /\ p \in A
    BY DEF NULL, Rooted
  <1>2. \A i \in Slots : m2[p][i] = Zero
    BY <1>1 DEF Cleared, Slots
  <1>3. BelowIn(m2, {}) = {}
    BY DEF BelowIn
  <1>4. L4(p) = {p} /\ L3(m2, p) = {} /\ L2(m2, p) = {} /\ L1(m2, p) = {}
    BY <1>1, <1>2, <1>3 DEF L4, L3, L2, L1, BelowIn, Zero
  <1>5. AboveIn(m2, p) = {p} /\ TablesIn(m2, p) = {p}
    BY <1>4 DEF AboveIn, TablesIn
  <1>7. Unshared(m2, AboveIn(m2, p))
    BY <1>2, <1>5 DEF Unshared, Zero
  <1>8. \A t \in AboveIn(m2, p), i \in Slots : IsEntry(A, m2[t][i])
    BY <1>2, <1>5 DEF IsEntry
  <1>9. IsTree(A, m2, p)
    BY <1>1, <1>4, <1>7, <1>8 DEF IsTree, Rooted
  <1>10. \A v \in Nat : TranslationIn(m2, p, v) = Zero
    <2> SUFFICES ASSUME NEW v \in Nat PROVE TranslationIn(m2, p, v) = Zero
      OBVIOUS
    <2>1. At1(m2, p, v) = NULL
      BY <1>4, <1>9, WalkLevels
    <2>2. QED
      BY <2>1 DEF TranslationIn
  <1>11. QED
    BY <1>4, <1>5, <1>9, <1>10

-----------------------------------------------------------------------------
\* The invariant behind PagesAccounted and NoSharedTable: beside the types, the
\* bits of what is no memory stay set, the statistic is not below what clients
\* hold, the tables form a tree, and a running vmm_map_page stands where the walk
\* for its page has come.
TableAt(m, r, v, level) == <<At1(m, r, v), At2(m, r, v), At3(m, r, v), r>>[level]
Entries == {Entry(frame, flags) : frame \in Targets \cup 0 .. KernelPages - 1,
                                  flags \in FlagSets \cup {Flags}}
OnItsWay ==
    call # NoCall =>
        /\ kernel_pml4 # NULL
        /\ call.table = TableAt(memory, kernel_pml4, call.virt, call.level)
        /\ call.virt \in Pages /\ call.entry \in Entries
Accounted ==
    /\ Bits \ Available \subseteq memory_bitmap
    /\ Available \cap memory_bitmap = held \cup TablesIn(memory, kernel_pml4)
    /\ held \cap TablesIn(memory, kernel_pml4) = {}
Safe ==
    /\ TypeOK
    /\ Cardinality(held) <= used_blocks
    /\ addr = NotStarted => kernel_pml4 = NULL
    /\ IsTree(Available, memory, kernel_pml4)
    /\ Accounted
    /\ OnItsWay

-----------------------------------------------------------------------------
\* The operators of Vmm, in terms of those above.
LEMMA Named ==
    /\ PML4s = L4(kernel_pml4)
    /\ PDPTs = L3(memory, kernel_pml4)
    /\ PDs = L2(memory, kernel_pml4)
    /\ PTs = L1(memory, kernel_pml4)
    /\ TablePages = TablesIn(memory, kernel_pml4)
    /\ \A v : PageTable(v) = At1(memory, kernel_pml4, v)
    /\ \A v : Translation(v) = TranslationIn(memory, kernel_pml4, v)
  <1>1. PML4s = L4(kernel_pml4)
    BY DEF PML4s, L4
  <1>2. \A tables : Below(tables) = BelowIn(memory, tables)
    BY DEF Below, BelowIn, Slots
  <1>3. /\ PDPTs = L3(memory, kernel_pml4)
        /\ PDs = L2(memory, kernel_pml4)
        /\ PTs = L1(memory, kernel_pml4)
    BY <1>1, <1>2 DEF PDPTs, PDs, PTs, L3, L2, L1
  <1>4. TablePages = TablesIn(memory, kernel_pml4)
    BY <1>1, <1>3 DEF TablePages, TablesIn, AboveIn
  <1>5. \A v, t, level : Down(t, v, level) = DownIn(memory, t, v, level)
    BY DEF Down, DownIn, EntryAt
  <1>6. \A v : PageTable(v) = At1(memory, kernel_pml4, v)
    BY <1>5 DEF PageTable, At1, At2, At3
  <1>7. \A v : Translation(v) = TranslationIn(memory, kernel_pml4, v)
    BY <1>6 DEF Translation, TranslationIn, EntryAt
  <1>8. QED
    BY <1>1, <1>3, <1>4, <1>6, <1>7

\* The pages searched have a bit, and the free ones among them are memory that
\* nobody holds and no table is in.
LEMMA SearchedPages ==
    ASSUME total_memory \in Nat
    PROVE  /\ total_blocks \in Nat /\ total_blocks <= MAX_BLOCKS
           /\ total_blocks * WordBits <= total_memory
           /\ Searched \subseteq Bits
           /\ \A page \in Searched : page < total_memory
  <1>1. total_memory \div WordBits \in Nat /\ WordBits * (total_memory \div WordBits) <= total_memory
    BY PmmAssumption, DivMod
  <1>2. total_blocks \in Nat /\ total_blocks <= MAX_BLOCKS /\ total_blocks <= total_memory \div WordBits
    BY <1>1, PmmAssumption DEF total_blocks
  <1>3. ASSUME NEW a \in Nat, NEW b \in Nat, a <= b PROVE a * WordBits <= b * WordBits
    BY <1>3, PmmAssumption
  <1>4. total_blocks * WordBits <= total_memory
    <2>1. total_blocks * WordBits <= (total_memory \div WordBits) * WordBits
      BY <1>1, <1>2, <1>3
    <2>2. (total_memory \div WordBits) * WordBits = WordBits * (total_memory \div WordBits)
      BY <1>1, PmmAssumption
    <2>3. QED
      BY <1>1, <1>2, <2>1, <2>2, PmmAssumption
  <1>5. total_blocks * WordBits <= MAX_BLOCKS * WordBits
    BY <1>2, <1>3, PmmAssumption
  <1>6. QED
    BY <1>2, <1>4, <1>5, PmmAssumption DEF Searched, Bits

LEMMA FreePages ==
    ASSUME TypeOK, Accounted, NEW page \in Searched, NEW count \in Nat \ {0}, IsFree(page, count)
    PROVE  /\ Run(page, count) \subseteq Available
           /\ Run(page, count) \cap (held \cup TablesIn(memory, kernel_pml4)) = {}
           /\ page \in Run(page, count)
  <1>1. total_memory \in Nat
    BY PmmAssumption DEF TypeOK
  <1>2. Run(page, count) \subseteq Searched /\ Run(page, count) \cap memory_bitmap = {}
    BY DEF IsFree
  <1>3. Run(page, count) \subseteq Bits
    BY <1>1, <1>2, SearchedPages
  <1>4. Run(page, count) \subseteq Available
    BY <1>2, <1>3 DEF Accounted
  <1>5. page \in Int
    BY DEF Searched
  <1>6. page \in Run(page, count)
    BY <1>5 DEF Run
  <1>7. QED
    BY <1>2, <1>4, <1>6 DEF Accounted

\* The page for a table.
LEMMA FreshPage ==
    ASSUME TypeOK, Accounted, NEW page \in Searched, pmm_alloc_page(page)
    PROVE  /\ page \in Available /\ page \notin held \cup TablesIn(memory, kernel_pml4)
           /\ memory_bitmap' = memory_bitmap \cup {page}
           /\ used_blocks' = used_blocks + 1
           /\ total_memory' = total_memory /\ Available' = Available
           /\ page \in Nat \ {0} /\ page \in Bits
  <1>1. IsFree(page, 1)
    BY DEF pmm_alloc_page, find_free_page, find_free_pages
  <1>2. Run(page, 1) = {page}
    BY DEF Run, Searched
  <1>3. page \in Available /\ page \notin held \cup TablesIn(memory, kernel_pml4)
    BY <1>1, <1>2, FreePages
  <1>4. /\ memory_bitmap' = memory_bitmap \cup {page}
        /\ used_blocks' = used_blocks + 1 /\ total_memory' = total_memory
    BY <1>2 DEF pmm_alloc_page, Take
  <1>5. QED
    BY <1>3, <1>4, PmmAssumption DEF Available, Bits

\* The pages of memory are numbers above 0, and finitely many.
LEMMA AvailablePages ==
    /\ Available \subseteq Nat \ {0} /\ IsFiniteSet(Available)
    /\ Available \subseteq Bits
  <1>1. MAX_BLOCKS * WordBits - 1 \in Int
    BY PmmAssumption
  <1>2. IsFiniteSet(Bits)
    BY <1>1, FS_Interval DEF Bits
  <1>3. Available \subseteq Bits
    BY DEF Available
  <1>4. IsFiniteSet(Available)
    BY <1>2, <1>3, FS_Subset
  <1>5. Available \subseteq Nat \ {0}
    BY <1>1, PmmAssumption DEF Available, Bits
  <1>6. QED
    BY <1>3, <1>4, <1>5

LEMMA InitSafe == Init => Safe
  <1> SUFFICES ASSUME Init PROVE Safe
    OBVIOUS
  <1> USE DEF Init, PmmInit
  <1>1. kernel_pml4 = NULL /\ call = NoCall /\ held = {} /\ addr = NotStarted
    OBVIOUS
  <1>2. /\ L4(kernel_pml4) = {} /\ L3(memory, kernel_pml4) = {} /\ L2(memory, kernel_pml4) = {}
        /\ L1(memory, kernel_pml4) = {}
    BY <1>1 DEF L4, L3, L2, L1, BelowIn
  <1>3. AboveIn(memory, kernel_pml4) = {} /\ TablesIn(memory, kernel_pml4) = {}
    BY <1>2 DEF AboveIn, TablesIn
  <1>4. Junk \in Table
    BY PmmAssumption DEF Junk, Table, Entry, Flags
  <1>5. memory \in [Available -> Table]
    BY <1>4
  <1>6. IsTree(Available, memory, kernel_pml4)
    BY <1>1, <1>2, <1>3, <1>5, AvailablePages DEF IsTree, Unshared
  <1>7. used_blocks \in Nat
    BY PmmAssumption, DivMod
  <1>8. TypeOK
    BY <1>1, <1>5, <1>7, PmmAssumption DEF TypeOK, NotStarted, NULL
  <1>9. Cardinality(held) <= used_blocks
    BY <1>1, <1>7, FS_EmptySet
  <1>10. Accounted
    BY <1>1, <1>3, AvailablePages DEF Accounted
  <1>11. OnItsWay
    BY <1>1 DEF OnItsWay
  <1>12. QED
    BY <1>1, <1>6, <1>8, <1>9, <1>10, <1>11 DEF Safe

\* Where a running vmm_map_page stands.
LEMMA RunningCall ==
    ASSUME Safe, call.level > 0
    PROVE  /\ call # NoCall /\ call \in Calls
           /\ call.level \in 1 .. 4 /\ call.virt \in Nat /\ call.virt \in Pages
           /\ call.entry \in Entries /\ call.entry \in [frame : Nat, flags : SUBSET Flags]
           /\ call.table \in Available /\ call.table # NULL /\ kernel_pml4 # NULL
           /\ call.table = TableAt(memory, kernel_pml4, call.virt, call.level)
           /\ Index(call.virt, call.level) \in Slots
  <1>1. call # NoCall
    BY DEF NoCall
  <1>2. call \in Calls
    BY <1>1 DEF Safe, TypeOK
  <1>3. /\ call.level \in 1 .. 4 /\ call.virt \in Nat /\ call.table \in Available
        /\ call.entry \in [frame : Nat, flags : SUBSET Flags]
    BY <1>2 DEF Calls, TOP
  <1>4. Index(call.virt, call.level) \in Slots
    BY <1>3, IndexInTable
  <1>5. call.table # NULL
    BY <1>3, AvailablePages DEF NULL
  <1>6. /\ call.virt \in Pages /\ call.entry \in Entries /\ kernel_pml4 # NULL
        /\ call.table = TableAt(memory, kernel_pml4, call.virt, call.level)
    BY <1>1 DEF Safe, OnItsWay
  <1>7. QED
    BY <1>1, <1>2, <1>3, <1>4, <1>5, <1>6

LEMMA TableOfLevel ==
    ASSUME Safe, call.level > 0
    PROVE  /\ call.level = 4 => call.table = kernel_pml4 /\ call.table \in L4(kernel_pml4)
           /\ call.level = 3 => /\ call.table = At3(memory, kernel_pml4, call.virt)
                               /\ call.table \in L3(memory, kernel_pml4)
           /\ call.level = 2 => /\ call.table = At2(memory, kernel_pml4, call.virt)
                               /\ call.table \in L2(memory, kernel_pml4)
           /\ call.level = 1 => /\ call.table = At1(memory, kernel_pml4, call.virt)
                               /\ call.table \in L1(memory, kernel_pml4)
           /\ call.level > 1 => call.table \in AboveIn(memory, kernel_pml4)
  <1>1. /\ call.level \in 1 .. 4 /\ call.virt \in Nat /\ call.table # NULL
        /\ call.table = TableAt(memory, kernel_pml4, call.virt, call.level)
    BY RunningCall
  <1>2. IsTree(Available, memory, kernel_pml4)
    BY DEF Safe
  <1>3. /\ call.level = 4 => call.table = kernel_pml4
        /\ call.level = 3 => call.table = At3(memory, kernel_pml4, call.virt)
        /\ call.level = 2 => call.table = At2(memory, kernel_pml4, call.virt)
        /\ call.level = 1 => call.table = At1(memory, kernel_pml4, call.virt)
    BY <1>1 DEF TableAt
  <1>4. /\ kernel_pml4 \in L4(kernel_pml4) \cup {NULL}
        /\ At3(memory, kernel_pml4, call.virt) \in L3(memory, kernel_pml4) \cup {NULL}
        /\ At2(memory, kernel_pml4, call.virt) \in L2(memory, kernel_pml4) \cup {NULL}
        /\ At1(memory, kernel_pml4, call.virt) \in L1(memory, kernel_pml4) \cup {NULL}
    BY <1>1, <1>2, WalkLevels
  <1>5. QED
    BY <1>1, <1>3, <1>4 DEF AboveIn

\* The table a walk goes on to is the one of the next level.
LEMMA NextTable ==
    ASSUME NEW m, NEW r, NEW v, NEW level \in 2 .. 4
    PROVE  TableAt(m, r, v, level - 1) = DownIn(m, TableAt(m, r, v, level), v, level)
  BY DEF TableAt, At1, At2, At3

LEMMA WalkingLevel ==
    ASSUME Safe, Walking
    PROVE  call.level \in 2 .. 4 /\ call.level > 0
  <1>1. call # NoCall
    BY DEF Walking, NoCall
  <1>2. call \in Calls
    BY <1>1 DEF Safe, TypeOK
  <1>3. QED
    BY <1>2 DEF Calls, TOP, Walking

\* What CreateTable and StoreEntry do to the memory, in the terms of the lemmas.
LEMMA CreateGrows ==
    ASSUME Safe, Walking, ~ Present(Slot), NEW page \in Searched, pmm_alloc_page(page),
           memory' = [memory EXCEPT
                        ![page] = Cleared,
                        ![call.table][Index(call.virt, call.level)] = Entry(page, Flags)]
    PROVE  Grown(Available, memory, memory', kernel_pml4, page, call.table,
                 Index(call.virt, call.level))
  <1> DEFINE q == call.table
             i == Index(call.virt, call.level)
  <1>1. /\ page \in Available /\ page \notin TablesIn(memory, kernel_pml4) /\ page \in Nat
    BY FreshPage DEF Safe
  <1>2. q \in AboveIn(memory, kernel_pml4) /\ q \in Available /\ i \in Slots
    <2>1. call.level \in 2 .. 4 /\ call.level > 0
      BY WalkingLevel
    <2>2. QED
      BY <2>1, RunningCall, TableOfLevel
  <1>3. page # q
    BY <1>1, <1>2 DEF TablesIn
  <1>4. memory \in [Available -> Table] /\ IsEntry(Available, memory[q][i])
    BY <1>2 DEF Safe, IsTree
  <1>5. memory[q][i] = Zero
    BY <1>4 DEF IsEntry, Present, Flags, Slot, EntryAt
  <1>6. Cleared \in Table
    BY DEF Cleared, Table, Zero
  <1>7. Entry(page, Flags) \in [frame : Nat, flags : SUBSET Flags]
    BY <1>1 DEF Entry
  <1>8. [memory[q] EXCEPT ![i] = Entry(page, Flags)] \in Table
    BY <1>2, <1>4, <1>7 DEF Table, Slots
  <1> HIDE DEF q, i
  <1>9. memory' = [memory EXCEPT ![page] = Cleared, ![q][i] = Entry(page, Flags)]
    BY DEF q, i
  <1>10. memory' \in [Available -> Table]
    BY <1>1, <1>2, <1>3, <1>4, <1>6, <1>8, <1>9
  <1>11. memory'[page] = Cleared /\ memory'[q] = [memory[q] EXCEPT ![i] = Entry(page, Flags)]
    BY <1>1, <1>2, <1>3, <1>4, <1>9
  <1>12. \A t \in Available \ {page, q} : memory'[t] = memory[t]
    BY <1>4, <1>9
  <1>13. QED
    BY <1>1, <1>2, <1>5, <1>10, <1>11, <1>12 DEF Grown, q, i

LEMMA StoreStores ==
    ASSUME Safe, NEW t \in L1(memory, kernel_pml4), NEW i \in Slots,
           NEW e \in [frame : Nat, flags : SUBSET Flags],
           memory' = [memory EXCEPT ![t][i] = e]
    PROVE  Stored(Available, memory, memory', kernel_pml4, t, i, e)
  <1>1. memory \in [Available -> Table] /\ t \in Available
    BY TreeLevels DEF Safe, IsTree
  <1>2. [memory[t] EXCEPT ![i] = e] \in Table
    BY <1>1 DEF Table, Slots
  <1>3. memory' \in [Available -> Table]
    BY <1>1, <1>2
  <1>4. memory'[t] = [memory[t] EXCEPT ![i] = e] /\ \A u \in Available \ {t} : memory'[u] = memory[u]
    BY <1>1
  <1>5. QED
    BY <1>3, <1>4 DEF Stored

-----------------------------------------------------------------------------
\* Steps that leave the bitmap and the tables alone.
LEMMA SafeFramed ==
    ASSUME Safe, UNCHANGED <<pmmVars, kernel_pml4, memory>>,
           call' \in Calls \cup {NoCall}, addr' \in NotStarted .. KernelPages,
           addr' = NotStarted => kernel_pml4 = NULL, OnItsWay'
    PROVE  Safe'
  <1>1. Available' = Available /\ TypeOK'
    BY DEF Safe, TypeOK, pmmVars, Available, Calls
  <1>2. Accounted'
    BY <1>1 DEF Safe, Accounted, pmmVars, Bits
  <1>3. QED
    BY <1>1, <1>2 DEF Safe, pmmVars

LEMMA SafeInit ==
    ASSUME Safe, vmm_init
    PROVE  Safe'
  <1>1. /\ kernel_pml4 = NULL /\ call = NoCall /\ call' = NoCall /\ held' = held
        /\ TypeOK /\ Accounted
    BY DEF Safe, vmm_init, OnItsWay
  <1>2. ASSUME NEW page \in Searched, pmm_alloc_page(page), kernel_pml4' = page,
               memory' = [memory EXCEPT ![page] = Cleared], addr' = 0
        PROVE  Safe'
    <2>1. /\ page \in Available /\ page \notin held
          /\ memory_bitmap' = memory_bitmap \cup {page} /\ used_blocks' = used_blocks + 1
          /\ total_memory' = total_memory /\ Available' = Available /\ page \in Bits
      BY <1>1, <1>2, FreshPage
    <2>2. /\ memory \in [Available -> Table] /\ Available \subseteq Nat \ {0}
      BY <1>1, AvailablePages DEF TypeOK
    <2>3. IsTree(Available, memory', page) /\ TablesIn(memory', page) = {page}
      <3>1. Cleared \in Table
        BY DEF Cleared, Table, Zero
      <3>2. memory'[page] = Cleared /\ memory' \in [Available -> Table]
        BY <1>2, <2>1, <2>2, <3>1
      <3>3. Rooted(Available, memory', page)
        BY <2>1, <2>2, <3>2 DEF Rooted
      <3>4. QED
        BY <3>3, RootTree
    <2>4. TablesIn(memory, kernel_pml4) = {}
      BY <1>1 DEF TablesIn, AboveIn, L1, L2, L3, L4, BelowIn
    <2>5. TypeOK'
      BY <1>1, <1>2, <2>1, <2>3, PmmAssumption DEF TypeOK, IsTree, NotStarted
    <2>6. Accounted'
      BY <1>1, <1>2, <2>1, <2>3, <2>4 DEF Accounted, Bits
    <2>7. Cardinality(held') <= used_blocks'
      <3>1. IsFiniteSet(held)
        BY <1>1, AvailablePages, FS_Subset DEF TypeOK
      <3>2. Cardinality(held) \in Nat /\ used_blocks \in Nat /\ Cardinality(held) <= used_blocks
        BY <1>1, <3>1, FS_CardinalityType DEF TypeOK, Safe
      <3>3. QED
        BY <1>1, <2>1, <3>2
    <2>8. QED
      BY <1>1, <1>2, <2>1, <2>3, <2>5, <2>6, <2>7 DEF Safe, OnItsWay, NotStarted
  <1>3. ASSUME addr' = KernelPages,
               UNCHANGED <<total_memory, memory_bitmap, used_blocks, kernel_pml4, memory>>
        PROVE  Safe'
    <2>1. OnItsWay' /\ addr' \in NotStarted .. KernelPages
      BY <1>1, <1>3, PmmAssumption DEF OnItsWay, NotStarted
    <2>2. QED
      BY <1>1, <1>3, <2>1, SafeFramed DEF pmmVars
  <1>4. QED
    BY <1>2, <1>3 DEF vmm_init

LEMMA EntryTypes == Entries \subseteq [frame : Nat, flags : SUBSET Flags]
  <1> SUFFICES ASSUME NEW frame \in Targets \cup 0 .. KernelPages - 1, NEW flags \in FlagSets \cup {Flags}
               PROVE  Entry(frame, flags) \in [frame : Nat, flags : SUBSET Flags]
    BY DEF Entries
  <1>1. frame \in Nat /\ flags \in SUBSET Flags
    BY VmmAssumption DEF Flags
  <1>2. QED
    BY <1>1 DEF Entry

LEMMA CallMoves ==
    ASSUME call \in Calls, NEW level \in 1 .. 4, NEW t \in Available,
           call' = [call EXCEPT !.level = level, !.table = t]
    PROVE  /\ call'.level = level /\ call'.table = t
           /\ call'.virt = call.virt /\ call'.entry = call.entry
           /\ call' \in Calls
  BY DEF Calls, TOP

LEMMA SafeStart ==
    ASSUME Safe, NEW virt \in Pages, NEW entry \in Entries, Start(virt, entry),
           addr' \in NotStarted .. KernelPages, addr' # NotStarted
    PROVE  Safe'
  <1>1. kernel_pml4 \in Available /\ kernel_pml4 # NULL
    BY DEF Safe, TypeOK, Start
  <1>2. virt \in Nat /\ entry \in [frame : Nat, flags : SUBSET Flags]
    BY EntryTypes, VmmAssumption DEF Pages
  <1>3. call' = [level |-> 4, table |-> kernel_pml4, virt |-> virt, entry |-> entry]
    BY DEF Start, TOP
  <1>4. call' \in Calls
    BY <1>1, <1>2, <1>3 DEF Calls, TOP
  <1>5. TableAt(memory, kernel_pml4, virt, 4) = kernel_pml4
    BY DEF TableAt
  <1>6. OnItsWay'
    BY <1>1, <1>3, <1>5 DEF OnItsWay, Start
  <1>7. QED
    BY <1>4, <1>6, SafeFramed DEF Start

LEMMA SafeGetTable ==
    ASSUME Safe, GetTable
    PROVE  Safe'
  <1>1. call.level \in 2 .. 4 /\ call.level > 0
    BY WalkingLevel DEF GetTable
  <1>2. /\ call \in Calls /\ call.table = TableAt(memory, kernel_pml4, call.virt, call.level)
        /\ call.table # NULL /\ kernel_pml4 # NULL /\ call # NoCall
        /\ call.virt \in Pages /\ call.entry \in Entries /\ Index(call.virt, call.level) \in Slots
        /\ call.table \in AboveIn(memory, kernel_pml4)
    BY <1>1, RunningCall, TableOfLevel
  <1>3. call' = [call EXCEPT !.level = call.level - 1, !.table = Slot.frame]
        /\ UNCHANGED <<pmmVars, kernel_pml4, memory, addr>> /\ Present(Slot)
    BY DEF GetTable
  <1>4. Slot.frame = TableAt(memory, kernel_pml4, call.virt, call.level - 1)
    <2>1. Slot.frame = DownIn(memory, call.table, call.virt, call.level)
      BY <1>2, <1>3 DEF DownIn, Slot, EntryAt
    <2>2. QED
      BY <1>1, <1>2, <2>1, NextTable
  <1>5. Slot.frame \in Available
    <2>1. IsEntry(Available, Slot)
      BY <1>2 DEF Safe, IsTree, Slot, EntryAt
    <2>2. QED
      BY <1>3, <2>1 DEF IsEntry, Present, Zero
  <1>6. /\ call'.level = call.level - 1 /\ call'.table = Slot.frame
        /\ call'.virt = call.virt /\ call'.entry = call.entry
        /\ call' \in Calls
    <2>1. call.level - 1 \in 1 .. 4
      BY <1>1
    <2>2. QED
      BY <1>2, <1>3, <1>5, <2>1, CallMoves
  <1>7. OnItsWay'
    BY <1>2, <1>3, <1>4, <1>6 DEF OnItsWay
  <1>8. QED
    BY <1>3, <1>6, <1>7, SafeFramed DEF Safe, TypeOK

LEMMA SafeCreateTable ==
    ASSUME Safe, CreateTable
    PROVE  Safe'
  <1> DEFINE v == call.virt
             l == call.level
             r == kernel_pml4
             q == call.table
             i == Index(call.virt, call.level)
  <1>1. PICK page \in Searched :
            /\ pmm_alloc_page(page)
            /\ memory' = [memory EXCEPT ![page] = Cleared, ![q][i] = Entry(page, Flags)]
            /\ call' = [call EXCEPT !.level = call.level - 1, !.table = page]
    BY DEF CreateTable
  <1>2. l \in 2 .. 4 /\ l > 0
    BY WalkingLevel DEF CreateTable
  <1>3. Walking /\ ~ Present(Slot) /\ held' = held /\ kernel_pml4' = kernel_pml4 /\ addr' = addr
    BY DEF CreateTable
  <1>4. Grown(Available, memory, memory', r, page, q, i)
    BY <1>1, <1>3, CreateGrows
  <1>5. /\ page \in Available /\ page \notin held \cup TablesIn(memory, r)
        /\ memory_bitmap' = memory_bitmap \cup {page} /\ used_blocks' = used_blocks + 1
        /\ total_memory' = total_memory /\ Available' = Available /\ page \in Bits
    BY <1>1, FreshPage DEF Safe
  <1>6. IsTree(Available, memory, r)
    BY DEF Safe
  <1>7. IsTree(Available, memory', r) /\ TablesIn(memory', r) = TablesIn(memory, r) \cup {page}
    BY <1>4, <1>6, GrownTree, GrownLevels
  <1>8. /\ call \in Calls /\ r # NULL /\ v \in Pages /\ v \in Nat /\ call.entry \in Entries
        /\ call # NoCall
    BY <1>2, RunningCall
  <1>9. /\ call'.level = l - 1 /\ call'.table = page
        /\ call'.virt = v /\ call'.entry = call.entry /\ call' \in Calls
    <2>1. l - 1 \in 1 .. 4 /\ call' = [call EXCEPT !.level = l - 1, !.table = page]
      BY <1>1, <1>2
    <2>2. call \in Calls /\ page \in Available /\ Available' = Available
      BY <1>5, <1>8
    <2>3. QED
      BY <2>1, <2>2, CallMoves
  <1>10. TypeOK'
    BY <1>3, <1>5, <1>7, <1>9 DEF Safe, TypeOK, IsTree, Calls
  <1>11. Accounted'
    BY <1>3, <1>5, <1>7 DEF Safe, Accounted, Bits
  <1>12. Cardinality(held') <= used_blocks'
    <2>1. IsFiniteSet(held)
      BY AvailablePages, FS_Subset DEF Safe, TypeOK
    <2>2. Cardinality(held) \in Nat /\ used_blocks \in Nat /\ Cardinality(held) <= used_blocks
      BY <2>1, FS_CardinalityType DEF TypeOK, Safe
    <2>3. QED
      BY <1>3, <1>5, <2>2
  <1>13. TableAt(memory', r, v, l - 1) = page
    <2>1. q # NULL /\ L4(r) \cap (L3(memory, r) \cup L2(memory, r)) = {}
          /\ L3(memory, r) \cap L2(memory, r) = {}
      BY <1>2, <1>6, RunningCall, TreeLevels
    <2>2. CASE l = 4
      <3>1. q = r
        BY <1>2, <2>2, TableOfLevel
      <3>2. At3(memory', r, v) = page
        BY <1>4, <1>6, <1>8, <2>2, <3>1, GrownWalk
      <3>3. QED
        BY <2>2, <3>2 DEF TableAt
    <2>3. CASE l = 3
      <3>1. q = At3(memory, r, v) /\ q \in L3(memory, r)
        BY <1>2, <2>3, TableOfLevel
      <3>2. q # r
        BY <1>8, <2>1, <3>1 DEF L4
      <3>3. At2(memory', r, v) = page
        BY <1>4, <1>6, <1>8, <2>3, <3>1, <3>2, GrownWalk
      <3>4. QED
        BY <2>3, <3>3 DEF TableAt
    <2>4. CASE l = 2
      <3>1. q = At2(memory, r, v) /\ q \in L2(memory, r)
        BY <1>2, <2>4, TableOfLevel
      <3>2. q # r /\ q \notin L3(memory, r)
        BY <1>8, <2>1, <3>1 DEF L4
      <3>3. At1(memory', r, v) = page
        BY <1>4, <1>6, <1>8, <2>4, <3>1, <3>2, GrownWalk
      <3>4. QED
        BY <2>4, <3>3 DEF TableAt
    <2>5. QED
      BY <1>2, <2>2, <2>3, <2>4
  <1>14. OnItsWay'
    BY <1>3, <1>8, <1>9, <1>13 DEF OnItsWay
  <1>15. QED
    BY <1>3, <1>5, <1>7, <1>10, <1>11, <1>12, <1>14 DEF Safe

\* An entry stored in a page table.
LEMMA SafeStored ==
    ASSUME Safe, NEW t \in L1(memory, kernel_pml4), NEW i \in Slots,
           NEW e \in [frame : Nat, flags : SUBSET Flags],
           memory' = [memory EXCEPT ![t][i] = e],
           UNCHANGED <<pmmVars, kernel_pml4, addr>>, call' = NoCall
    PROVE  Safe'
  <1>1. Stored(Available, memory, memory', kernel_pml4, t, i, e)
    BY StoreStores
  <1>2. IsTree(Available, memory, kernel_pml4) /\ Available' = Available
    BY DEF Safe, Available, pmmVars
  <1>3. /\ IsTree(Available, memory', kernel_pml4)
        /\ TablesIn(memory', kernel_pml4) = TablesIn(memory, kernel_pml4)
    BY <1>1, <1>2, StoredTree
  <1>4. TypeOK'
    BY <1>2, <1>3 DEF Safe, TypeOK, pmmVars, IsTree
  <1>5. Accounted'
    BY <1>2, <1>3 DEF Safe, Accounted, pmmVars, Bits
  <1>6. QED
    BY <1>2, <1>3, <1>4, <1>5 DEF Safe, OnItsWay, pmmVars

LEMMA SafeStoreEntry ==
    ASSUME Safe, StoreEntry
    PROVE  Safe'
  <1>1. call.level = 1 /\ call.level > 0
    BY DEF StoreEntry
  <1>2. /\ call.table \in L1(memory, kernel_pml4) /\ Index(call.virt, 1) \in Slots
        /\ call.entry \in [frame : Nat, flags : SUBSET Flags]
    BY <1>1, RunningCall, TableOfLevel
  <1>3. QED
    BY <1>2, SafeStored DEF StoreEntry

LEMMA SafeUnmap ==
    ASSUME Safe, NEW virt \in Virtuals, vmm_unmap_page(virt)
    PROVE  Safe'
  <1>1. virt \in Nat /\ PageTable(virt) # NULL
    BY VmmAssumption DEF vmm_unmap_page
  <1>2. PageTable(virt) \in L1(memory, kernel_pml4)
    BY <1>1, Named, WalkLevels DEF Safe
  <1>3. Index(virt, 1) \in Slots
    BY <1>1, IndexInTable
  <1>4. Zero \in [frame : Nat, flags : SUBSET Flags]
    BY DEF Zero
  <1>5. call' = NoCall
    BY DEF vmm_unmap_page, Idle
  <1>6. QED
    BY <1>2, <1>3, <1>4, <1>5, SafeStored DEF vmm_unmap_page

LEMMA SafeClientPages ==
    ASSUME Safe, ClientPages
    PROVE  Safe'
  <1>1. /\ UNCHANGED vmmVars /\ TypeOK /\ Accounted /\ call = NoCall
        /\ held \subseteq Available /\ used_blocks \in Nat /\ Cardinality(held) <= used_blocks
    BY DEF ClientPages, Safe, TypeOK, Idle
  <1>2. IsFiniteSet(held) /\ Cardinality(held) \in Nat
    BY <1>1, AvailablePages, FS_Subset, FS_CardinalityType
  <1>3. ASSUME NEW page \in Int, NEW count \in Counts
        PROVE  /\ Run(page, count) = page .. page + count - 1
               /\ IsFiniteSet(Run(page, count)) /\ Cardinality(Run(page, count)) = count
               /\ count \in Nat \ {0}
    <2>1. count \in Nat \ {0} /\ page + count - 1 \in Int
      BY VmmAssumption
    <2>2. /\ IsFiniteSet(page .. page + count - 1)
          /\ Cardinality(page .. page + count - 1) = (page + count - 1) - page + 1
      BY <2>1, FS_Interval
    <2>3. QED
      BY <2>1, <2>2 DEF Run
  <1>4. ASSUME /\ memory_bitmap' \subseteq Bits /\ used_blocks' \in Nat /\ total_memory' = total_memory
               /\ held' \subseteq Available /\ Cardinality(held') <= used_blocks'
               /\ Accounted'
        PROVE  Safe'
    <2>1. Available' = Available /\ kernel_pml4' = kernel_pml4 /\ memory' = memory
      BY <1>1, <1>4 DEF Available, vmmVars
    <2>2. TypeOK'
      BY <1>1, <1>4, <2>1 DEF TypeOK, vmmVars, Bits, Calls
    <2>3. QED
      BY <1>1, <1>4, <2>1, <2>2 DEF Safe, OnItsWay, vmmVars
  <1>5. ASSUME NEW count \in Counts, pmm_alloc_pages(count)
        PROVE  Safe'
    <2>1. PICK page \in Searched : /\ find_free_pages(page, count)
                                   /\ Take(page, count)
                                   /\ held' = held \cup Run(page, count)
      BY <1>5 DEF pmm_alloc_pages
    <2>2. IsFree(page, count) /\ page \in Int
      BY <2>1 DEF find_free_pages, Searched
    <2>3. IsFiniteSet(Run(page, count)) /\ Cardinality(Run(page, count)) = count /\ count \in Nat \ {0}
      BY <1>3, <2>2
    <2>4. /\ Run(page, count) \subseteq Available
          /\ Run(page, count) \cap (held \cup TablesIn(memory, kernel_pml4)) = {}
      BY <1>1, <2>1, <2>2, <2>3, FreePages
    <2>5. /\ memory_bitmap' = memory_bitmap \cup Run(page, count)
          /\ used_blocks' = used_blocks + count /\ total_memory' = total_memory
      BY <2>1 DEF Take
    <2>6. Cardinality(held') <= used_blocks'
      <3>1. Cardinality(held') = Cardinality(held) + count - Cardinality(held \cap Run(page, count))
        BY <1>2, <2>1, <2>3, FS_Union
      <3>2. Cardinality(held \cap Run(page, count)) = 0
        <4>1. held \cap Run(page, count) = {}
          BY <2>4
        <4>2. QED
          BY <4>1, FS_EmptySet
      <3>3. Cardinality(held') = Cardinality(held) + count
        BY <1>2, <2>3, <3>1, <3>2
      <3>4. QED
        BY <1>1, <1>2, <2>3, <2>5, <3>3
    <2>7. Accounted'
      BY <1>1, <2>1, <2>4, <2>5 DEF Accounted, Bits, Available, vmmVars
    <2>8. memory_bitmap' \subseteq Bits
      BY <1>1, <2>4, <2>5, AvailablePages DEF TypeOK
    <2>9. QED
      BY <1>1, <1>4, <2>1, <2>3, <2>4, <2>5, <2>6, <2>7, <2>8
  <1>6. ASSUME NEW count \in Counts, NEW page \in held, pmm_free_pages(page, count)
        PROVE  Safe'
    <2>1. /\ Run(page, count) \subseteq held
          /\ memory_bitmap' = memory_bitmap \ Run(page, count)
          /\ used_blocks' = used_blocks - count
          /\ held' = held \ Run(page, count) /\ total_memory' = total_memory
      BY <1>6 DEF pmm_free_pages
    <2>2. page \in Int
      BY <1>1, AvailablePages
    <2>3. IsFiniteSet(Run(page, count)) /\ Cardinality(Run(page, count)) = count /\ count \in Nat \ {0}
      BY <1>3, <2>2
    <2>4. Cardinality(held') = Cardinality(held) - count
      <3>1. held \cap Run(page, count) = Run(page, count)
        BY <2>1
      <3>2. Cardinality(held \ Run(page, count))
              = Cardinality(held) - Cardinality(held \cap Run(page, count))
        BY <1>2, FS_Difference
      <3>3. QED
        BY <2>1, <2>3, <3>1, <3>2
    <2>5. IsFiniteSet(held') /\ Cardinality(held') \in Nat
      BY <1>2, <2>1, FS_Difference, FS_CardinalityType
    <2>6. used_blocks' \in Nat /\ Cardinality(held') <= used_blocks'
      BY <1>1, <1>2, <2>1, <2>3, <2>4, <2>5
    <2>7. Accounted'
      BY <1>1, <2>1 DEF Accounted, Bits, Available, vmmVars
    <2>8. memory_bitmap' \subseteq Bits
      BY <1>1, <2>1 DEF TypeOK
    <2>9. QED
      BY <1>1, <1>4, <2>1, <2>6, <2>7, <2>8
  <1>7. QED
    BY <1>5, <1>6 DEF ClientPages

LEMMA SafeNext == Safe /\ [Next]_vars => Safe'
  <1> SUFFICES ASSUME Safe, [Next]_vars PROVE Safe'
    OBVIOUS
  <1>1. CASE vmm_init
    BY <1>1, SafeInit
  <1>2. CASE MapIdentity
    <2>1. addr \in 0 .. KernelPages - 1 /\ addr' = addr + 1 /\ Start(addr, Entry(addr, Flags))
      <3>1. addr \in NotStarted .. KernelPages /\ KernelPages \in Nat
        BY PmmAssumption DEF Safe, TypeOK
      <3>2. 0 <= addr /\ addr < KernelPages /\ addr' = addr + 1 /\ Start(addr, Entry(addr, Flags))
        BY <1>2 DEF MapIdentity
      <3>3. QED
        BY <3>1, <3>2 DEF NotStarted
    <2>2. addr \in Pages /\ Entry(addr, Flags) \in Entries
      BY <2>1 DEF Pages, Entries
    <2>3. addr' \in NotStarted .. KernelPages /\ addr' # NotStarted
      BY <2>1, PmmAssumption DEF NotStarted
    <2>4. QED
      BY <2>1, <2>2, <2>3, SafeStart
  <1>3. CASE vmm_map_page
    <2>1. PICK virt \in Virtuals, frame \in Targets, flags \in FlagSets :
              Start(virt, Entry(frame, flags))
      BY <1>3 DEF vmm_map_page
    <2>2. virt \in Pages /\ Entry(frame, flags) \in Entries
      BY DEF Pages, Entries
    <2>3. addr' \in NotStarted .. KernelPages /\ addr' # NotStarted
      BY <1>3, PmmAssumption DEF vmm_map_page, Booted, NotStarted
    <2>4. QED
      BY <2>1, <2>2, <2>3, SafeStart
  <1>4. CASE GetTable
    BY <1>4, SafeGetTable
  <1>5. CASE CreateTable
    BY <1>5, SafeCreateTable
  <1>6. CASE NoTable
    <2>1. OnItsWay' /\ addr' \in NotStarted .. KernelPages /\ (addr' = NotStarted => kernel_pml4 = NULL)
      BY <1>6 DEF NoTable, OnItsWay, Safe, TypeOK
    <2>2. QED
      BY <1>6, <2>1, SafeFramed DEF NoTable
  <1>7. CASE StoreEntry
    BY <1>7, SafeStoreEntry
  <1>8. CASE \E virt \in Virtuals : vmm_unmap_page(virt)
    BY <1>8, SafeUnmap
  <1>9. CASE ClientPages
    BY <1>9, SafeClientPages
  <1>10. CASE UNCHANGED vars
    <2>1. OnItsWay' /\ UNCHANGED <<pmmVars, kernel_pml4, memory, addr, call>>
      BY <1>10 DEF vars, vmmVars, OnItsWay, Safe
    <2>2. QED
      BY <2>1, SafeFramed DEF Safe, TypeOK
  <1>11. QED
    BY <1>1, <1>2, <1>3, <1>4, <1>5, <1>6, <1>7, <1>8, <1>9, <1>10 DEF Next

LEMMA AlwaysSafe == Spec => []Safe
  <1>1. QED
    BY InitSafe, SafeNext, PTL DEF Spec

-----------------------------------------------------------------------------
\* Every page of memory has one use (vmm.c, pmm.c): what a client holds is no
\* page table, and the bits say so.
THEOREM PagesAlwaysAccounted == Spec => []PagesAccounted
  <1>1. Safe => PagesAccounted
    BY Named DEF Safe, Accounted, PagesAccounted
  <1>2. QED
    BY <1>1, AlwaysSafe, PTL

\* No table is reached on two ways, whatever maps failed half-way (vmm.c).
THEOREM TablesNeverShared == Spec => []NoSharedTable
  <1>1. Safe => NoSharedTable
    <2> SUFFICES ASSUME Safe PROVE NoSharedTable
      OBVIOUS
    <2>1. PML4s \cup PDPTs \cup PDs = AboveIn(memory, kernel_pml4)
      BY Named DEF AboveIn
    <2>2. IsTree(Available, memory, kernel_pml4)
      BY DEF Safe
    <2>3. kernel_pml4 \notin PDPTs \cup PDs \cup PTs
      BY <2>2, Named DEF IsTree
    <2>4. ASSUME NEW t \in AboveIn(memory, kernel_pml4), NEW u \in AboveIn(memory, kernel_pml4),
                 NEW i \in Slots, NEW j \in Slots,
                 Present(memory[t][i]), memory[u][j] = memory[t][i]
          PROVE  t = u /\ i = j
      <3>1. IsEntry(Available, memory[t][i])
        BY <2>2 DEF IsTree
      <3>2. memory[t][i].frame # 0
        BY <2>4, <3>1, AvailablePages DEF IsEntry, Present, Zero
      <3>3. QED
        BY <2>2, <2>4, <3>2, OneWay
    <2>5. QED
      BY <2>1, <2>3, <2>4 DEF NoSharedTable, Slots
  <1>2. QED
    BY <1>1, AlwaysSafe, PTL

-----------------------------------------------------------------------------
\* What each step does to the translations: only an entry stored in a page table
\* changes one, that of the page it is stored for.
LEMMA StoredTranslates ==
    ASSUME Safe, NEW w \in Pages, At1(memory, kernel_pml4, w) # NULL,
           NEW e \in [frame : Nat, flags : SUBSET Flags],
           memory' = [memory EXCEPT ![At1(memory, kernel_pml4, w)][Index(w, 1)] = e],
           kernel_pml4' = kernel_pml4, NEW v \in Pages
    PROVE  TranslationIn(memory', kernel_pml4', v) =
              IF v = w THEN e ELSE TranslationIn(memory, kernel_pml4, v)
  <1> DEFINE t == At1(memory, kernel_pml4, w)
  <1>1. v \in Nat /\ w \in Nat
    BY VmmAssumption DEF Pages
  <1>2. IsTree(Available, memory, kernel_pml4)
    BY DEF Safe
  <1>3. t \in L1(memory, kernel_pml4) /\ Index(w, 1) \in Slots
    BY <1>1, <1>2, WalkLevels, IndexInTable
  <1>4. Stored(Available, memory, memory', kernel_pml4, t, Index(w, 1), e)
    BY <1>3, StoreStores
  <1>5. TranslationIn(memory', kernel_pml4, v) =
            IF At1(memory, kernel_pml4, v) = t /\ Index(v, 1) = Index(w, 1)
            THEN e ELSE TranslationIn(memory, kernel_pml4, v)
    BY <1>1, <1>2, <1>4, StoredWalk
  <1>6. At1(memory, kernel_pml4, v) = t /\ Index(v, 1) = Index(w, 1) => v = w
    BY <1>2, OwnEntry
  <1>7. QED
    BY <1>5, <1>6

LEMMA StoreTranslates ==
    ASSUME Safe, StoreEntry
    PROVE  /\ call.virt \in Pages /\ call.entry \in Entries /\ call # NoCall
           /\ \A v \in Pages : TranslationIn(memory', kernel_pml4', v) =
                 IF v = call.virt THEN call.entry ELSE TranslationIn(memory, kernel_pml4, v)
  <1>1. /\ call.level = 1 /\ call.level > 0 /\ kernel_pml4' = kernel_pml4
        /\ memory' = [memory EXCEPT ![call.table][Index(call.virt, 1)] = call.entry]
    BY DEF StoreEntry
  <1>2. /\ call.virt \in Pages /\ call.entry \in Entries /\ call # NoCall
        /\ call.entry \in [frame : Nat, flags : SUBSET Flags]
        /\ call.table # NULL /\ call.table = At1(memory, kernel_pml4, call.virt)
    BY <1>1, RunningCall, TableOfLevel
  <1>3. QED
    BY <1>1, <1>2, StoredTranslates

LEMMA UnmapTranslates ==
    ASSUME Safe, NEW virt \in Virtuals, vmm_unmap_page(virt), NEW v \in Pages
    PROVE  TranslationIn(memory', kernel_pml4', v) =
              IF v = virt THEN Zero ELSE TranslationIn(memory, kernel_pml4, v)
  <1>1. /\ At1(memory, kernel_pml4, virt) # NULL /\ kernel_pml4' = kernel_pml4
        /\ memory' = [memory EXCEPT ![At1(memory, kernel_pml4, virt)][Index(virt, 1)] = Zero]
    BY Named DEF vmm_unmap_page
  <1>2. Zero \in [frame : Nat, flags : SUBSET Flags] /\ virt \in Pages
    BY DEF Zero, Pages
  <1>3. QED
    BY <1>1, <1>2, StoredTranslates

LEMMA CreateTranslates ==
    ASSUME Safe, CreateTable, NEW v \in Nat
    PROVE  TranslationIn(memory', kernel_pml4', v) = TranslationIn(memory, kernel_pml4, v)
  <1>1. PICK page \in Searched :
            Grown(Available, memory, memory', kernel_pml4, page, call.table,
                  Index(call.virt, call.level))
    BY CreateGrows DEF CreateTable
  <1>2. IsTree(Available, memory, kernel_pml4) /\ kernel_pml4' = kernel_pml4
    BY DEF Safe, CreateTable
  <1>3. QED
    BY <1>1, <1>2, GrownWalk

LEMMA NoTop == \A m, v : TranslationIn(m, NULL, v) = Zero
  BY DEF TranslationIn, At1, At2, At3, DownIn

LEMMA InitTranslates ==
    ASSUME Safe, vmm_init, NEW v \in Nat
    PROVE  TranslationIn(memory', kernel_pml4', v) = TranslationIn(memory, kernel_pml4, v)
  <1>1. kernel_pml4 = NULL
    BY DEF Safe, vmm_init
  <1>2. CASE UNCHANGED <<kernel_pml4, memory>>
    BY <1>2
  <1>3. ASSUME NEW page \in Searched, pmm_alloc_page(page), kernel_pml4' = page,
               memory' = [memory EXCEPT ![page] = Cleared]
        PROVE  TranslationIn(memory', kernel_pml4', v) = Zero
    <2>1. page \in Available
      BY <1>3, FreshPage DEF Safe
    <2>2. Rooted(Available, memory', page)
      <3>1. Cleared \in Table
        BY DEF Cleared, Table, Zero
      <3>2. memory \in [Available -> Table] /\ Available \subseteq Nat \ {0}
        BY AvailablePages DEF Safe, TypeOK
      <3>3. memory'[page] = Cleared /\ memory' \in [Available -> Table]
        BY <1>3, <2>1, <3>1, <3>2
      <3>4. QED
        BY <2>1, <3>2, <3>3 DEF Rooted
    <2>3. QED
      BY <1>3, <2>2, RootTree
  <1>4. QED
    BY <1>1, <1>2, <1>3, NoTop DEF vmm_init

LEMMA OthersTranslate ==
    ASSUME MapIdentity \/ vmm_map_page \/ GetTable \/ NoTable \/ ClientPages \/ UNCHANGED vars
    PROVE  UNCHANGED <<kernel_pml4, memory>>
  BY DEF MapIdentity, vmm_map_page, Start, GetTable, NoTable, ClientPages, vars, vmmVars

-----------------------------------------------------------------------------
\* The tables keep the promise of an address space (AddressMap): a call of
\* vmm_map_page changes one page's translation, when it stores its entry, and
\* vmm_unmap_page that of the page it is asked for; making the tables for one page,
\* and failing half-way, changes no other's (vmm.c).
THEOREM ImplementsAddressMap == Spec => RefinesAddressMap
  <1> DEFINE T(v) == TranslationIn(memory, kernel_pml4, v)
             F == [v \in Pages |-> T(v)]
             map == [v \in (0 .. KernelPages - 1) \cup Virtuals |-> Translation(v)]
  <1>1. map = F /\ map' = F'
    <2>1. \A v : Translation(v) = T(v) /\ Translation(v)' = T(v)'
      BY DEF Translation, TranslationIn, PageTable, At1, At2, At3, Down, DownIn, EntryAt
    <2>2. QED
      BY <2>1 DEF Pages
  <1>2. Init => M!Init
    <2> SUFFICES ASSUME Init PROVE M!Init
      OBVIOUS
    <2>1. \A v \in Pages : Translation(v) = Zero
      BY Named, NoTop DEF Init
    <2>2. QED
      BY <2>1 DEF M!Init, Pages
  <1>3. Safe /\ [Next]_vars => [M!Next]_map
    <2> SUFFICES ASSUME Safe, [Next]_vars
                 PROVE  F' = F \/ \E v \in Pages : \/ F' = [F EXCEPT ![v] = Zero]
                                                   \/ \E e \in Entries : F' = [F EXCEPT ![v] = e]
      <3>1. /\ M!Next <=> \E v \in Pages : M!Unmap(v) \/ \E e \in Entries : M!Map(v, e)
            /\ \A v : M!Unmap(v) <=> map' = [map EXCEPT ![v] = Zero]
            /\ \A v, e : M!Map(v, e) <=> map' = [map EXCEPT ![v] = e]
        BY DEF M!Next, M!Unmap, M!Map, Pages, Entries
      <3> HIDE DEF map, F
      <3>2. QED
        BY <1>1, <3>1
    <2> HIDE DEF T
    <2>1. F = [v \in Pages |-> T(v)] /\ F' = [v \in Pages |-> T(v)']
      OBVIOUS
    <2>2. \A v \in Pages : v \in Nat
      BY VmmAssumption DEF Pages
    <2>3. CASE \A v \in Pages : T(v)' = T(v)
      BY <2>1, <2>3
    <2>4. ASSUME NEW w \in Pages, NEW e, \A v \in Pages : T(v)' = IF v = w THEN e ELSE T(v)
          PROVE  F' = [F EXCEPT ![w] = e]
      BY <2>1, <2>4
    <2>5. CASE StoreEntry
      BY <2>4, <2>5, StoreTranslates DEF T
    <2>6. ASSUME NEW virt \in Virtuals, vmm_unmap_page(virt)
          PROVE  virt \in Pages /\ F' = [F EXCEPT ![virt] = Zero]
      <3>1. virt \in Pages
        BY DEF Pages
      <3>2. \A v \in Pages : T(v)' = IF v = virt THEN Zero ELSE T(v)
        BY <2>6, UnmapTranslates DEF T
      <3>3. QED
        BY <2>4, <3>1, <3>2
    <2>7. CASE CreateTable
      BY <2>2, <2>3, <2>7, CreateTranslates DEF T
    <2>8. CASE vmm_init
      BY <2>2, <2>3, <2>8, InitTranslates DEF T
    <2>9. CASE MapIdentity \/ vmm_map_page \/ GetTable \/ NoTable \/ ClientPages \/ UNCHANGED vars
      <3>1. UNCHANGED <<kernel_pml4, memory>>
        BY <2>9, OthersTranslate
      <3>2. QED
        BY <2>3, <3>1 DEF T
    <2>10. QED
      BY <2>5, <2>6, <2>7, <2>8, <2>9 DEF Next
  <1>4. QED
    BY <1>2, <1>3, AlwaysSafe, PTL DEF Spec, RefinesAddressMap, M!Spec

-----------------------------------------------------------------------------
\* The invariant behind IdentityMapped.  Until vmm_init is done no client holds a
\* page, and the tables are the ones that map the kernel's pages: entry 0 of the
\* top and of the next table, and the entries of one PD.  They fit into the first
\* word of the bitmap behind the kernel's pages, so no map fails.
BootPages == KernelPages .. KernelPages + WordBits - 1
LastPD == (KernelPages - 1) \div Fanout
Booting == kernel_pml4 # NULL /\ (addr < KernelPages \/ (call # NoCall /\ call.virt \notin Virtuals))
OnlyKernel ==
    /\ held = {}
    /\ call # NoCall => call.virt \in 0 .. KernelPages - 1
    /\ \A t \in L4(kernel_pml4) \cup L3(memory, kernel_pml4), i \in Slots \ {0} : memory[t][i] = Zero
    /\ \A t \in L2(memory, kernel_pml4), i \in Slots : i > LastPD => memory[t][i] = Zero
Identity(page) == Entry(page, Flags)
Mapped ==
    /\ addr = NotStarted => held = {}
    /\ kernel_pml4 # NULL => BootPages \subseteq Searched /\ BootPages \subseteq Available
    /\ call # NoCall /\ call.virt \notin Virtuals => call.entry = Identity(call.virt)
    /\ kernel_pml4 # NULL => addr >= 0 /\
          \A page \in (0 .. KernelPages - 1) \ Virtuals :
              \/ page >= addr
              \/ call # NoCall /\ call.virt = page
              \/ TranslationIn(memory, kernel_pml4, page) = Identity(page)
    /\ Booting => OnlyKernel


\* The indices of the kernel's pages: one PD reaches them all.
LEMMA KernelIndices ==
    ASSUME NEW page \in 0 .. KernelPages - 1
    PROVE  /\ Index(page, 4) = 0 /\ Index(page, 3) = 0 /\ Index(page, 2) <= LastPD
           /\ LastPD \in Nat /\ page \in Nat
  <1>1. Fanout \in Nat \ {0} /\ Fanout * Fanout \in Nat \ {0}
    BY VmmAssumption
  <1>2. Fanout * Fanout * Fanout \in Nat \ {0} /\ Fanout * Fanout <= Fanout * Fanout * Fanout
    <2> DEFINE G == Fanout * Fanout
    <2>1. G * Fanout \in Nat \ {0} /\ G <= G * Fanout
      BY <1>1
    <2>2. QED
      BY <2>1
  <1>3. page \in Nat /\ page < Fanout * Fanout /\ KernelPages - 1 \in Nat
    BY BootAssumption, PmmAssumption, <1>1
  <1>4. page \div (Fanout * Fanout) = 0 /\ page \div (Fanout * Fanout * Fanout) = 0
    <2>1. ASSUME NEW d \in Nat \ {0}, page < d
          PROVE  page \div d = 0
      <3>1. page = d * 0 + page /\ page \in 0 .. d - 1
        BY <1>3, <2>1
      <3>2. QED
        BY <1>3, <3>1, DivUnique
    <2>2. QED
      BY <1>1, <1>2, <1>3, <2>1
  <1>5. 0 % Fanout = 0
    BY <1>1
  <1>6. Index(page, 4) = 0 /\ Index(page, 3) = 0
    BY <1>4, <1>5 DEF Index, Shift
  <1>7. LastPD \in Nat /\ page \div Fanout \in Nat
    BY <1>1, <1>3, DivMod DEF LastPD
  <1>8. page \div Fanout <= LastPD
    <2> DEFINE q == (KernelPages - 1) \div Fanout
               s == (KernelPages - 1) % Fanout
    <2>1. q \in Nat /\ s \in 0 .. Fanout - 1 /\ KernelPages - 1 = Fanout * q + s
      BY <1>1, <1>3, DivMod
    <2> HIDE DEF q, s
    <2>2. page < Fanout * (q + 1)
      <3>1. Fanout * (q + 1) = Fanout * q + Fanout
        BY <1>1, <2>1
      <3>2. QED
        BY <1>1, <1>3, <2>1, <3>1
    <2>3. page \div Fanout < q + 1
      BY <1>1, <1>3, <2>1, <2>2, DivBound
    <2>4. QED
      BY <1>7, <2>1, <2>3 DEF q, LastPD
  <1>9. page \div Fanout < Fanout
    BY <1>1, <1>3, DivBound
  <1>10. Index(page, 2) = page \div Fanout
    <2>1. page \div Fanout = Fanout * 0 + (page \div Fanout) /\ page \div Fanout \in 0 .. Fanout - 1
      BY <1>1, <1>7, <1>9
    <2>2. (page \div Fanout) % Fanout = page \div Fanout
      BY <1>1, <1>7, <2>1, DivUnique
    <2>3. QED
      BY <2>2 DEF Index, Shift
  <1>11. QED
    BY <1>3, <1>6, <1>7, <1>8, <1>10

\* While the kernel's pages are mapped the tables are at most three and a page
\* table for each index up to LastPD, one less when a table is missing.
LEMMA FewTables ==
    ASSUME Safe, OnlyKernel, Walking, ~ Present(Slot)
    PROVE  /\ IsFiniteSet(TablesIn(memory, kernel_pml4))
           /\ Cardinality(TablesIn(memory, kernel_pml4)) <= 3 + LastPD
  <1> DEFINE m == memory
             r == kernel_pml4
             a == memory[kernel_pml4][0].frame
             b == memory[memory[kernel_pml4][0].frame][0].frame
             k == Index(call.virt, 2)
             rest == (0 .. LastPD) \ {k}
             f == [i \in rest |-> m[b][i].frame]
             leaves == {m[b][i].frame : i \in rest}
  <1>1. /\ call.level \in 2 .. 4 /\ call # NoCall /\ call.virt \in 0 .. KernelPages - 1
        /\ call.table \in AboveIn(m, r) /\ Index(call.virt, call.level) \in Slots /\ r # NULL
    BY WalkingLevel, RunningCall, TableOfLevel DEF OnlyKernel
  <1>2. IsTree(Available, m, r)
    BY DEF Safe
  <1>3. /\ Index(call.virt, 4) = 0 /\ Index(call.virt, 3) = 0 /\ k \in 0 .. LastPD
        /\ LastPD \in Nat
    <2>1. k <= LastPD /\ k \in Nat /\ LastPD \in Nat
      BY <1>1, KernelIndices, IndexInTable DEF Slots
    <2>2. QED
      BY <1>1, <2>1, KernelIndices
  <1>4. memory[call.table][Index(call.virt, call.level)] = Zero
    <2>1. IsEntry(Available, Slot)
      BY <1>1, <1>2 DEF IsTree, Slot, EntryAt
    <2>2. QED
      BY <2>1 DEF IsEntry, Present, Flags, Slot, EntryAt
  <1>5. L4(r) = {r} /\ L3(m, r) \subseteq {a} /\ L2(m, r) \subseteq {b}
    <2>1. L4(r) = {r}
      BY <1>1 DEF L4
    <2>2. L3(m, r) \subseteq {a}
      BY <2>1 DEF OnlyKernel, L3, BelowIn, Zero
    <2>3. L2(m, r) \subseteq {b}
      BY <2>2 DEF OnlyKernel, L2, BelowIn, Zero
    <2>4. QED
      BY <2>1, <2>2, <2>3
  <1>6. L1(m, r) \subseteq leaves
    <2> SUFFICES ASSUME NEW x \in L1(m, r) PROVE x \in leaves
      OBVIOUS
    <2>1. PICK t \in L2(m, r), i \in Slots : x = m[t][i].frame /\ x # 0
      BY DEF L1, BelowIn
    <2>2. t = b /\ i \in 0 .. LastPD
      BY <1>3, <1>5, <2>1 DEF OnlyKernel, Zero, Slots
    <2>3. PICK u \in L3(m, r), j \in Slots : t = m[u][j].frame /\ t # 0
      BY <2>1 DEF L2, BelowIn
    <2>4. u = a /\ j = 0
      BY <1>5, <2>3 DEF OnlyKernel, Zero
    <2>5. PICK n \in Slots : u = m[r][n].frame /\ u # 0
      BY <1>5, <2>3 DEF L3, BelowIn
    <2>6. n = 0
      BY <1>5, <2>5 DEF OnlyKernel, Zero
    <2>7. call.level = 2
      <3>1. call.level # 4
        BY <1>3, <1>4, <2>5, <2>6, TableOfLevel DEF Zero
      <3>2. call.level # 3
        <4>1. ASSUME call.level = 3 PROVE call.table = a
          BY <4>1, <1>5, TableOfLevel
        <4>2. QED
          BY <1>3, <1>4, <2>3, <2>4, <4>1 DEF Zero
      <3>3. QED
        BY <1>1, <3>1, <3>2
    <2>8. call.table = b
      BY <1>5, <2>7, TableOfLevel
    <2>9. i # k
      BY <1>4, <2>1, <2>2, <2>7, <2>8 DEF Zero
    <2>10. QED
      BY <2>1, <2>2, <2>9
  <1>7. IsFiniteSet(leaves) /\ Cardinality(leaves) <= LastPD /\ Cardinality(leaves) \in Nat
    <2>1. IsFiniteSet(0 .. LastPD) /\ Cardinality(0 .. LastPD) = LastPD + 1
      BY <1>3, FS_Interval
    <2>2. IsFiniteSet(rest) /\ Cardinality(rest) = LastPD
      <3>1. IsFiniteSet(rest) /\ Cardinality(rest) = Cardinality(0 .. LastPD) - 1
        BY <1>3, <2>1, FS_RemoveElement
      <3>2. QED
        BY <1>3, <2>1, <3>1
    <2>3. f \in Surjection(rest, leaves)
      BY DEF Surjection
    <2> HIDE DEF f, rest, leaves
    <2>4. IsFiniteSet(leaves) /\ Cardinality(leaves) <= Cardinality(rest)
      BY <2>2, <2>3, FS_Surjection
    <2>5. QED
      BY <2>2, <2>4, FS_CardinalityType
  <1> HIDE DEF a, b, leaves
  <1>8. TablesIn(m, r) \subseteq leaves \cup {r} \cup {a} \cup {b}
    BY <1>5, <1>6 DEF TablesIn, AboveIn
  <1>9. /\ IsFiniteSet(leaves \cup {r} \cup {a} \cup {b})
        /\ Cardinality(leaves \cup {r} \cup {a} \cup {b}) <= LastPD + 3
        /\ Cardinality(leaves \cup {r} \cup {a} \cup {b}) \in Nat
    <2>1. ASSUME NEW S, NEW x, IsFiniteSet(S), NEW n \in Nat, Cardinality(S) <= n
          PROVE  IsFiniteSet(S \cup {x}) /\ Cardinality(S \cup {x}) <= n + 1
      <3>1. /\ IsFiniteSet(S \cup {x})
            /\ Cardinality(S \cup {x}) = IF x \in S THEN Cardinality(S) ELSE Cardinality(S) + 1
        BY <2>1, FS_AddElement
      <3>2. Cardinality(S) \in Nat
        BY <2>1, FS_CardinalityType
      <3>3. QED
        BY <2>1, <3>1, <3>2
    <2>2. IsFiniteSet(leaves \cup {r}) /\ Cardinality(leaves \cup {r}) <= LastPD + 1
      BY <1>3, <1>7, <2>1
    <2>3. LastPD + 1 \in Nat /\ LastPD + 1 + 1 \in Nat
      BY <1>3
    <2>4. /\ IsFiniteSet((leaves \cup {r}) \cup {a})
          /\ Cardinality((leaves \cup {r}) \cup {a}) <= (LastPD + 1) + 1
      BY ONLY <2>1, <2>2, <2>3
    <2>5. /\ IsFiniteSet(((leaves \cup {r}) \cup {a}) \cup {b})
          /\ Cardinality(((leaves \cup {r}) \cup {a}) \cup {b}) <= ((LastPD + 1) + 1) + 1
      BY ONLY <2>1, <2>3, <2>4
    <2>6. QED
      BY <1>3, <2>5, FS_CardinalityType
  <1>10. /\ IsFiniteSet(TablesIn(m, r))
         /\ Cardinality(TablesIn(m, r)) <= Cardinality(leaves \cup {r} \cup {a} \cup {b})
    BY <1>8, <1>9, FS_Subset
  <1>11. Cardinality(TablesIn(m, r)) \in Nat
    BY <1>10, FS_CardinalityType
  <1>12. QED
    BY <1>3, <1>9, <1>10, <1>11

\* So a word of the bitmap has a page for one more.
LEMMA MapSucceeds ==
    ASSUME Safe, Mapped, Booting, Walking, ~ Present(Slot)
    PROVE  ~ OutOfMemory
  <1>1. /\ IsFiniteSet(TablesIn(memory, kernel_pml4))
        /\ Cardinality(TablesIn(memory, kernel_pml4)) <= 3 + LastPD
        /\ Cardinality(TablesIn(memory, kernel_pml4)) \in Nat
    BY FewTables, FS_CardinalityType DEF Mapped
  <1>2. Cardinality(BootPages) = WordBits
    <2>1. KernelPages \in Int /\ KernelPages + WordBits - 1 \in Int
          /\ KernelPages <= KernelPages + WordBits - 1 /\ WordBits \in Nat
      BY PmmAssumption
    <2>2. Cardinality(BootPages) = (KernelPages + WordBits - 1) - KernelPages + 1
      BY <2>1, FS_Interval DEF BootPages
    <2>3. QED
      BY <2>1, <2>2, PmmAssumption
  <1>3. LastPD \in Nat /\ WordBits \in Nat /\ 3 + (LastPD + 1) <= WordBits
    <2>1. KernelPages - 1 \in Nat /\ Fanout \in Nat \ {0}
      BY PmmAssumption, VmmAssumption
    <2>2. LastPD \in Nat
      BY <2>1, DivMod DEF LastPD
    <2>3. QED
      BY <2>2, BootAssumption, PmmAssumption DEF LastPD
  <1>4. SUFFICES ASSUME OutOfMemory PROVE FALSE
    OBVIOUS
  <1>5. BootPages \subseteq TablesIn(memory, kernel_pml4)
    <2> SUFFICES ASSUME NEW page \in BootPages PROVE page \in TablesIn(memory, kernel_pml4)
      OBVIOUS
    <2>1. page \in Searched /\ page \in Available /\ page \in Int /\ held = {}
      BY PmmAssumption DEF Mapped, Booting, OnlyKernel, BootPages
    <2>2. Run(page, 1) = {page}
      BY <2>1 DEF Run
    <2>3. page \in memory_bitmap
      BY <1>4, <2>1, <2>2 DEF OutOfMemory, IsFree
    <2>4. QED
      BY <2>1, <2>3 DEF Safe, Accounted
  <1>6. Cardinality(BootPages) <= Cardinality(TablesIn(memory, kernel_pml4))
    BY <1>1, <1>5, FS_Subset
  <1>7. QED
    BY <1>1, <1>2, <1>3, <1>6

\* vmm_init found a page behind the kernel's: its word of the bitmap is searched,
\* and all of it is memory.
LEMMA BootWord ==
    ASSUME TypeOK, NEW page \in Searched, page \in Available
    PROVE  BootPages \subseteq Searched /\ BootPages \subseteq Available
  <1>1. total_memory \in Nat /\ WordBits \in Nat \ {0} /\ KernelPages \in Nat \ {0} /\ MAX_BLOCKS \in Nat
    BY PmmAssumption DEF TypeOK
  <1>2. /\ total_blocks \in Nat /\ total_blocks * WordBits <= total_memory
        /\ Searched \subseteq Bits
    BY <1>1, SearchedPages
  <1> DEFINE k == KernelPages \div WordBits
  <1>3. k \in Nat /\ KernelPages = WordBits * k
    <2>1. /\ k \in Nat /\ (KernelPages % WordBits) \in Nat
          /\ KernelPages = WordBits * k + (KernelPages % WordBits)
      BY <1>1, DivMod
    <2>2. KernelPages % WordBits = 0
      BY BootAssumption
    <2>3. QED
      BY <1>1, <2>1, <2>2
  <1> HIDE DEF k
  <1> DEFINE n == total_blocks
  <1>4. KernelPages <= page /\ page < n * WordBits /\ page \in Int
    BY <1>1, <1>2 DEF Available, Searched
  <1>5. KernelPages + WordBits <= n * WordBits
    <2> HIDE DEF n
    <2>1. n \in Nat
      BY <1>2 DEF n
    <2>2. n >= k + 1
      <3>1. ASSUME n <= k PROVE FALSE
        <4>1. n * WordBits <= WordBits * k
          BY <1>1, <1>3, <2>1, <3>1
        <4>2. QED
          BY <1>1, <1>3, <1>4, <2>1, <4>1
      <3>2. QED
        BY <1>3, <2>1, <3>1
    <2>3. n * WordBits >= (k + 1) * WordBits
      BY <1>1, <1>3, <2>1, <2>2
    <2>4. (k + 1) * WordBits = WordBits * k + WordBits
      BY <1>1, <1>3
    <2>5. QED
      BY <1>1, <1>3, <2>1, <2>3, <2>4
  <1>6. BootPages \subseteq Searched
    BY <1>1, <1>2, <1>5 DEF BootPages, Searched
  <1>7. BootPages \subseteq Available
    <2>1. \A q \in BootPages : KernelPages <= q /\ q < total_memory
      BY <1>1, <1>2, <1>5 DEF BootPages
    <2>2. QED
      BY <1>2, <1>6, <2>1 DEF Available
  <1>8. QED
    BY <1>6, <1>7

-----------------------------------------------------------------------------
\* One lemma per action.
LEMMA SearchStays == [Next]_vars => Searched' = Searched /\ Available' = Available
  <1> SUFFICES ASSUME [Next]_vars PROVE total_memory' = total_memory
    BY DEF Searched, total_blocks, Available, Bits
  <1>1. QED
    BY DEF Next, vmm_init, MapIdentity, vmm_map_page, Start, GetTable, CreateTable, NoTable,
           StoreEntry, vmm_unmap_page, ClientPages, vars, pmmVars, pmm_alloc_page,
           pmm_alloc_pages, pmm_free_pages, Take

\* Steps that change no table: the call and the page in hand may.
LEMMA MappedFramed ==
    ASSUME Mapped, [Next]_vars, UNCHANGED <<kernel_pml4, memory>>,
           addr' = NotStarted => held' = {},
           kernel_pml4 # NULL => addr' >= 0 /\
              /\ call' # NoCall /\ call'.virt \notin Virtuals => call'.entry = Identity(call'.virt)
              /\ \A page \in (0 .. KernelPages - 1) \ Virtuals :
                    \/ page >= addr'
                    \/ call' # NoCall /\ call'.virt = page
                    \/ TranslationIn(memory, kernel_pml4, page) = Identity(page)
              /\ Booting' => /\ Booting /\ held' = held
                             /\ call' # NoCall => call'.virt \in 0 .. KernelPages - 1,
           kernel_pml4 = NULL => call' = NoCall
    PROVE  Mapped'
  <1>1. Searched' = Searched /\ Available' = Available /\ BootPages' = BootPages
    BY SearchStays DEF BootPages
  <1>2. Booting' => OnlyKernel'
    BY DEF Booting, Mapped, OnlyKernel
  <1>3. QED
    BY <1>1, <1>2 DEF Mapped, Identity

LEMMA MappedInit ==
    ASSUME Safe, Mapped, vmm_init
    PROVE  Mapped'
  <1>1. /\ addr = NotStarted /\ kernel_pml4 = NULL /\ held' = held /\ call' = call
        /\ TypeOK /\ Accounted /\ held = {} /\ call = NoCall
    BY DEF Safe, vmm_init, Mapped, OnItsWay
  <1>2. ASSUME NEW page \in Searched, pmm_alloc_page(page), kernel_pml4' = page,
               memory' = [memory EXCEPT ![page] = Cleared], addr' = 0
        PROVE  Mapped'
    <2>1. /\ page \in Available /\ Available' = Available /\ total_memory' = total_memory
          /\ Searched' = Searched
      BY <1>1, <1>2, FreshPage DEF Searched, total_blocks
    <2>2. BootPages \subseteq Searched /\ BootPages \subseteq Available
      BY <1>1, <2>1, BootWord
    <2>3. memory'[page] = Cleared /\ memory' \in [Available -> Table]
      <3>1. Cleared \in Table
        BY DEF Cleared, Table, Zero
      <3>2. memory \in [Available -> Table]
        BY <1>1 DEF TypeOK
      <3>3. QED
        BY <1>2, <2>1, <3>1, <3>2
    <2>4. L3(memory', page) = {} /\ L2(memory', page) = {} /\ page # NULL
      <3>1. Rooted(Available, memory', page)
        BY <2>1, <2>3, AvailablePages DEF Rooted
      <3>2. QED
        BY <2>1, <3>1, RootTree, AvailablePages DEF NULL
    <2>5. OnlyKernel'
      BY <1>1, <1>2, <2>3, <2>4 DEF OnlyKernel, L4, Cleared, Slots
    <2>6. QED
      BY <1>1, <1>2, <2>1, <2>2, <2>5 DEF Mapped, NotStarted, BootPages
  <1>3. CASE UNCHANGED <<total_memory, memory_bitmap, used_blocks, kernel_pml4, memory>>
    BY <1>1, <1>3 DEF Mapped, Booting
  <1>4. QED
    BY <1>2, <1>3 DEF vmm_init

LEMMA MappedIdentity ==
    ASSUME Safe, Mapped, MapIdentity
    PROVE  Mapped'
  <1>1. /\ addr \in 0 .. KernelPages - 1 /\ addr' = addr + 1 /\ kernel_pml4 # NULL /\ call = NoCall
        /\ UNCHANGED <<pmmVars, kernel_pml4, memory>>
        /\ call' # NoCall /\ call'.virt = addr /\ call'.entry = Identity(addr)
    <2>1. addr \in NotStarted .. KernelPages /\ KernelPages \in Nat
      BY PmmAssumption DEF Safe, TypeOK
    <2>2. 0 <= addr /\ addr < KernelPages /\ addr' = addr + 1 /\ Start(addr, Entry(addr, Flags))
      BY DEF MapIdentity
    <2>3. call' # NoCall
      <3>1. call'.level = 4
        BY <2>2 DEF Start, TOP
      <3>2. QED
        BY <3>1 DEF NoCall
    <2>4. QED
      BY <2>1, <2>2, <2>3 DEF NotStarted, Start, Identity
  <1>2. [Next]_vars
    BY DEF Next
  <1>3. \A page \in (0 .. KernelPages - 1) \ Virtuals :
           \/ page >= addr'
           \/ call' # NoCall /\ call'.virt = page
           \/ TranslationIn(memory, kernel_pml4, page) = Identity(page)
    <2> SUFFICES ASSUME NEW page \in (0 .. KernelPages - 1) \ Virtuals,
                        ~ (page >= addr'), call'.virt # page
                 PROVE  TranslationIn(memory, kernel_pml4, page) = Identity(page)
      BY <1>1
    <2>1. ~ (page >= addr)
      BY <1>1, PmmAssumption
    <2>2. QED
      BY <1>1, <2>1 DEF Mapped
  <1>4. Booting /\ held' = held
    BY <1>1, PmmAssumption DEF Booting, pmmVars
  <1>5. addr' # NotStarted /\ addr' >= 0
    BY <1>1 DEF NotStarted
  <1>6. QED
    BY <1>1, <1>2, <1>3, <1>4, <1>5, MappedFramed

LEMMA MappedMapPage ==
    ASSUME Safe, Mapped, vmm_map_page
    PROVE  Mapped'
  <1>1. /\ addr = KernelPages /\ addr' = addr /\ call = NoCall /\ kernel_pml4 # NULL
        /\ UNCHANGED <<pmmVars, kernel_pml4, memory>>
        /\ call'.virt \in Virtuals
    BY DEF vmm_map_page, Booted, Start
  <1>2. [Next]_vars
    BY DEF Next
  <1>3. ~ Booting'
    BY <1>1, PmmAssumption DEF Booting
  <1>4. addr' # NotStarted /\ addr' >= 0
    BY <1>1, PmmAssumption DEF NotStarted
  <1>5. \A page \in (0 .. KernelPages - 1) \ Virtuals :
            TranslationIn(memory, kernel_pml4, page) = Identity(page)
    BY <1>1, PmmAssumption DEF Mapped
  <1>6. QED
    BY <1>1, <1>2, <1>3, <1>4, <1>5, MappedFramed

LEMMA MappedGetTable ==
    ASSUME Safe, Mapped, GetTable
    PROVE  Mapped'
  <1>1. /\ call # NoCall /\ kernel_pml4 # NULL /\ call \in Calls
    BY WalkingLevel, RunningCall DEF GetTable
  <1>2. /\ UNCHANGED <<pmmVars, kernel_pml4, memory, addr>>
        /\ call' = [call EXCEPT !.level = @ - 1, !.table = Slot.frame]
    BY DEF GetTable
  <1>3. call'.virt = call.virt /\ call'.entry = call.entry
    BY <1>1, <1>2 DEF Calls
  <1>4. [Next]_vars
    BY DEF Next
  <1>5. (Booting' => Booting /\ held' = held) /\ addr' = addr /\ held' = held
    BY <1>1, <1>2, <1>3 DEF Booting, pmmVars
  <1>6. Booting => call.virt \in 0 .. KernelPages - 1
    BY <1>1 DEF Mapped, OnlyKernel
  <1>7. addr >= 0 /\ (addr = NotStarted => held = {})
    BY <1>1 DEF Mapped
  <1>8. call.virt \notin Virtuals => call.entry = Identity(call.virt)
    BY <1>1 DEF Mapped
  <1>9. \A page \in (0 .. KernelPages - 1) \ Virtuals :
           \/ page >= addr
           \/ call.virt = page
           \/ TranslationIn(memory, kernel_pml4, page) = Identity(page)
    BY <1>1 DEF Mapped
  <1>10. \A page \in (0 .. KernelPages - 1) \ Virtuals :
           \/ page >= addr'
           \/ call' # NoCall /\ call'.virt = page
           \/ TranslationIn(memory, kernel_pml4, page) = Identity(page)
    <2>1. call' # NoCall
      <3>1. call.level \in 2 .. 4
        BY WalkingLevel DEF GetTable
      <3>2. call'.level = call.level - 1
        BY <1>1, <1>2 DEF Calls
      <3>3. QED
        BY <3>1, <3>2 DEF NoCall
    <2>2. QED
      BY <1>3, <1>5, <1>9, <2>1
  <1>11. QED
    BY <1>1, <1>2, <1>3, <1>4, <1>5, <1>6, <1>7, <1>8, <1>10, MappedFramed

\* A map fails only when the kernel's pages are mapped.
LEMMA MappedNoTable ==
    ASSUME Safe, Mapped, NoTable
    PROVE  Mapped'
  <1>1. /\ call # NoCall /\ kernel_pml4 # NULL /\ call' = NoCall
        /\ UNCHANGED <<pmmVars, kernel_pml4, memory, addr>>
    BY WalkingLevel, RunningCall DEF NoTable
  <1>2. ~ Booting
    BY MapSucceeds DEF NoTable
  <1>3. addr \in NotStarted .. KernelPages /\ ~ (addr < KernelPages) /\ call.virt \in Virtuals
    BY <1>1, <1>2 DEF Booting, Safe, TypeOK
  <1>4. addr = KernelPages
    BY <1>3, PmmAssumption DEF NotStarted
  <1>5. [Next]_vars
    BY DEF Next
  <1>6. ~ Booting'
    BY <1>1, <1>4, PmmAssumption DEF Booting
  <1>7. \A page \in (0 .. KernelPages - 1) \ Virtuals :
            TranslationIn(memory, kernel_pml4, page) = Identity(page)
    BY <1>1, <1>3, <1>4, PmmAssumption DEF Mapped
  <1>8. addr' # NotStarted /\ addr' >= 0
    BY <1>1, <1>4, PmmAssumption DEF NotStarted
  <1>9. QED
    BY <1>1, <1>5, <1>6, <1>7, <1>8, MappedFramed

LEMMA MappedCreateTable ==
    ASSUME Safe, Mapped, CreateTable
    PROVE  Mapped'
  <1> DEFINE r == kernel_pml4
             q == call.table
             i == Index(call.virt, call.level)
  <1>1. PICK page \in Searched :
            /\ Grown(Available, memory, memory', r, page, q, i)
            /\ call' = [call EXCEPT !.level = @ - 1, !.table = page]
    BY CreateGrows DEF CreateTable
  <1>2. /\ call.level \in 2 .. 4 /\ call # NoCall /\ call \in Calls /\ r # NULL
        /\ kernel_pml4' = r /\ addr' = addr /\ held' = held
        /\ i \in Slots
    BY WalkingLevel, RunningCall DEF CreateTable
  <1>3. /\ call'.virt = call.virt /\ call'.entry = call.entry /\ call'.level = call.level - 1
    BY <1>1, <1>2 DEF Calls
  <1>4. call' # NoCall
    BY <1>2, <1>3 DEF NoCall
  <1>5. \A v \in Nat : TranslationIn(memory', kernel_pml4', v) = TranslationIn(memory, r, v)
    BY CreateTranslates
  <1>6. Searched' = Searched /\ Available' = Available /\ BootPages' = BootPages
    BY SearchStays DEF Next, BootPages
  <1>7. Booting' <=> Booting
    BY <1>2, <1>3, <1>4 DEF Booting
  <1>8. IsTree(Available, memory, r)
    BY DEF Safe
  <1>9. Booting => OnlyKernel'
    <2> SUFFICES ASSUME Booting PROVE OnlyKernel'
      OBVIOUS
    <2>1. OnlyKernel /\ call.virt \in 0 .. KernelPages - 1
      BY <1>2 DEF Mapped, OnlyKernel
    <2>2. Index(call.virt, 4) = 0 /\ Index(call.virt, 3) = 0 /\ Index(call.virt, 2) <= LastPD
      BY <2>1, KernelIndices
    <2>3. /\ L3(memory', r) = IF q \in L4(r) THEN L3(memory, r) \cup {page} ELSE L3(memory, r)
          /\ L2(memory', r) = IF q \in L3(memory, r) THEN L2(memory, r) \cup {page} ELSE L2(memory, r)
      BY <1>1, <1>8, GrownLevels
    <2>4. /\ L4(r) \subseteq Available /\ L3(memory, r) \subseteq Available
          /\ L2(memory, r) \subseteq Available
          /\ L3(memory, r) \cap L2(memory, r) = {}
          /\ L4(r) \cap L2(memory, r) = {}
      BY <1>8, TreeLevels
    <2>5. ASSUME NEW t \in Available, NEW j \in Slots
          PROVE  /\ t = page => memory'[t][j] = Zero
                 /\ t # page /\ ~ (t = q /\ j = i) => memory'[t][j] = memory[t][j]
      <3>1. CASE t = page
        BY <1>1, <3>1 DEF Grown, Cleared, Slots
      <3>2. CASE t = q /\ t # page
        <4>1. memory[q] \in Table
          BY <1>8, <3>2, <2>5 DEF IsTree
        <4>2. memory'[q] = [memory[q] EXCEPT ![i] = Entry(page, Flags)]
          BY <1>1 DEF Grown
        <4>3. QED
          BY <3>2, <4>1, <4>2 DEF Table, Slots
      <3>3. CASE t # page /\ t # q
        BY <1>1, <3>3 DEF Grown
      <3>4. QED
        BY <3>1, <3>2, <3>3
    <2>6. ASSUME NEW t \in L4(r) \cup L3(memory', r), NEW j \in Slots \ {0}
          PROVE  memory'[t][j] = Zero
      <3>1. t = page \/ t \in L4(r) \cup L3(memory, r)
        BY <2>3
      <3>2. CASE t = page
        BY <1>1, <2>5, <3>2 DEF Grown
      <3>3. CASE t # page /\ t \in L4(r) \cup L3(memory, r)
        <4>1. ~ (t = q /\ j = i)
          <5>1. t = q => call.level # 2
            BY <1>2, <2>4, <3>3, TableOfLevel
          <5>2. QED
            BY <1>2, <2>2, <5>1
        <4>2. memory'[t][j] = memory[t][j]
          BY <2>4, <2>5, <3>3, <4>1
        <4>3. QED
          BY <2>1, <3>3, <4>2 DEF OnlyKernel
      <3>4. QED
        BY <3>1, <3>2, <3>3
    <2>7. ASSUME NEW t \in L2(memory', r), NEW j \in Slots, j > LastPD
          PROVE  memory'[t][j] = Zero
      <3>1. t = page \/ t \in L2(memory, r)
        BY <2>3
      <3>2. CASE t = page
        BY <1>1, <2>5, <3>2 DEF Grown
      <3>3. CASE t # page /\ t \in L2(memory, r)
        <4>1. ~ (t = q /\ j = i)
          <5>1. t = q => call.level = 2
            BY <1>2, <2>4, <3>3, TableOfLevel
          <5>2. i \in Int /\ LastPD \in Int
            BY <1>2, <2>1, KernelIndices DEF Slots
          <5>3. QED
            BY <2>2, <2>7, <5>1, <5>2
        <4>2. memory'[t][j] = memory[t][j]
          BY <2>4, <2>5, <3>3, <4>1
        <4>3. QED
          BY <2>1, <2>7, <3>3, <4>2 DEF OnlyKernel
      <3>4. QED
        BY <3>1, <3>2, <3>3
    <2>8. LastPD' = LastPD
      BY DEF LastPD
    <2>9. QED
      BY <1>2, <1>3, <2>1, <2>6, <2>7, <2>8 DEF OnlyKernel
  <1>10. \A page2 \in (0 .. KernelPages - 1) \ Virtuals :
            TranslationIn(memory', kernel_pml4', page2) = TranslationIn(memory, r, page2)
    BY <1>5
  <1>11. QED
    BY <1>2, <1>3, <1>4, <1>6, <1>7, <1>9, <1>10 DEF Mapped, Identity

\* Steps that store an entry in a page table: the tables above it stay.
LEMMA StoredOnlyKernel ==
    ASSUME Safe, OnlyKernel, NEW t, NEW i, NEW e,
           Stored(Available, memory, memory', kernel_pml4, t, i, e),
           kernel_pml4' = kernel_pml4, held' = held, call' = NoCall
    PROVE  OnlyKernel'
  <1>1. IsTree(Available, memory, kernel_pml4)
    BY DEF Safe
  <1>2. /\ L3(memory', kernel_pml4) = L3(memory, kernel_pml4)
        /\ L2(memory', kernel_pml4) = L2(memory, kernel_pml4)
        /\ \A u \in AboveIn(memory, kernel_pml4) : memory'[u] = memory[u]
    BY <1>1, StoredTree
  <1>3. LastPD' = LastPD
    BY DEF LastPD
  <1>4. QED
    BY <1>2, <1>3 DEF OnlyKernel, AboveIn

LEMMA MappedStoreEntry ==
    ASSUME Safe, Mapped, StoreEntry
    PROVE  Mapped'
  <1>1. /\ call.level = 1 /\ call.level > 0 /\ call' = NoCall
        /\ UNCHANGED <<pmmVars, kernel_pml4, addr>>
        /\ memory' = [memory EXCEPT ![call.table][Index(call.virt, 1)] = call.entry]
    BY DEF StoreEntry
  <1>2. /\ call.table \in L1(memory, kernel_pml4) /\ Index(call.virt, 1) \in Slots
        /\ call.entry \in [frame : Nat, flags : SUBSET Flags]
        /\ call # NoCall /\ kernel_pml4 # NULL
    BY <1>1, RunningCall, TableOfLevel
  <1>3. held' = held
    BY <1>1 DEF pmmVars
  <1>4. Booting' => Booting
    BY <1>1 DEF Booting
  <1>5. Booting' => OnlyKernel'
    <2> SUFFICES ASSUME Booting' PROVE OnlyKernel'
      OBVIOUS
    <2>1. OnlyKernel
      BY <1>4 DEF Mapped
    <2>2. Stored(Available, memory, memory', kernel_pml4, call.table, Index(call.virt, 1), call.entry)
      BY <1>1, <1>2, StoreStores
    <2>3. QED
      BY <1>1, <1>3, <2>1, <2>2, StoredOnlyKernel
  <1>6. Searched' = Searched /\ Available' = Available /\ BootPages' = BootPages
    BY SearchStays DEF Next, BootPages
  <1>7. ASSUME NEW page \in (0 .. KernelPages - 1) \ Virtuals
        PROVE  page >= addr \/ TranslationIn(memory', kernel_pml4', page) = Identity(page)
    <2>1. page \in Pages
      BY DEF Pages
    <2>2. TranslationIn(memory', kernel_pml4', page) =
             IF page = call.virt THEN call.entry ELSE TranslationIn(memory, kernel_pml4, page)
      BY <2>1, StoreTranslates
    <2>3. \/ page >= addr \/ call.virt = page
          \/ TranslationIn(memory, kernel_pml4, page) = Identity(page)
      BY <1>2 DEF Mapped
    <2>4. call.virt = page => call.entry = Identity(page)
      BY <1>2 DEF Mapped
    <2>5. QED
      BY <2>2, <2>3, <2>4
  <1>8. addr >= 0 /\ (addr = NotStarted => held = {})
        /\ BootPages \subseteq Searched /\ BootPages \subseteq Available
    BY <1>2 DEF Mapped
  <1> HIDE DEF StoreEntry
  <1>9. QED
    BY <1>1, <1>3, <1>5, <1>6, <1>7, <1>8 DEF Mapped, Identity

LEMMA MappedUnmap ==
    ASSUME Safe, Mapped, NEW virt \in Virtuals, vmm_unmap_page(virt)
    PROVE  Mapped'
  <1>1. /\ addr = KernelPages /\ call = NoCall /\ call' = call
        /\ UNCHANGED <<pmmVars, kernel_pml4, addr>>
    BY DEF vmm_unmap_page, Idle, Booted
  <1>2. kernel_pml4 # NULL => \A page \in (0 .. KernelPages - 1) \ Virtuals :
            TranslationIn(memory', kernel_pml4', page) = Identity(page)
    <2> SUFFICES ASSUME kernel_pml4 # NULL, NEW page \in (0 .. KernelPages - 1) \ Virtuals
                 PROVE  TranslationIn(memory', kernel_pml4', page) = Identity(page)
      OBVIOUS
    <2>1. page \in Pages /\ page # virt
      BY DEF Pages
    <2>2. TranslationIn(memory', kernel_pml4', page) = TranslationIn(memory, kernel_pml4, page)
      BY <2>1, UnmapTranslates
    <2>3. ~ (page >= addr)
      BY <1>1, PmmAssumption
    <2>4. QED
      BY <1>1, <2>2, <2>3 DEF Mapped
  <1>3. ~ Booting' /\ held' = held /\ addr >= 0 /\ addr # NotStarted
    BY <1>1, PmmAssumption DEF Booting, pmmVars, NotStarted
  <1>4. Searched' = Searched /\ Available' = Available /\ BootPages' = BootPages
    BY SearchStays DEF Next, BootPages
  <1>5. kernel_pml4 # NULL => BootPages \subseteq Searched /\ BootPages \subseteq Available
    BY DEF Mapped
  <1>6. QED
    BY <1>1, <1>2, <1>3, <1>4, <1>5 DEF Mapped, Identity

LEMMA MappedClientPages ==
    ASSUME Safe, Mapped, ClientPages
    PROVE  Mapped'
  <1>1. /\ addr = KernelPages /\ call = NoCall /\ UNCHANGED <<kernel_pml4, memory, call, addr>>
    BY DEF ClientPages, Idle, Booted, vmmVars
  <1>2. ~ Booting' /\ addr >= 0 /\ addr # NotStarted
    BY <1>1, PmmAssumption DEF Booting, NotStarted
  <1>3. Searched' = Searched /\ Available' = Available /\ BootPages' = BootPages
    BY SearchStays DEF Next, BootPages
  <1>4. QED
    BY <1>1, <1>2, <1>3 DEF Mapped, Identity

LEMMA MappedNext == Safe /\ Mapped /\ [Next]_vars => Mapped'
  <1> SUFFICES ASSUME Safe, Mapped, [Next]_vars PROVE Mapped'
    OBVIOUS
  <1>1. CASE UNCHANGED vars
    <2>1. UNCHANGED <<total_memory, held, kernel_pml4, memory, call, addr>>
      BY <1>1 DEF vars, vmmVars, pmmVars
    <2>2. /\ Searched' = Searched /\ Available' = Available /\ BootPages' = BootPages
          /\ LastPD' = LastPD
      BY SearchStays DEF BootPages, LastPD
    <2>3. OnlyKernel' = OnlyKernel /\ Booting' = Booting
      BY <2>1, <2>2 DEF OnlyKernel, Booting
    <2>4. QED
      BY <2>1, <2>2, <2>3 DEF Mapped, Identity
  <1>2. QED
    BY <1>1, MappedInit, MappedIdentity, MappedMapPage, MappedGetTable, MappedCreateTable,
       MappedNoTable, MappedStoreEntry, MappedUnmap, MappedClientPages DEF Next

LEMMA InitMapped == Init => Mapped
  BY DEF Init, PmmInit, Mapped, Booting

\* Once vmm_init is done each page of the kernel's 16 MiB that no client remaps is
\* mapped to itself (vmm.c:55): if there was a page for the top table no map of
\* the loop failed, though nothing looks at what they return.
THEOREM KernelIdentityMapped == Spec => []IdentityMapped
  <1>1. Mapped => IdentityMapped
    <2> SUFFICES ASSUME Mapped, kernel_pml4 # NULL, Idle,
                        NEW page \in (0 .. KernelPages - 1) \ Virtuals
                 PROVE  Translation(page) = Entry(page, Flags)
      BY DEF IdentityMapped
    <2>1. ~ (page >= addr) /\ call = NoCall
      BY PmmAssumption DEF Idle, Booted
    <2>2. TranslationIn(memory, kernel_pml4, page) = Identity(page)
      BY <2>1 DEF Mapped
    <2>3. QED
      BY <2>2, Named DEF Identity
  <1>2. QED
    BY <1>1, InitMapped, MappedNext, AlwaysSafe, PTL DEF Spec
=============================================================================
