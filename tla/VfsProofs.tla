------------------------------ MODULE VfsProofs ------------------------------
(***************************************************************************)
(* The file system, proved for any archives, numbers of descriptors, paths *)
(* and sizes: what tarfs_init mounts is complete, no descriptor is lost or *)
(* taken twice, and ls and cat put out all there is.                       *)
(***************************************************************************)
EXTENDS Vfs, FiniteSetTheorems, SequenceTheorems, WellFoundedInduction, TLAPS

\* The headers the second pass has been at, of those it makes nodes of.
Seen == {i \in 1 .. ptr - 1 : Counted(i)}

\* What tarfs_init has counted and filled.  Once a node was refused, the root's
\* node, which is of the same size, is refused too: nothing is mounted.
Tables ==
    /\ archive \in Archives
    /\ refused \subseteq Nat
    /\ stage \notin {"count", "failed"} => num_files = Cardinality(CountedFiles)
    /\ stage \in {"count", "fs_data", "table"} => file_nodes = << >> /\ ptr = 1
    /\ stage \in {"fill", "root"} =>
          /\ Len(file_nodes) <= num_files
          /\ \/ \E n \in refused : n <= NodeSize
             \/ InOrder(file_nodes, Seen) /\ Len(file_nodes) = Cardinality(Seen)
    /\ stage = "root" => ptr > Len(archive) \/ Len(file_nodes) = num_files
    /\ MountedComplete

\* What the running command has put out so far.
Listings == [stage : {"listing", "listed"}, dir : Nodes, listed : Seq(DOMAIN archive)]
ListedSoFar ==
    /\ command \in Listings
    /\ stage = "mounted"
    /\ Len(command.listed) <= num_files
    /\ \A i \in DOMAIN command.listed : command.listed[i] = file_nodes[i]
    /\ command.dir # ROOT => command.listed = << >>
    /\ command.stage = "listed" /\ command.dir = ROOT => Len(command.listed) = num_files
Readings == [stage : {"reading", "read"}, fd : FDs, printed : Seq(Nat \cup {Wrong})]
\* A read of cat's begins at a multiple of its buffer's size, or finds the end.
AtPiece(node, pos) == pos = Size(node) \/ \E k \in Nat : pos = k * Chunk
\* The bytes up to a place are shown, but for those of characters cut at a multiple.
Torn(node, i) == \E k \in 1 .. Size(node) : CutAt(node, k * Chunk, i)
Shown(node, pos, printed) ==
    /\ Len(printed) = pos
    /\ \A i \in 1 .. pos : printed[i] = i - 1 \/ (printed[i] = Wrong /\ Torn(node, i))
PrintedSoFar ==
    LET file == file_descriptors[command.fd]
    IN  /\ command \in Readings
        /\ file.position <= Size(file.node)
        /\ AtPiece(file.node, file.position)
        /\ HasNul(file.node) \/ Shown(file.node, file.position, command.printed)
        /\ command.stage = "read" => file.position = Size(file.node)
Running == command = NoCommand \/ ListedSoFar \/ PrintedSoFar

\* The descriptor of a running cat.
OfCat == IF command.stage \in {"reading", "read"} THEN {command.fd} ELSE {}

Inv ==
    /\ Tables
    /\ DescriptorsAccounted
    /\ Running
    /\ CwdIsDirectory
    /\ current_dir # NULL => stage = "mounted"

-----------------------------------------------------------------------------
\* The least of a set of numbers: what induction over the parts of a path and
\* the search of the table stand on.
LEMMA LeastNumber ==
    ASSUME NEW S, S \subseteq Nat, S # {}
    PROVE  \E m \in S : \A n \in S : m <= n
  <1>1. PICK m \in S : \A n \in S : ~ (<<n, m>> \in OpToRel(<, Nat))
    BY NatLessThanWellFounded, WFMin, Zenon
  <1>2. \A n \in S : ~ (n < m)
    <2> SUFFICES ASSUME NEW n \in S, n < m PROVE FALSE
      OBVIOUS
    <2>1. <<n, m>> \in Nat \X Nat /\ <<n, m>>[1] < <<n, m>>[2]
      OBVIOUS
    <2>2. QED
      BY <1>1, <2>1, Zenon DEF OpToRel
  <1>3. QED
    BY <1>2

\* The walk along a path is defined: there is a function that follows its parts
\* one by one.
Walk(start, parts, k, f) ==
    f = [n \in 0 .. k |-> IF n = 0 THEN start ELSE Follow(f[n - 1], parts[n])]

LEMMA WalkExists ==
    ASSUME NEW start, NEW parts, NEW len \in Nat
    PROVE  \E f : Walk(start, parts, len, f)
  <1> DEFINE Bad == {k \in 0 .. len : ~ \E f : Walk(start, parts, k, f)}
  <1>1. SUFFICES ASSUME Bad # {} PROVE FALSE
    OBVIOUS
  <1>2. PICK k \in Bad : \A j \in Bad : k <= j
    <2>1. Bad \subseteq Nat
      OBVIOUS
    <2> HIDE DEF Bad
    <2>2. QED
      BY <1>1, <2>1, LeastNumber
  <1>3. k # 0
    <2> DEFINE f == [n \in 0 .. 0 |-> start]
    <2>1. Walk(start, parts, 0, f)
      BY DEF Walk
    <2>2. QED
      BY <2>1
  <1>4. k - 1 \in 0 .. len /\ k - 1 \notin Bad
    BY <1>2, <1>3
  <1>5. PICK f : Walk(start, parts, k - 1, f)
    BY <1>4
  <1> DEFINE g == [n \in 0 .. k |-> IF n = k THEN Follow(f[k - 1], parts[k]) ELSE f[n]]
  <1>6. \A n \in 0 .. k : g[n] = IF n = 0 THEN start ELSE Follow(g[n - 1], parts[n])
    <2> SUFFICES ASSUME NEW n \in 0 .. k
                 PROVE  g[n] = IF n = 0 THEN start ELSE Follow(g[n - 1], parts[n])
      OBVIOUS
    <2>1. CASE n = k
      BY <1>3, <2>1
    <2>2. CASE n # k
      <3>1. n \in 0 .. k - 1 /\ g[n] = f[n]
        BY <2>2
      <3>2. f[n] = IF n = 0 THEN start ELSE Follow(f[n - 1], parts[n])
        BY <1>5, <3>1 DEF Walk
      <3>3. n # 0 => n - 1 \in 0 .. k /\ n - 1 # k /\ g[n - 1] = f[n - 1]
        BY <3>1
      <3>4. QED
        BY <3>1, <3>2, <3>3
    <2>3. QED
      BY <2>1, <2>2
  <1>7. Walk(start, parts, k, g)
    <2> DEFINE h == [n \in 0 .. k |-> IF n = 0 THEN start ELSE Follow(g[n - 1], parts[n])]
    <2>1. \A n \in 0 .. k : g[n] = h[n]
      BY <1>6
    <2>2. g = h
      BY <2>1
    <2>3. QED
      BY <2>2 DEF Walk
  <1>8. QED
    BY <1>2, <1>7

\* It ends at a node, or at none.
LEMMA WalkStays ==
    ASSUME NEW start, NEW parts, NEW len \in Nat, NEW f, Walk(start, parts, len, f),
           NEW N, start \in N, \A node \in N : \A part : Follow(node, part) \in N
    PROVE  f[len] \in N
  <1> DEFINE Bad == {k \in 0 .. len : f[k] \notin N}
  <1>1. SUFFICES ASSUME Bad # {} PROVE FALSE
    OBVIOUS
  <1>2. PICK k \in Bad : \A j \in Bad : k <= j
    <2>1. Bad \subseteq Nat
      OBVIOUS
    <2> HIDE DEF Bad
    <2>2. QED
      BY <1>1, <2>1, LeastNumber
  <1>3. f[k] = IF k = 0 THEN start ELSE Follow(f[k - 1], parts[k])
    BY DEF Walk
  <1>4. k # 0 => f[k - 1] \in N
    BY <1>2
  <1>5. QED
    BY <1>3, <1>4

LEMMA FindFirst ==
    ASSUME file_nodes \in Seq(DOMAIN archive), NEW part
    PROVE  tarfs_finddir(part) \in DOMAIN archive \cup {NULL}
  <1> DEFINE S == {i \in DOMAIN file_nodes : IsNamed(i, part)}
  <1>1. CASE S = {}
    BY <1>1 DEF tarfs_finddir
  <1>2. CASE S # {}
    <2>1. S \subseteq Nat
      OBVIOUS
    <2>2. \E i \in S : \A j \in S : i <= j
      BY <1>2, <2>1, LeastNumber
    <2>3. QED
      BY <2>2 DEF tarfs_finddir
  <1>3. QED
    BY <1>1, <1>2

LEMMA NodeOfPath ==
    ASSUME TypeOK, NEW path \in Paths
    PROVE  /\ vfs_get_node(path) \in Nodes \cup {NULL}
           /\ vfs_get_node(path) # NULL => stage = "mounted"
  <1> DEFINE start == IF path.absolute THEN vfs_root ELSE current_dir
             current == CHOOSE f : Walk(start, path.parts, Len(path.parts), f)
             N == Nodes \cup {NULL}
  <1>1. Len(path.parts) \in Nat
    BY VfsAssumption
  <1>2. start \in N
    BY DEF TypeOK, vfs_root, Nodes
  <1>3. \A node \in N : \A part : Follow(node, part) \in N
    BY FindFirst DEF TypeOK, Follow, vfs_root, Nodes
  <1>4. Walk(start, path.parts, Len(path.parts), current)
    BY <1>1, WalkExists
  <1>5. current[Len(path.parts)] \in N
    <2> HIDE DEF N, current, start
    <2>1. QED
      BY <1>1, <1>2, <1>3, <1>4, WalkStays
  <1>6. vfs_get_node(path) = IF vfs_root = NULL THEN NULL ELSE current[Len(path.parts)]
    BY DEF vfs_get_node, Walk
  <1>7. QED
    BY <1>5, <1>6 DEF vfs_root

-----------------------------------------------------------------------------
\* tarfs_init.
LEMMA ArchiveFacts ==
    ASSUME archive \in Archives
    PROVE  /\ Len(archive) \in Nat /\ DOMAIN archive = 1 .. Len(archive)
           /\ IsFiniteSet(DOMAIN archive)
           /\ CountedFiles \subseteq DOMAIN archive /\ IsFiniteSet(CountedFiles)
           /\ Cardinality(CountedFiles) \in 0 .. Len(archive)
           /\ \A i \in DOMAIN archive : archive[i].text \in Seq(Nat)
  <1>1. Len(archive) \in Nat /\ DOMAIN archive = 1 .. Len(archive)
        /\ \A i \in DOMAIN archive : archive[i].text \in Seq(Nat)
    BY ArchivesAssumption
  <1>2. IsFiniteSet(1 .. Len(archive)) /\ Cardinality(1 .. Len(archive)) = Len(archive)
    <2>1. /\ IsFiniteSet(1 .. Len(archive))
          /\ Cardinality(1 .. Len(archive)) = IF 1 > Len(archive) THEN 0 ELSE Len(archive) - 1 + 1
      BY <1>1, FS_Interval
    <2>2. QED
      BY <1>1, <2>1
  <1>3. CountedFiles \subseteq DOMAIN archive
    BY DEF CountedFiles
  <1>4. /\ IsFiniteSet(CountedFiles)
        /\ Cardinality(CountedFiles) <= Cardinality(1 .. Len(archive))
        /\ Cardinality(CountedFiles) \in Nat
    BY <1>1, <1>2, <1>3, FS_Subset, FS_CardinalityType
  <1>5. QED
    BY <1>1, <1>2, <1>3, <1>4

\* The counted files are the first of the archive: a set of the first headers that
\* nodes are made of is all of them if it is as large, or if it has all headers.
LEMMA CountReached ==
    ASSUME archive \in Archives, ptr \in 1 .. Len(archive) + 1,
           Cardinality(Seen) <= Cardinality(CountedFiles),
           ptr > Len(archive) \/ Cardinality(Seen) = Cardinality(CountedFiles)
    PROVE  Seen = CountedFiles
  <1>1. /\ Len(archive) \in Nat /\ DOMAIN archive = 1 .. Len(archive)
        /\ IsFiniteSet(DOMAIN archive) /\ IsFiniteSet(CountedFiles)
        /\ Cardinality(CountedFiles) \in Nat
    BY ArchiveFacts
  <1>2. Seen \subseteq DOMAIN archive
    BY <1>1 DEF Seen
  <1>3. IsFiniteSet(Seen) /\ Cardinality(Seen) \in Nat
    BY <1>1, <1>2, FS_Subset, FS_CardinalityType
  <1>4. CASE CountedFiles \subseteq Seen
    <2>1. Cardinality(CountedFiles) <= Cardinality(Seen)
      BY <1>3, <1>4, FS_Subset
    <2>2. Cardinality(CountedFiles) = Cardinality(Seen)
      BY <1>1, <1>3, <2>1
    <2>3. QED
      BY <1>3, <1>4, <2>2, FS_Subset
  <1>5. CASE ~ (CountedFiles \subseteq Seen)
    <2>1. PICK x \in CountedFiles : x \notin Seen
      BY <1>5
    <2>2. x \in 1 .. Len(archive) /\ Counted(x) /\ (\A j \in 1 .. x : archive[j].magic) /\ ptr <= x
      BY <1>1, <2>1 DEF CountedFiles, Seen
    <2>3. Seen \subseteq CountedFiles
      BY <1>1, <2>2 DEF Seen, CountedFiles
    <2>4. Cardinality(Seen) = Cardinality(CountedFiles)
      BY <1>1, <2>2
    <2>5. QED
      BY <1>1, <2>3, <2>4, FS_Subset
  <1>6. QED
    BY <1>4, <1>5

\* A node more, or a header that is none.
LEMMA SeenGrows ==
    ASSUME archive \in Archives, ptr \in 1 .. Len(archive), ptr' = ptr + 1, archive' = archive
    PROVE  /\ Counted(ptr) => Seen' = Seen \cup {ptr} /\ ptr \notin Seen
           /\ ~ Counted(ptr) => Seen' = Seen
           /\ IsFiniteSet(Seen) /\ \A i \in Seen : i < ptr
  <1>1. Seen \subseteq DOMAIN archive
    BY ArchiveFacts DEF Seen
  <1>2. IsFiniteSet(Seen)
    BY <1>1, ArchiveFacts, FS_Subset
  <1>3. 1 .. ptr' - 1 = (1 .. ptr - 1) \cup {ptr}
    OBVIOUS
  <1>4. Seen' = {i \in (1 .. ptr - 1) \cup {ptr} : Counted(i)}
    BY <1>3 DEF Seen, Counted
  <1>5. QED
    BY <1>2, <1>4 DEF Seen

LEMMA InOrderAppend ==
    ASSUME NEW D, NEW s \in Seq(D), D \subseteq Nat, NEW S, InOrder(s, S), NEW p \in D,
           \A i \in S : i < p
    PROVE  InOrder(Append(s, p), S \cup {p})
  <1> DEFINE t == Append(s, p)
  <1>1. /\ Len(s) \in Nat /\ DOMAIN s = 1 .. Len(s) /\ DOMAIN t = 1 .. Len(s) + 1
        /\ t[Len(s) + 1] = p /\ \A i \in 1 .. Len(s) : t[i] = s[i]
    OBVIOUS
  <1> HIDE DEF t
  <1>2. \A i \in DOMAIN s : s[i] \in S
    BY DEF InOrder
  <1>3. {t[i] : i \in DOMAIN t} = S \cup {p}
    <2>1. DOMAIN t = DOMAIN s \cup {Len(s) + 1}
      BY <1>1
    <2>2. QED
      BY <1>1, <2>1 DEF InOrder
  <1>4. ASSUME NEW i \in DOMAIN t, NEW j \in DOMAIN t, i < j
        PROVE  t[i] < t[j]
    <2>1. i \in DOMAIN s /\ t[i] = s[i]
      BY <1>1, <1>4
    <2>2. CASE j \in DOMAIN s
      BY <1>1, <1>4, <2>1, <2>2 DEF InOrder
    <2>3. CASE j = Len(s) + 1
      BY <1>1, <1>2, <2>1, <2>3
    <2>4. QED
      BY <1>1, <2>2, <2>3
  <1>5. QED
    BY <1>3, <1>4 DEF InOrder, t

\* The part of the types that tarfs_init is about.
TarTypes ==
    /\ stage \in {"count", "fs_data", "table", "fill", "root", "mounted", "failed"}
    /\ num_files \in 0 .. Len(archive)
    /\ file_nodes \in Seq(DOMAIN archive)
    /\ ptr \in 1 .. Len(archive) + 1

LEMMA TablesFill ==
    ASSUME Tables, TarTypes, FillNode
    PROVE  Tables' /\ TarTypes'
  <1>1. /\ archive \in Archives /\ archive' = archive /\ stage' = stage /\ num_files' = num_files
        /\ stage = "fill" /\ ptr' = ptr + 1 /\ Counted(ptr) /\ refused \subseteq Nat
        /\ ptr <= Len(archive) /\ Len(file_nodes) < num_files
    BY DEF Tables, FillNode, Filling
  <1>2. /\ Len(archive) \in Nat /\ DOMAIN archive = 1 .. Len(archive) /\ DOMAIN archive \subseteq Nat
        /\ NodeSize \in Nat
    BY <1>1, ArchiveFacts, SizesAssumption
  <1>3. ptr \in 1 .. Len(archive) /\ ptr \in DOMAIN archive /\ ptr' \in 1 .. Len(archive) + 1
    BY <1>1, <1>2 DEF TarTypes
  <1>4. num_files = Cardinality(CountedFiles) /\ CountedFiles' = CountedFiles
    BY <1>1 DEF Tables, CountedFiles, Counted
  <1>5. CASE kmallocFails(NodeSize) /\ file_nodes' = file_nodes
    <2>1. NodeSize \in refused' /\ refused' \subseteq Nat
      BY <1>1, <1>2, <1>5 DEF kmallocFails
    <2>2. \E n \in refused' : n <= NodeSize
      BY <1>2, <2>1
    <2>3. TarTypes'
      BY <1>1, <1>3, <1>5 DEF TarTypes
    <2>4. QED
      BY <1>1, <1>4, <1>5, <2>1, <2>2, <2>3 DEF Tables, MountedComplete
  <1>6. CASE kmallocOK(NodeSize) /\ file_nodes' = Append(file_nodes, ptr)
    <2>1. refused' = refused /\ \A n \in refused : NodeSize < n
      BY <1>6 DEF kmallocOK
    <2>2. ~ \E n \in refused : n <= NodeSize
      BY <1>1, <1>2, <2>1
    <2>3. InOrder(file_nodes, Seen) /\ Len(file_nodes) = Cardinality(Seen)
      BY <1>1, <2>2 DEF Tables
    <2>4. /\ Seen' = Seen \cup {ptr} /\ ptr \notin Seen /\ IsFiniteSet(Seen)
          /\ \A i \in Seen : i < ptr
      BY <1>1, <1>3, SeenGrows
    <2>5. InOrder(file_nodes', Seen')
      <3>1. InOrder(Append(file_nodes, ptr), Seen \cup {ptr})
        BY <1>2, <1>3, <2>3, <2>4, InOrderAppend DEF TarTypes
      <3>2. QED
        BY <1>6, <2>4, <3>1 DEF InOrder
    <2>6. Len(file_nodes') = Len(file_nodes) + 1 /\ file_nodes' \in Seq(DOMAIN archive)
          /\ Len(file_nodes) \in Nat
      BY <1>3, <1>6 DEF TarTypes
    <2>7. Len(file_nodes') = Cardinality(Seen')
      <3>1. Cardinality(Seen \cup {ptr}) = Cardinality(Seen) + 1
        BY <2>4, FS_AddElement
      <3>2. QED
        BY <2>3, <2>4, <2>6, <3>1
    <2>8. Len(file_nodes') <= num_files
      BY <1>1, <2>6 DEF TarTypes
    <2>9. TarTypes'
      BY <1>1, <1>3, <2>6 DEF TarTypes
    <2>10. QED
      BY <1>1, <1>4, <2>1, <2>5, <2>7, <2>8, <2>9 DEF Tables, MountedComplete
  <1>7. QED
    BY <1>5, <1>6 DEF FillNode

LEMMA TablesSkip ==
    ASSUME Tables, TarTypes, SkipHeader
    PROVE  Tables' /\ TarTypes'
  <1>1. /\ archive \in Archives /\ stage = "fill" /\ ptr' = ptr + 1 /\ ~ Counted(ptr)
        /\ ptr <= Len(archive) /\ UNCHANGED <<archive, stage, num_files, file_nodes, refused>>
    BY DEF Tables, SkipHeader, Filling
  <1>2. Len(archive) \in Nat
    BY <1>1, ArchiveFacts
  <1>3. ptr \in 1 .. Len(archive) /\ ptr' \in 1 .. Len(archive) + 1
    BY <1>1, <1>2 DEF TarTypes
  <1>4. Seen' = Seen /\ CountedFiles' = CountedFiles
    BY <1>1, <1>3, SeenGrows DEF CountedFiles, Counted
  <1>5. InOrder(file_nodes, Seen)' = InOrder(file_nodes, Seen)
    BY <1>1, <1>4 DEF InOrder
  <1>6. TarTypes'
    BY <1>1, <1>3 DEF TarTypes
  <1>7. QED
    BY <1>1, <1>4, <1>5, <1>6 DEF Tables, MountedComplete

\* The root's node is allocated: no other was refused, the table has no hole.
LEMMA TablesRoot ==
    ASSUME Tables, TarTypes, AllocRoot
    PROVE  Tables' /\ TarTypes'
  <1>1. /\ archive \in Archives /\ stage = "root" /\ refused \subseteq Nat
        /\ UNCHANGED <<archive, num_files, file_nodes, ptr>>
    BY DEF Tables, AllocRoot
  <1>2. CountedFiles' = CountedFiles
    BY <1>1 DEF CountedFiles, Counted
  <1>3. TarTypes'
    BY <1>1 DEF TarTypes, AllocRoot
  <1>4. CASE refused' = {} /\ stage' = "failed"
    BY <1>1, <1>2, <1>3, <1>4 DEF Tables, MountedComplete
  <1>5. CASE kmallocOK(NodeSize) /\ stage' = "mounted"
    <2>1. refused' = refused /\ ~ \E n \in refused : n <= NodeSize
      BY <1>1, <1>5, SizesAssumption DEF kmallocOK
    <2>2. /\ InOrder(file_nodes, Seen) /\ Len(file_nodes) = Cardinality(Seen)
          /\ num_files = Cardinality(CountedFiles) /\ Len(file_nodes) <= num_files
          /\ ptr > Len(archive) \/ Len(file_nodes) = num_files
      BY <1>1, <2>1 DEF Tables
    <2>3. Seen = CountedFiles
      BY <1>1, <2>2, CountReached DEF TarTypes
    <2>4. MountedComplete'
      BY <1>1, <1>2, <2>2, <2>3 DEF MountedComplete, InOrder
    <2>5. QED
      BY <1>1, <1>2, <1>3, <1>5, <2>1, <2>2, <2>4 DEF Tables
  <1>6. QED
    BY <1>4, <1>5 DEF AllocRoot

LEMMA TablesNext ==
    ASSUME Tables, TarTypes, tarfs_init
    PROVE  Tables' /\ TarTypes' /\ archive' = archive /\ stage # "mounted"
  <1>1. archive \in Archives /\ archive' = archive /\ stage # "mounted" /\ CountedFiles' = CountedFiles
    <2>1. archive' = archive
      BY DEF tarfs_init, CountFiles, AllocFsData, AllocTable, FillNode, SkipHeader, FillEnds, AllocRoot
    <2>2. stage # "mounted"
      BY DEF tarfs_init, CountFiles, AllocFsData, AllocTable, FillNode, SkipHeader, FillEnds,
             AllocRoot, Filling
    <2>3. QED
      BY <2>1, <2>2 DEF Tables, CountedFiles, Counted
  <1>2. /\ Len(archive) \in Nat /\ DOMAIN archive = 1 .. Len(archive)
        /\ Cardinality(CountedFiles) \in 0 .. Len(archive)
        /\ FsDataSize \in Nat
    BY <1>1, ArchiveFacts, SizesAssumption
  <1>3. CASE CountFiles
    <2>1. TarTypes'
      BY <1>1, <1>2, <1>3 DEF TarTypes, CountFiles
    <2>2. QED
      BY <1>1, <1>3, <2>1 DEF Tables, CountFiles, MountedComplete
  <1>4. CASE AllocFsData
    <2>1. TarTypes'
      BY <1>1, <1>4 DEF TarTypes, AllocFsData
    <2>2. refused' \subseteq Nat
      BY <1>2, <1>4 DEF AllocFsData, kmallocOK, kmallocFails, Tables
    <2>3. QED
      BY <1>1, <1>4, <2>1, <2>2 DEF Tables, AllocFsData, MountedComplete
  <1>5. CASE AllocTable
    <2>1. TarTypes'
      BY <1>1, <1>5 DEF TarTypes, AllocTable
    <2>2. refused' \subseteq Nat
      BY <1>5 DEF AllocTable, kmallocOK, Tables
    <2>3. stage' = "fill" => /\ file_nodes' = << >> /\ Len(file_nodes') = 0 /\ num_files' >= 0
                             /\ Seen' = {} /\ InOrder(file_nodes', Seen') /\ Cardinality(Seen') = 0
      <3>1. stage' = "fill" => file_nodes' = << >> /\ ptr' = 1 /\ num_files' = num_files
        BY <1>5 DEF AllocTable, Tables
      <3>2. ptr' = 1 => Seen' = {}
        BY DEF Seen
      <3>3. InOrder(<< >>, {}) /\ Cardinality({}) = 0
        BY FS_EmptySet DEF InOrder
      <3>4. Len(<< >>) = 0 /\ num_files >= 0
        BY <1>2 DEF TarTypes
      <3>5. QED
        BY <3>1, <3>2, <3>3, <3>4
    <2>4. QED
      BY <1>1, <1>5, <2>1, <2>2, <2>3 DEF Tables, AllocTable, MountedComplete
  <1>6. CASE FillEnds
    <2>1. /\ stage = "fill" /\ stage' = "root" /\ UNCHANGED <<archive, num_files, file_nodes, ptr, refused>>
      BY <1>6 DEF FillEnds
    <2>2. TarTypes' /\ Len(file_nodes) \in Nat
      BY <2>1 DEF TarTypes
    <2>3. ptr > Len(archive) \/ Len(file_nodes) = num_files
      BY <1>2, <1>6, <2>1, <2>2 DEF FillEnds, Filling, Tables, TarTypes
    <2>4. Seen' = Seen
      BY <2>1 DEF Seen, Counted
    <2>5. InOrder(file_nodes, Seen)' = InOrder(file_nodes, Seen)
      BY <2>1, <2>4 DEF InOrder
    <2>6. QED
      BY <1>1, <2>1, <2>2, <2>3, <2>4, <2>5 DEF Tables, MountedComplete
  <1>7. QED
    BY <1>1, <1>3, <1>4, <1>5, <1>6, TablesFill, TablesSkip, TablesRoot DEF tarfs_init

-----------------------------------------------------------------------------
\* The operations on a descriptor: the others stay.
Files == [FDs -> [used : BOOLEAN, node : Nodes \cup {NULL}, position : 0 .. PosMod - 1]]
OnlyAt(fd) ==
    /\ file_descriptors' \in Files
    /\ \A other \in FDs \ {fd} : file_descriptors'[other] = file_descriptors[other]

LEMMA FieldsSet ==
    ASSUME file_descriptors \in Files, NEW fd \in FDs,
           NEW file \in [used : BOOLEAN, node : Nodes \cup {NULL}, position : 0 .. PosMod - 1],
           file_descriptors' = [file_descriptors EXCEPT ![fd] = file]
    PROVE  OnlyAt(fd) /\ file_descriptors'[fd] = file
  BY DEF OnlyAt, Files

LEMMA ModPosition ==
    ASSUME NEW x \in Int
    PROVE  x % PosMod \in 0 .. PosMod - 1
  BY VfsAssumption

LEMMA NodeSizes ==
    ASSUME archive \in Archives, NEW node \in Nodes
    PROVE  /\ Size(node) \in Nat /\ node # NULL
           /\ node # ROOT => \A n \in Reads \cup {Chunk} : Size(node) + n < PosMod
  <1>1. CASE node = ROOT
    BY <1>1 DEF Size, Text, ROOT, NULL
  <1>2. CASE node # ROOT
    <2>1. node \in DOMAIN archive /\ node \in Nat /\ Size(node) = Len(archive[node].text)
          /\ archive[node].text \in Seq(Nat)
      BY <1>2, ArchiveFacts DEF Nodes, Size, Text
    <2>2. Len(archive[node].text) \in Nat
      BY <2>1
    <2>3. \A n \in Reads \cup {Chunk} : Len(archive[node].text) + n < PosMod
      BY <2>1, VfsAssumption
    <2>4. QED
      BY <2>1, <2>2, <2>3 DEF NULL
  <1>3. QED
    BY <1>1, <1>2

LEMMA OpenFacts ==
    ASSUME TypeOK, NEW path \in Paths, NEW fd, vfs_open(fd, path)
    PROVE  /\ fd \in FDs /\ ~ file_descriptors[fd].used /\ OnlyAt(fd) /\ stage = "mounted"
           /\ file_descriptors'[fd].used /\ file_descriptors'[fd].node \in Nodes
           /\ file_descriptors'[fd].position = 0
  <1> DEFINE node == vfs_get_node(path)
             file == [used |-> TRUE, node |-> node, position |-> 0]
  <1>1. node \in Nodes /\ stage = "mounted"
    BY NodeOfPath DEF vfs_open
  <1>2. fd \in FDs /\ ~ file_descriptors[fd].used
    BY DEF vfs_open, FreeFD
  <1>3. file_descriptors' = [file_descriptors EXCEPT ![fd] = file]
    BY DEF vfs_open
  <1> HIDE DEF node
  <1>4. file \in [used : BOOLEAN, node : Nodes \cup {NULL}, position : 0 .. PosMod - 1]
    BY <1>1, VfsAssumption
  <1>5. file_descriptors \in Files
    BY DEF TypeOK, Files
  <1>6. OnlyAt(fd) /\ file_descriptors'[fd] = file
    BY <1>2, <1>3, <1>4, <1>5, FieldsSet
  <1>7. QED
    BY <1>1, <1>2, <1>6

LEMMA CloseFacts ==
    ASSUME TypeOK, NEW fd \in FDs, vfs_close(fd)
    PROVE  OnlyAt(fd) /\ ~ file_descriptors'[fd].used
  <1> DEFINE f == [file_descriptors EXCEPT ![fd].used = FALSE]
             g == [f EXCEPT ![fd].node = NULL]
  <1>1. file_descriptors \in Files
    BY DEF TypeOK, Files
  <1>2. /\ f \in Files /\ f[fd].used = FALSE
        /\ \A other \in FDs \ {fd} : f[other] = file_descriptors[other]
    BY <1>1 DEF Files
  <1>3. file_descriptors' = g
    BY DEF vfs_close
  <1> HIDE DEF f
  <1>4. g \in Files /\ g[fd].used = FALSE /\ \A other \in FDs \ {fd} : g[other] = f[other]
    BY <1>2 DEF Files
  <1>5. QED
    BY <1>2, <1>3, <1>4 DEF OnlyAt

\* A new position, and nothing else.
LEMMA MoveFacts ==
    ASSUME TypeOK, NEW fd \in FDs, NEW p \in 0 .. PosMod - 1,
           file_descriptors' = [file_descriptors EXCEPT ![fd].position = p]
    PROVE  /\ OnlyAt(fd) /\ file_descriptors'[fd].position = p
           /\ file_descriptors'[fd].used = file_descriptors[fd].used
           /\ file_descriptors'[fd].node = file_descriptors[fd].node
  <1> DEFINE old == file_descriptors[fd]
             file == [used |-> old.used, node |-> old.node, position |-> p]
  <1>1. file_descriptors \in Files /\ file_descriptors[fd] \in
           [used : BOOLEAN, node : Nodes \cup {NULL}, position : 0 .. PosMod - 1]
    BY DEF TypeOK, Files
  <1>2. file \in [used : BOOLEAN, node : Nodes \cup {NULL}, position : 0 .. PosMod - 1]
    BY <1>1
  <1>3. file_descriptors' = [file_descriptors EXCEPT ![fd] = file]
    <2>1. [old EXCEPT !.position = p] = file
      BY <1>1
    <2>2. QED
      BY <2>1
  <1>4. OnlyAt(fd) /\ file_descriptors'[fd] = file
    BY <1>1, <1>2, <1>3, FieldsSet
  <1>5. QED
    BY <1>4

LEMMA ReadFacts ==
    ASSUME TypeOK, NEW fd \in FDs, NEW size \in Int, NEW n \in Int, vfs_read(fd, size, n)
    PROVE  /\ OnlyAt(fd)
           /\ file_descriptors'[fd].used = file_descriptors[fd].used
           /\ file_descriptors'[fd].node = file_descriptors[fd].node
           /\ file_descriptors'[fd].position =
                 IF n > 0 THEN (file_descriptors[fd].position + n) % PosMod
                 ELSE file_descriptors[fd].position
  <1>1. file_descriptors[fd].position \in Int /\ file_descriptors \in Files
    BY DEF TypeOK, Files
  <1>2. CASE n > 0
    <2>1. (file_descriptors[fd].position + n) % PosMod \in 0 .. PosMod - 1
      BY <1>1, ModPosition
    <2>2. file_descriptors' = [file_descriptors EXCEPT ![fd].position =
                                  (file_descriptors[fd].position + n) % PosMod]
      BY <1>2 DEF vfs_read
    <2>3. QED
      BY <1>2, <2>1, <2>2, MoveFacts
  <1>3. CASE ~ (n > 0)
    <2>1. file_descriptors' = file_descriptors
      BY <1>3 DEF vfs_read
    <2>2. OnlyAt(fd)
      BY <1>1, <2>1 DEF OnlyAt
    <2>3. QED
      BY <1>3, <2>1, <2>2
  <1>4. QED
    BY <1>2, <1>3

\* What a read of cat's returns: bytes up to the end of the file, or none at it.
LEMMA ReadToEnd ==
    ASSUME archive \in Archives, NEW node \in Nodes, NEW pos \in 0 .. Size(node), NEW n,
           n = BytesRead(node, pos, Chunk)
    PROVE  /\ n > 0 => /\ n \in Nat /\ pos + n \in 0 .. Size(node) /\ (pos + n) % PosMod = pos + n
                       /\ n = Chunk \/ pos + n = Size(node)
           /\ ~ (n > 0) => pos = Size(node)
  <1>1. Size(node) \in Nat /\ Chunk \in Nat \ {0} /\ PosMod \in Nat \ {0} /\ pos \in Nat
    BY NodeSizes, VfsAssumption
  <1>2. CASE node = ROOT
    <2>1. n = -1 /\ Size(node) = 0
      BY <1>2 DEF BytesRead, Size, Text
    <2>2. QED
      BY <1>1, <2>1
  <1>3. CASE node # ROOT /\ pos >= Size(node)
    <2>1. n = 0 /\ pos = Size(node)
      BY <1>1, <1>3 DEF BytesRead
    <2>2. QED
      BY <1>1, <2>1
  <1>4. CASE node # ROOT /\ ~ (pos >= Size(node))
    <2>1. Size(node) + Chunk < PosMod
      BY <1>4, NodeSizes
    <2>2. ASSUME NEW x \in Nat, x < PosMod PROVE x % PosMod = x
      BY <1>1, <2>2
    <2>3. pos + Chunk \in Nat /\ pos + Chunk < PosMod
      BY <1>1, <1>4, <2>1
    <2>4. (pos + Chunk) % PosMod = pos + Chunk
      BY <2>2, <2>3
    <2>5. n = IF pos + Chunk > Size(node) THEN Size(node) - pos ELSE Chunk
      BY <1>4, <2>4 DEF BytesRead
    <2>6. /\ n \in Nat /\ n > 0 /\ pos + n \in 0 .. Size(node) /\ pos + n \in Nat /\ pos + n < PosMod
          /\ n = Chunk \/ pos + n = Size(node)
      BY <1>1, <1>4, <2>1, <2>5
    <2>7. QED
      BY <2>2, <2>6
  <1>5. QED
    BY <1>2, <1>3, <1>4

\* The console shows no more than a read's bytes, and all if none of them is NUL.
LEMMA Written ==
    ASSUME archive \in Archives, NEW node \in Nodes, NEW from \in Nat, NEW n \in Nat,
           from + n <= Size(node)
    PROVE  LET w == fb_console_write(node, from, n)
           IN  /\ w \in Seq(Nat \cup {Wrong})
               /\ ~ HasNul(node) =>
                     /\ Len(w) = n
                     /\ \A i \in 1 .. n :
                           \/ w[i] = from + i - 1
                           \/ w[i] = Wrong /\ \E m \in {from, from + n} : CutAt(node, m, from + i)
  <1> DEFINE Ends(k) == /\ \A i \in 1 .. k : Text(node)[from + i] # NUL
                        /\ k = n \/ Text(node)[from + k + 1] = NUL
             Nuls == {i \in 1 .. n : Text(node)[from + i] = NUL}
             k == BeforeNul(node, from, n)
             w == fb_console_write(node, from, n)
  <1>1. \E j \in 0 .. n : Ends(j)
    <2>1. CASE Nuls = {}
      <3>1. Ends(n) /\ n \in 0 .. n
        <4>1. \A i \in 1 .. n : i \notin Nuls
          BY <2>1
        <4>2. QED
          BY <4>1
      <3> HIDE DEF Ends
      <3>2. QED
        BY <3>1
    <2>2. CASE Nuls # {}
      <3>1. PICK i \in Nuls : \A j \in Nuls : i <= j
        <4>1. Nuls \subseteq Nat
          OBVIOUS
        <4> HIDE DEF Nuls
        <4>2. QED
          BY <2>2, <4>1, LeastNumber
      <3>2. i - 1 \in 0 .. n /\ from + (i - 1) + 1 = from + i
        OBVIOUS
      <3>3. \A j \in 1 .. i - 1 : j \in 1 .. n /\ j \notin Nuls
        BY <3>1
      <3>4. Ends(i - 1)
        BY <3>2, <3>3
      <3> HIDE DEF Ends
      <3>5. QED
        BY <3>2, <3>4
    <2>3. QED
      BY <2>1, <2>2
  <1>2. k \in 0 .. n /\ Ends(k)
    BY <1>1 DEF BeforeNul
  <1> HIDE DEF k
  <1>3. w = [i \in 1 .. k |->
               IF \E m \in {from, from + n} : CutAt(node, m, from + i) THEN Wrong ELSE from + i - 1]
    BY DEF fb_console_write, k
  <1>4. \A i \in 1 .. k : from + i - 1 \in Nat
    OBVIOUS
  <1>5. w \in Seq(Nat \cup {Wrong}) /\ Len(w) = k
    BY <1>2, <1>3, <1>4
  <1>6. ASSUME ~ HasNul(node) PROVE k = n
    <2>1. k # n => from + k + 1 \in 1 .. Size(node) /\ Text(node)[from + k + 1] = NUL
      BY <1>2, NodeSizes
    <2>2. QED
      BY <1>6, <2>1 DEF HasNul
  <1> HIDE DEF w
  <1>7. QED
    BY <1>3, <1>5, <1>6 DEF w

\* Where a read of cat's begins or ends within the file is a multiple of its size.
LEMMA CutsTear ==
    ASSUME archive \in Archives, NEW node \in Nodes, NEW pos \in 0 .. Size(node),
           AtPiece(node, pos), NEW n \in Nat, n > 0, n = Chunk \/ pos + n = Size(node),
           pos + n <= Size(node)
    PROVE  /\ AtPiece(node, pos + n)
           /\ \A i : \A m \in {pos, pos + n} : CutAt(node, m, i) => Torn(node, i)
  <1>1. Size(node) \in Nat /\ Chunk \in Nat \ {0} /\ pos \in Nat
    BY NodeSizes, VfsAssumption
  <1>2. ASSUME NEW k \in Nat, pos = k * Chunk
        PROVE  pos + Chunk = (k + 1) * Chunk
    BY <1>1, <1>2
  <1>3. AtPiece(node, pos + n)
    <2>1. CASE pos + n = Size(node)
      BY <2>1 DEF AtPiece
    <2>2. CASE n = Chunk
      <3>1. pos # Size(node)
        BY <1>1
      <3>2. PICK k \in Nat : pos = k * Chunk
        BY <3>1 DEF AtPiece
      <3>3. k + 1 \in Nat /\ pos + n = (k + 1) * Chunk
        BY <1>2, <2>2, <3>2
      <3>4. QED
        BY <3>3 DEF AtPiece
    <2>3. QED
      BY <2>1, <2>2
  <1>4. ASSUME NEW i, NEW m \in {pos, pos + n}, CutAt(node, m, i)
        PROVE  Torn(node, i)
    <2>1. m \in 1 .. Size(node) - 1
      BY <1>4 DEF CutAt
    <2>2. AtPiece(node, m)
      BY <1>3
    <2>3. PICK k \in Nat : m = k * Chunk
      BY <1>1, <2>1, <2>2 DEF AtPiece
    <2>4. k # 0 /\ k <= k * Chunk
      BY <1>1, <2>1, <2>3
    <2>5. k \in 1 .. Size(node)
      BY <1>1, <2>1, <2>3, <2>4
    <2>6. QED
      BY <1>4, <2>3, <2>5 DEF Torn
  <1>5. QED
    BY <1>3, <1>4

\* So a read adds to what is shown of a text without NULs the bytes it returns.
LEMMA ShownMore ==
    ASSUME archive \in Archives, NEW node \in Nodes, NEW pos \in 0 .. Size(node),
           AtPiece(node, pos), NEW n \in Nat, n > 0, n = Chunk \/ pos + n = Size(node),
           pos + n <= Size(node), ~ HasNul(node),
           NEW s \in Seq(Nat \cup {Wrong}), Shown(node, pos, s)
    PROVE  Shown(node, pos + n, s \o fb_console_write(node, pos, n))
  <1> DEFINE w == fb_console_write(node, pos, n)
             t == s \o w
  <1>1. pos \in Nat /\ Len(s) = pos
    BY DEF Shown
  <1>2. /\ w \in Seq(Nat \cup {Wrong}) /\ Len(w) = n
        /\ \A i \in 1 .. n : \/ w[i] = pos + i - 1
                             \/ w[i] = Wrong /\ Torn(node, pos + i)
    BY <1>1, Written, CutsTear
  <1> HIDE DEF w
  <1>3. /\ Len(t) = pos + n
        /\ \A i \in 1 .. pos + n : t[i] = IF i <= pos THEN s[i] ELSE w[i - pos]
    BY <1>1, <1>2, ConcatProperties
  <1>4. ASSUME NEW i \in 1 .. pos + n
        PROVE  t[i] = i - 1 \/ (t[i] = Wrong /\ Torn(node, i))
    <2>1. CASE i <= pos
      <3>1. t[i] = s[i] /\ i \in 1 .. pos
        BY <1>1, <1>3, <2>1
      <3>2. QED
        BY <3>1 DEF Shown
    <2>2. CASE ~ (i <= pos)
      <3>1. PICK j \in 1 .. n : pos + j = i
        <4>1. i - pos \in 1 .. n /\ pos + (i - pos) = i
          BY <1>1, <2>2
        <4>2. QED
          BY <4>1
      <3>2. t[i] = w[j]
        <4>1. i - pos = j
          BY <1>1, <3>1
        <4>2. QED
          BY <1>3, <2>2, <4>1
      <3>3. w[j] = pos + j - 1 \/ (w[j] = Wrong /\ Torn(node, pos + j))
        BY <1>2
      <3> HIDE DEF t
      <3>4. QED
        BY <3>1, <3>2, <3>3
    <2>3. QED
      BY <2>1, <2>2
  <1> HIDE DEF t
  <1>5. Shown(node, pos + n, t)
    BY <1>3, <1>4 DEF Shown
  <1>6. QED
    BY <1>5 DEF t, w

-----------------------------------------------------------------------------
\* The invariant, step by step.
Used == {fd \in FDs : file_descriptors[fd].used}

LEMMA InvFacts ==
    ASSUME Inv
    PROVE  /\ TypeOK /\ TarTypes /\ Tables /\ Running /\ archive \in Archives
           /\ file_descriptors \in Files /\ held \subseteq FDs
           /\ Used = held \cup OfCat /\ held \cap OfCat = {}
           /\ \A fd \in held \cup OfCat : file_descriptors[fd].node \in Nodes
           /\ current_dir \in Nodes \cup {NULL}
  <1>1. /\ TypeOK /\ Used = held \cup OfCat /\ held \cap OfCat = {}
        /\ \A fd \in held \cup OfCat : file_descriptors[fd].node # NULL
    BY DEF Inv, DescriptorsAccounted, OfCat, Used
  <1>2. file_descriptors \in Files
    BY <1>1 DEF TypeOK, Files
  <1>3. \A fd \in held \cup OfCat : file_descriptors[fd].node \in Nodes
    <2>1. \A fd \in held \cup OfCat : fd \in FDs
      BY <1>1 DEF Used
    <2>2. QED
      BY <1>1, <1>2, <2>1 DEF Files
  <1>4. QED
    BY <1>1, <1>2, <1>3 DEF Inv, TypeOK, TarTypes, Tables

\* Steps that leave tarfs alone.
LEMMA Framed ==
    ASSUME Inv, UNCHANGED tarVars,
           current_dir' \in Nodes \cup {NULL}, file_descriptors' \in Files, held' \subseteq FDs,
           command'.stage \in {"idle", "listing", "listed", "reading", "read"},
           Used' = held' \cup OfCat', held' \cap OfCat' = {},
           \A fd \in held' \cup OfCat' : file_descriptors'[fd].node # NULL,
           Running', CwdIsDirectory', current_dir' # NULL => stage = "mounted"
    PROVE  Inv'
  <1>1. UNCHANGED <<archive, stage, num_files, file_nodes, ptr, refused>>
    BY DEF tarVars
  <1>2. Nodes' = Nodes /\ CountedFiles' = CountedFiles /\ Seen' = Seen
    BY <1>1 DEF Nodes, CountedFiles, Seen, Counted
  <1>3. TypeOK'
    BY <1>1, <1>2, InvFacts DEF TypeOK, TarTypes, Files
  <1>4. Tables'
    BY <1>1, <1>2 DEF Inv, Tables, MountedComplete
  <1>5. DescriptorsAccounted'
    BY <1>3 DEF DescriptorsAccounted, OfCat, Used
  <1>6. QED
    BY <1>1, <1>4, <1>5 DEF Inv

LEMMA CommandKinds ==
    /\ command = NoCommand => command.stage = "idle" /\ OfCat = {}
    /\ command \in Listings => command.stage \in {"listing", "listed"} /\ OfCat = {}
    /\ command \in Readings =>
          command.stage \in {"reading", "read"} /\ OfCat = {command.fd} /\ command.fd \in FDs
  BY DEF NoCommand, Listings, Readings, OfCat

\* What cat has shown is of the archive and its descriptor alone.
LEMMA TextStays ==
    ASSUME archive' = archive
    PROVE  \A node : Text(node)' = Text(node) /\ Size(node)' = Size(node)
  BY DEF Text, Size

LEMMA ShownStays ==
    ASSUME archive' = archive
    PROVE  \A node, pos, printed :
              /\ HasNul(node)' <=> HasNul(node)
              /\ AtPiece(node, pos)' <=> AtPiece(node, pos)
              /\ Shown(node, pos, printed)' <=> Shown(node, pos, printed)
  BY TextStays DEF HasNul, AtPiece, Shown, Torn, CutAt

LEMMA PrintedStays ==
    ASSUME PrintedSoFar, UNCHANGED <<archive, file_descriptors, command>>
    PROVE  PrintedSoFar'
  BY TextStays, ShownStays DEF PrintedSoFar, Readings

LEMMA InitInv == Init => Inv
  <1> SUFFICES ASSUME Init PROVE Inv
    OBVIOUS
  <1>1. archive \in Archives /\ stage = "count" /\ num_files = 0 /\ file_nodes = << >> /\ ptr = 1
        /\ refused = {} /\ current_dir = NULL /\ file_descriptors = [fd \in FDs |-> Unused]
        /\ command = NoCommand /\ held = {}
    BY DEF Init, TarInit
  <1>2. Len(archive) \in Nat
    BY <1>1, ArchiveFacts
  <1>3. OfCat = {} /\ command.stage = "idle"
    BY <1>1, CommandKinds
  <1>4. Unused \in [used : BOOLEAN, node : Nodes \cup {NULL}, position : 0 .. PosMod - 1]
    BY VfsAssumption DEF Unused
  <1>5. TypeOK
    BY <1>1, <1>2, <1>3, <1>4 DEF TypeOK
  <1>6. DescriptorsAccounted
    BY <1>1, <1>3, <1>5 DEF DescriptorsAccounted, Unused
  <1>7. Tables
    BY <1>1 DEF Tables, MountedComplete
  <1>8. QED
    BY <1>1, <1>6, <1>7 DEF Inv, Running, CwdIsDirectory

LEMMA InvBoot ==
    ASSUME Inv, Boot
    PROVE  Inv'
  <1>1. /\ Tables /\ TarTypes /\ tarfs_init /\ UNCHANGED <<file_descriptors, command, held>>
        /\ current_dir' = IF stage' = "mounted" THEN ROOT ELSE current_dir
    BY InvFacts DEF Boot
  <1>2. Tables' /\ TarTypes' /\ archive' = archive /\ stage # "mounted"
    BY <1>1, TablesNext
  <1>3. Nodes' = Nodes
    BY <1>2 DEF Nodes
  <1>4. ROOT \in Nodes
    BY DEF Nodes
  <1>5. TypeOK'
    BY <1>1, <1>2, <1>3, <1>4, InvFacts DEF TypeOK, TarTypes
  <1>6. DescriptorsAccounted'
    BY <1>1, <1>5 DEF DescriptorsAccounted, Inv
  <1>7. Running'
    <2>1. ~ ListedSoFar
      BY <1>2 DEF ListedSoFar
    <2>2. PrintedSoFar => PrintedSoFar'
      BY <1>1, <1>2, PrintedStays
    <2>3. QED
      BY <1>1, <2>1, <2>2 DEF Inv, Running
  <1>8. current_dir = NULL
    BY <1>2 DEF Inv
  <1>9. QED
    BY <1>1, <1>2, <1>6, <1>7, <1>8 DEF Inv, CwdIsDirectory, Type, ROOT, NULL

\* The steps of ls change nothing but the command.
LEMMA InvListing ==
    ASSUME Inv, UNCHANGED <<tarVars, current_dir, file_descriptors, held>>,
           OfCat = {}, command' = NoCommand \/ ListedSoFar'
    PROVE  Inv'
  <1>1. command' = NoCommand \/ command' \in Listings'
    BY DEF ListedSoFar
  <1>2. command'.stage \in {"idle", "listing", "listed"} /\ OfCat' = {}
    BY <1>1 DEF NoCommand, Listings, OfCat
  <1>3. Running'
    BY DEF Running
  <1>4. CwdIsDirectory'
    BY DEF Inv, CwdIsDirectory, tarVars, Type
  <1>5. Used' = Used
    BY DEF Used
  <1>6. /\ current_dir' \in Nodes \cup {NULL} /\ file_descriptors' \in Files /\ held' \subseteq FDs
        /\ Used' = held' \cup OfCat' /\ held' \cap OfCat' = {}
        /\ current_dir' # NULL => stage = "mounted"
    BY <1>2, <1>5, InvFacts DEF Inv
  <1>7. \A fd \in held' \cup OfCat' : file_descriptors'[fd].node # NULL
    BY <1>2, InvFacts, NodeSizes
  <1>8. QED
    BY <1>2, <1>3, <1>4, <1>6, <1>7, Framed

LEMMA InvLsOpen ==
    ASSUME Inv, LsOpen
    PROVE  Inv'
  <1>1. /\ command = NoCommand /\ UNCHANGED <<tarVars, current_dir, file_descriptors, held>>
    BY DEF LsOpen, Idle
  <1>2. PICK dir \in {current_dir} \cup {vfs_get_node(path) : path \in Paths} :
            dir # NULL /\ command' = [stage |-> "listing", dir |-> dir, listed |-> << >>]
    BY DEF LsOpen
  <1>3. dir \in Nodes /\ stage = "mounted"
    BY <1>2, InvFacts, NodeOfPath DEF Inv
  <1>4. UNCHANGED <<archive, stage, num_files, file_nodes>>
    BY <1>1 DEF tarVars
  <1>5. num_files >= 0
    <2>1. Len(archive) \in Nat /\ num_files \in 0 .. Len(archive)
      BY InvFacts, ArchiveFacts DEF TarTypes
    <2>2. QED
      BY <2>1
  <1>6. command' \in Listings' /\ Len(command'.listed) = 0 /\ command'.listed = << >>
        /\ command'.stage = "listing"
    BY <1>2, <1>3, <1>4 DEF Listings, Nodes
  <1>7. ListedSoFar'
    BY <1>3, <1>4, <1>5, <1>6 DEF ListedSoFar
  <1>8. QED
    BY <1>1, <1>7, InvListing, CommandKinds

LEMMA InvLsStep ==
    ASSUME Inv, LsStep
    PROVE  Inv'
  <1> DEFINE s == command.listed
             node == tarfs_readdir(command.dir, Len(s))
  <1>1. UNCHANGED <<tarVars, current_dir, file_descriptors, held>> /\ command.stage = "listing"
    BY DEF LsStep
  <1>2. UNCHANGED <<archive, stage, num_files, file_nodes>>
    BY <1>1 DEF tarVars
  <1>3. ListedSoFar
    BY <1>1, InvFacts DEF Running, PrintedSoFar, Readings, NoCommand
  <1>4. /\ command \in Listings /\ s \in Seq(DOMAIN archive) /\ Len(s) \in Nat
        /\ Len(s) <= num_files /\ stage = "mounted" /\ num_files \in Nat
    <2>1. Len(archive) \in Nat /\ num_files \in 0 .. Len(archive)
      BY InvFacts, ArchiveFacts DEF TarTypes
    <2>2. QED
      BY <1>3, <2>1 DEF ListedSoFar, Listings
  <1>5. Len(file_nodes) = num_files /\ file_nodes \in Seq(DOMAIN archive) /\ DOMAIN archive \subseteq Nat \ {0}
    BY <1>4, InvFacts, ArchiveFacts DEF Tables, MountedComplete, TarTypes
  <1>6. CASE command.dir = ROOT /\ Len(s) < num_files
    <2>1. node = file_nodes[Len(s) + 1] /\ node \in DOMAIN archive /\ node # NULL
      BY <1>4, <1>5, <1>6 DEF tarfs_readdir, NULL
    <2>2. command' = [command EXCEPT !.listed = Append(s, node)]
      BY <2>1 DEF LsStep
    <2> HIDE DEF node
    <2>3. /\ command' \in Listings /\ command'.listed = Append(s, node)
          /\ command'.dir = ROOT /\ command'.stage = "listing"
      <3> DEFINE t == Append(s, node)
      <3>1. t \in Seq(DOMAIN archive)
        BY <1>4, <2>1
      <3> HIDE DEF t
      <3>2. command' = [command EXCEPT !.listed = t]
        BY <2>2 DEF t
      <3>3. /\ command' \in Listings /\ command'.listed = t
            /\ command'.dir = command.dir /\ command'.stage = command.stage
        BY <1>4, <3>1, <3>2 DEF Listings
      <3>4. QED
        BY <1>1, <1>6, <3>3 DEF t
    <2>4. /\ Len(Append(s, node)) = Len(s) + 1
          /\ \A i \in DOMAIN Append(s, node) : Append(s, node)[i] = file_nodes[i]
      <3>1. \A i \in 1 .. Len(s) : Append(s, node)[i] = s[i] /\ s[i] = file_nodes[i]
        BY <1>3, <1>4 DEF ListedSoFar
      <3>2. /\ Len(Append(s, node)) = Len(s) + 1 /\ Append(s, node)[Len(s) + 1] = node
            /\ DOMAIN Append(s, node) = 1 .. Len(s) + 1
        BY <1>4
      <3>3. QED
        BY <1>4, <2>1, <3>1, <3>2
    <2>5. Listings' = Listings
      BY <1>2 DEF Listings, Nodes
    <2>6. ListedSoFar'
      BY <1>2, <1>4, <1>6, <2>3, <2>4, <2>5 DEF ListedSoFar
    <2>7. QED
      BY <1>1, <1>4, <2>6, InvListing, CommandKinds
  <1>7. CASE ~ (command.dir = ROOT /\ Len(s) < num_files)
    <2>1. node = NULL
      BY <1>7 DEF tarfs_readdir
    <2>2. command' = [command EXCEPT !.stage = "listed"]
      BY <2>1 DEF LsStep
    <2>3. /\ command' \in Listings /\ command'.listed = s
          /\ command'.dir = command.dir /\ command'.stage = "listed"
      BY <1>4, <2>2 DEF Listings
    <2>4. Listings' = Listings
      BY <1>2 DEF Listings, Nodes
    <2>5. command.dir = ROOT => Len(s) = num_files
      BY <1>4, <1>7
    <2>6. ListedSoFar'
      BY <1>2, <1>3, <2>3, <2>4, <2>5 DEF ListedSoFar
    <2>7. QED
      BY <1>1, <1>4, <2>6, InvListing, CommandKinds
  <1>8. QED
    BY <1>6, <1>7

LEMMA InvLsEnd ==
    ASSUME Inv, LsEnd
    PROVE  Inv'
  <1>1. OfCat = {} /\ command' = NoCommand
    BY DEF LsEnd, OfCat
  <1>2. QED
    BY <1>1, InvListing DEF LsEnd

LEMMA InvCatOpen ==
    ASSUME Inv, CatOpen
    PROVE  Inv'
  <1>1. command = NoCommand /\ UNCHANGED <<tarVars, current_dir, held>> /\ OfCat = {}
    BY CommandKinds DEF CatOpen, Idle
  <1>2. PICK path \in Paths, fd \in FDs :
            /\ vfs_open(fd, path)
            /\ command' = [stage |-> "reading", fd |-> fd, printed |-> << >>]
    BY DEF CatOpen
  <1>3. /\ ~ file_descriptors[fd].used /\ OnlyAt(fd) /\ stage = "mounted"
        /\ file_descriptors'[fd].used /\ file_descriptors'[fd].node \in Nodes
        /\ file_descriptors'[fd].position = 0
    BY <1>2, InvFacts, OpenFacts
  <1>4. /\ command' \in Readings /\ command'.fd = fd /\ command'.stage = "reading"
        /\ Len(command'.printed) = 0 /\ command'.printed = << >> /\ OfCat' = {fd}
    BY <1>2 DEF Readings, OfCat
  <1>5. Used' = Used \cup {fd}
    BY <1>3 DEF Used, OnlyAt
  <1>6. fd \notin Used /\ held \subseteq Used
    BY <1>1, <1>3, InvFacts DEF Used
  <1>7. \A other \in held : file_descriptors'[other] = file_descriptors[other]
    BY <1>3, <1>6, InvFacts DEF OnlyAt
  <1>8. \A other \in held \cup {fd} : file_descriptors'[other].node # NULL
    BY <1>3, <1>7, InvFacts, NodeSizes
  <1>9. archive' = archive /\ archive \in Archives /\ Readings' = Readings
    BY <1>1, InvFacts DEF tarVars, Readings
  <1>10. PrintedSoFar'
    <2>1. PICK node \in Nodes : file_descriptors'[fd].node = node
      BY <1>3
    <2>2. Size(node) \in Nat
      BY <1>9, NodeSizes
    <2>3. AtPiece(node, 0)
      <3>1. 0 = 0 * Chunk /\ 0 \in Nat
        BY VfsAssumption
      <3>2. QED
        BY <3>1 DEF AtPiece
    <2>4. Shown(node, 0, << >>)
      BY DEF Shown
    <2>5. (AtPiece(node, 0) /\ Shown(node, 0, << >>) /\ 0 <= Size(node))'
      BY <1>9, <2>2, <2>3, <2>4, TextStays, ShownStays
    <2>6. QED
      BY <1>3, <1>4, <1>9, <2>1, <2>5 DEF PrintedSoFar
  <1>11. CwdIsDirectory' /\ (current_dir' # NULL => stage = "mounted")
    BY <1>1 DEF Inv, CwdIsDirectory, tarVars, Type
  <1>12. file_descriptors' \in Files
    BY <1>3 DEF OnlyAt
  <1>13. Used' = held' \cup OfCat' /\ held' \cap OfCat' = {} /\ held' \subseteq FDs
         /\ current_dir' \in Nodes \cup {NULL}
    BY <1>1, <1>4, <1>5, <1>6, InvFacts
  <1>14. QED
    BY <1>1, <1>4, <1>8, <1>10, <1>11, <1>12, <1>13, Framed DEF Running

LEMMA InvCatRead ==
    ASSUME Inv, CatRead
    PROVE  Inv'
  <1> DEFINE fd == command.fd
             file == file_descriptors[command.fd]
             s == command.printed
  <1>1. UNCHANGED <<tarVars, current_dir, held>> /\ command.stage = "reading"
    BY DEF CatRead
  <1>2. UNCHANGED <<archive, stage>> /\ Readings' = Readings
    BY <1>1 DEF tarVars, Readings
  <1>3. PrintedSoFar
    BY <1>1, InvFacts DEF Running, ListedSoFar, Listings, NoCommand
  <1>4. /\ command \in Readings /\ s \in Seq(Nat \cup {Wrong}) /\ fd \in FDs /\ OfCat = {fd}
        /\ AtPiece(file.node, file.position) /\ file.position <= Size(file.node)
        /\ HasNul(file.node) \/ Shown(file.node, file.position, s)
    BY <1>3, CommandKinds DEF PrintedSoFar, Readings
  <1>5. /\ file.node \in Nodes /\ Size(file.node) \in Nat
        /\ file.position \in 0 .. Size(file.node) /\ archive \in Archives /\ TypeOK
    <2>1. file.node \in Nodes /\ file.position \in Nat
      BY <1>4, InvFacts DEF Files
    <2>2. Size(file.node) \in Nat
      BY <2>1, InvFacts, NodeSizes
    <2>3. QED
      BY <1>4, <2>1, <2>2, InvFacts
  <1>6. PICK n \in -1 .. Chunk :
          /\ vfs_read(fd, Chunk, n)
          /\ command' = IF n > 0
                THEN [command EXCEPT !.printed =
                        @ \o fb_console_write(file.node, file.position, n)]
                ELSE [command EXCEPT !.stage = "read"]
    BY DEF CatRead
  <1>7. n \in Int /\ Chunk \in Int
    BY VfsAssumption
  <1>8. /\ OnlyAt(fd) /\ file_descriptors'[fd].used = file.used
        /\ file_descriptors'[fd].node = file.node
        /\ file_descriptors'[fd].position =
              IF n > 0 THEN (file.position + n) % PosMod ELSE file.position
    BY <1>4, <1>5, <1>6, <1>7, ReadFacts
  <1>9. /\ n > 0 => /\ n \in Nat /\ file.position + n \in 0 .. Size(file.node)
                    /\ (file.position + n) % PosMod = file.position + n
                    /\ n = Chunk \/ file.position + n = Size(file.node)
        /\ ~ (n > 0) => file.position = Size(file.node)
    BY <1>5, <1>6, ReadToEnd DEF vfs_read
  <1>10. PrintedSoFar' /\ OfCat' = {fd} /\ command'.stage \in {"reading", "read"}
    <2>1. CASE n > 0
      <3> DEFINE node == file.node
                 pos == file.position
                 t == s \o fb_console_write(node, pos, n)
      <3>1. n \in Nat /\ pos \in Nat /\ pos + n \in 0 .. Size(node)
        BY <1>5, <1>9, <2>1
      <3>2. /\ t \in Seq(Nat \cup {Wrong})
            /\ AtPiece(node, pos + n)
            /\ HasNul(node) \/ Shown(node, pos + n, t)
        <4>1. fb_console_write(node, pos, n) \in Seq(Nat \cup {Wrong})
          BY <1>5, <3>1, Written
        <4>2. t \in Seq(Nat \cup {Wrong})
          BY <1>4, <4>1, ConcatProperties
        <4>3. AtPiece(node, pos + n)
          BY <1>4, <1>5, <1>9, <2>1, <3>1, CutsTear
        <4>4. HasNul(node) \/ Shown(node, pos + n, t)
          BY <1>4, <1>5, <1>9, <2>1, <3>1, ShownMore
        <4>5. QED
          BY <4>2, <4>3, <4>4
      <3> HIDE DEF t
      <3>3. command' = [command EXCEPT !.printed = t]
        BY <1>6, <2>1 DEF t
      <3>4. command' \in Readings /\ command'.printed = t /\ command'.fd = fd
            /\ command'.stage = "reading"
        BY <1>1, <1>4, <3>2, <3>3 DEF Readings
      <3>5. file_descriptors'[fd].position = pos + n /\ file_descriptors'[fd].node = node
            /\ pos + n <= Size(node)
        BY <1>8, <1>9, <2>1, <3>1
      <3>6. PrintedSoFar'
        BY <1>2, <3>2, <3>4, <3>5, TextStays, ShownStays DEF PrintedSoFar
      <3>7. QED
        BY <3>4, <3>6 DEF OfCat
    <2>2. CASE ~ (n > 0)
      <3>1. command' \in Readings /\ command'.printed = s /\ command'.fd = fd
            /\ command'.stage = "read"
        BY <1>4, <1>6, <2>2 DEF Readings
      <3>2. /\ file_descriptors'[fd].position = file.position
            /\ file_descriptors'[fd].node = file.node /\ file.position = Size(file.node)
        BY <1>4, <1>8, <1>9, <2>2
      <3>3. PrintedSoFar'
        BY <1>2, <1>4, <1>5, <3>1, <3>2, TextStays, ShownStays DEF PrintedSoFar
      <3>4. QED
        BY <3>1, <3>3 DEF OfCat
    <2>3. QED
      BY <2>1, <2>2
  <1>11. \A other \in FDs : /\ file_descriptors'[other].used = file_descriptors[other].used
                            /\ file_descriptors'[other].node = file_descriptors[other].node
    BY <1>8 DEF OnlyAt
  <1>12. Used' = Used
    BY <1>11 DEF Used
  <1>13. \A other \in held' \cup OfCat' : file_descriptors'[other].node # NULL
    BY <1>1, <1>4, <1>10, <1>11, InvFacts, NodeSizes
  <1>14. CwdIsDirectory' /\ (current_dir' # NULL => stage = "mounted")
    BY <1>1, <1>2 DEF Inv, CwdIsDirectory, Type
  <1>15. file_descriptors' \in Files
    BY <1>8 DEF OnlyAt
  <1>16. Used' = held' \cup OfCat' /\ held' \cap OfCat' = {} /\ held' \subseteq FDs
         /\ current_dir' \in Nodes \cup {NULL}
    BY <1>1, <1>4, <1>10, <1>12, InvFacts
  <1>17. QED
    BY <1>1, <1>10, <1>13, <1>14, <1>15, <1>16, Framed DEF Running

LEMMA InvCatClose ==
    ASSUME Inv, CatClose
    PROVE  Inv'
  <1> DEFINE fd == command.fd
  <1>1. /\ UNCHANGED <<tarVars, current_dir, held>> /\ command.stage = "read"
        /\ vfs_close(fd) /\ command' = NoCommand
    BY DEF CatClose
  <1>2. UNCHANGED <<archive, stage>>
    BY <1>1 DEF tarVars
  <1>3. command \in Readings /\ fd \in FDs /\ OfCat = {fd}
    BY <1>1, InvFacts, CommandKinds DEF Running, PrintedSoFar, ListedSoFar, Listings, NoCommand
  <1>4. OnlyAt(fd) /\ ~ file_descriptors'[fd].used
    BY <1>1, <1>3, InvFacts, CloseFacts
  <1>5. Used' = Used \ {fd}
    BY <1>3, <1>4 DEF Used, OnlyAt
  <1>6. OfCat' = {} /\ command'.stage = "idle"
    BY <1>1 DEF OfCat, NoCommand
  <1>7. Used' = held' \cup OfCat' /\ held' \cap OfCat' = {} /\ held' \subseteq FDs
        /\ current_dir' \in Nodes \cup {NULL}
    BY <1>1, <1>3, <1>5, <1>6, InvFacts
  <1>8. \A other \in held' \cup OfCat' : file_descriptors'[other].node # NULL
    <2>1. ASSUME NEW other \in held
          PROVE  other \in FDs /\ other # fd /\ file_descriptors'[other] = file_descriptors[other]
      BY <1>3, <1>4, InvFacts DEF OnlyAt
    <2>2. QED
      BY <1>1, <1>6, <2>1, InvFacts, NodeSizes
  <1>9. CwdIsDirectory' /\ (current_dir' # NULL => stage = "mounted")
    BY <1>1, <1>2 DEF Inv, CwdIsDirectory, Type
  <1>10. file_descriptors' \in Files /\ Running'
    BY <1>1, <1>4 DEF OnlyAt, Running
  <1>11. QED
    BY <1>1, <1>6, <1>7, <1>8, <1>9, <1>10, Framed

LEMMA InvCd ==
    ASSUME Inv, cmd_cd
    PROVE  Inv'
  <1>1. UNCHANGED <<tarVars, file_descriptors, command, held>>
    BY DEF cmd_cd
  <1>2. UNCHANGED <<archive, stage, num_files, file_nodes>>
    BY <1>1 DEF tarVars
  <1>3. /\ current_dir' \in Nodes \cup {NULL}
        /\ current_dir' # NULL => stage = "mounted"
        /\ stage = "mounted" => current_dir' # NULL /\ Type(current_dir') = "directory"
    <2>1. CASE current_dir' = vfs_root
      BY <2>1 DEF vfs_root, Nodes, Type, ROOT, NULL
    <2>2. ASSUME NEW path \in Paths, vfs_get_node(path) # NULL,
                 Type(vfs_get_node(path)) = "directory", current_dir' = vfs_get_node(path)
          PROVE  /\ current_dir' \in Nodes /\ stage = "mounted"
                 /\ current_dir' # NULL /\ Type(current_dir') = "directory"
      BY <2>2, InvFacts, NodeOfPath
    <2>3. QED
      BY <2>1, <2>2 DEF cmd_cd
  <1>4. CwdIsDirectory'
    BY <1>2, <1>3 DEF CwdIsDirectory, Type
  <1>5. OfCat' = OfCat /\ Used' = Used
    BY <1>1 DEF OfCat, Used
  <1>6. Running'
    <2>1. ListedSoFar => ListedSoFar'
      BY <1>1, <1>2 DEF ListedSoFar, Listings, Nodes
    <2>2. PrintedSoFar => PrintedSoFar'
      BY <1>1, <1>2, PrintedStays
    <2>3. QED
      BY <1>1, <2>1, <2>2 DEF Inv, Running
  <1>7. command'.stage \in {"idle", "listing", "listed", "reading", "read"}
    BY <1>1, InvFacts DEF TypeOK
  <1>8. \A fd \in held' \cup OfCat' : file_descriptors'[fd].node # NULL
    BY <1>1, <1>5, InvFacts, NodeSizes
  <1>9. Used' = held' \cup OfCat' /\ held' \cap OfCat' = {} /\ held' \subseteq FDs
        /\ file_descriptors' \in Files
    BY <1>1, <1>5, InvFacts
  <1>10. QED
    BY <1>1, <1>3, <1>4, <1>6, <1>7, <1>8, <1>9, Framed

LEMMA InvOtherClients ==
    ASSUME Inv, OtherClients
    PROVE  Inv'
  <1>1. UNCHANGED <<tarVars, current_dir, command>> /\ command = NoCommand /\ OfCat = {}
    BY CommandKinds DEF OtherClients, Idle
  <1>2. UNCHANGED <<archive, stage>> /\ OfCat' = {} /\ command'.stage = "idle"
    BY <1>1, CommandKinds DEF tarVars, OfCat
  <1>3. Used = held /\ held \subseteq FDs /\ TypeOK
        /\ \A fd \in held : file_descriptors[fd].node \in Nodes
    BY <1>1, InvFacts
  <1>4. /\ file_descriptors' \in Files
        /\ Used' = held'
        /\ \A fd \in held' : file_descriptors'[fd].node # NULL
    <2>1. ASSUME NEW fd \in FDs, NEW path \in Paths, vfs_open(fd, path), held' = held \cup {fd}
          PROVE  <1>4!1 /\ <1>4!2 /\ <1>4!3
      <3>1. /\ ~ file_descriptors[fd].used /\ OnlyAt(fd)
            /\ file_descriptors'[fd].used /\ file_descriptors'[fd].node \in Nodes
        BY <1>3, <2>1, OpenFacts
      <3>2. Used' = Used \cup {fd}
        BY <3>1 DEF Used, OnlyAt
      <3>3. \A other \in held : file_descriptors'[other] = file_descriptors[other]
        BY <1>3, <3>1 DEF OnlyAt, Used
      <3>4. QED
        BY <1>3, <2>1, <3>1, <3>2, <3>3, InvFacts, NodeSizes DEF OnlyAt
    <2>2. ASSUME NEW fd \in held, vfs_close(fd), held' = held \ {fd}
          PROVE  <1>4!1 /\ <1>4!2 /\ <1>4!3
      <3>1. OnlyAt(fd) /\ ~ file_descriptors'[fd].used
        BY <1>3, <2>2, CloseFacts
      <3>2. Used' = Used \ {fd}
        BY <1>3, <3>1 DEF Used, OnlyAt
      <3>3. \A other \in held' : other \in held /\ file_descriptors'[other] = file_descriptors[other]
        BY <1>3, <2>2, <3>1 DEF OnlyAt
      <3>4. QED
        BY <1>3, <2>2, <3>1, <3>2, <3>3, InvFacts, NodeSizes DEF OnlyAt
    <2>3. ASSUME NEW fd \in held, OnlyAt(fd), held' = held,
                 file_descriptors'[fd].used = file_descriptors[fd].used,
                 file_descriptors'[fd].node = file_descriptors[fd].node
          PROVE  <1>4!1 /\ <1>4!2 /\ <1>4!3
      <3>1. \A other \in FDs : /\ file_descriptors'[other].used = file_descriptors[other].used
                               /\ file_descriptors'[other].node = file_descriptors[other].node
        BY <2>3 DEF OnlyAt
      <3>2. Used' = Used
        BY <3>1 DEF Used
      <3>3. QED
        BY <1>3, <2>3, <3>1, <3>2, InvFacts, NodeSizes DEF OnlyAt
    <2>4. ASSUME NEW fd \in held, NEW size \in Reads, NEW n \in -1 .. size,
                 vfs_read(fd, size, n), UNCHANGED held
          PROVE  <1>4!1 /\ <1>4!2 /\ <1>4!3
      <3>1. fd \in FDs /\ size \in Int /\ n \in Int
        BY <1>3, VfsAssumption
      <3>2. QED
        BY <1>3, <2>3, <2>4, <3>1, ReadFacts
    <2>5. ASSUME NEW fd \in held, NEW offset \in Offsets,
                 NEW from \in {0, file_descriptors[fd].position, Size(file_descriptors[fd].node)},
                 vfs_seek(fd, offset, from), UNCHANGED held
          PROVE  <1>4!1 /\ <1>4!2 /\ <1>4!3
      <3>1. fd \in FDs /\ offset \in Int /\ file_descriptors[fd].position \in Int
        BY <1>3, InvFacts, VfsAssumption DEF Files
      <3>2. Size(file_descriptors[fd].node) \in Int
        BY <1>3, InvFacts, NodeSizes
      <3>3. (from + offset) % PosMod \in 0 .. PosMod - 1
        BY <3>1, <3>2, ModPosition
      <3>4. file_descriptors' = [file_descriptors EXCEPT ![fd].position = (from + offset) % PosMod]
        BY <2>5 DEF vfs_seek
      <3>5. QED
        BY <1>3, <2>3, <2>5, <3>1, <3>3, <3>4, MoveFacts
    <2>6. QED
      BY <2>1, <2>2, <2>4, <2>5 DEF OtherClients
  <1>5. CwdIsDirectory' /\ (current_dir' # NULL => stage = "mounted")
    BY <1>1, <1>2 DEF Inv, CwdIsDirectory, Type
  <1>6. Used' = held' \cup OfCat' /\ held' \cap OfCat' = {} /\ held' \subseteq FDs
        /\ current_dir' \in Nodes \cup {NULL} /\ Running'
        /\ \A fd \in held' \cup OfCat' : file_descriptors'[fd].node # NULL
    <2>1. Used' \subseteq FDs
      BY DEF Used
    <2>2. QED
      BY <1>1, <1>2, <1>4, <2>1, InvFacts DEF Running
  <1>7. QED
    BY <1>1, <1>2, <1>4, <1>5, <1>6, Framed

LEMMA InvStutters ==
    ASSUME Inv, UNCHANGED vars
    PROVE  Inv'
  <1>1. UNCHANGED <<tarVars, current_dir, file_descriptors, command, held>>
        /\ UNCHANGED <<archive, stage, num_files, file_nodes>>
    BY DEF vars, vfsVars, tarVars
  <1>2. OfCat' = OfCat /\ Used' = Used
    BY <1>1 DEF OfCat, Used
  <1>3. Running'
    <2>1. ListedSoFar => ListedSoFar'
      BY <1>1 DEF ListedSoFar, Listings, Nodes
    <2>2. PrintedSoFar => PrintedSoFar'
      BY <1>1, PrintedStays
    <2>3. QED
      BY <1>1, <2>1, <2>2 DEF Inv, Running
  <1>4. CwdIsDirectory' /\ (current_dir' # NULL => stage = "mounted")
    BY <1>1 DEF Inv, CwdIsDirectory, Type
  <1>5. command'.stage \in {"idle", "listing", "listed", "reading", "read"}
    BY <1>1, InvFacts DEF TypeOK
  <1>6. \A fd \in held' \cup OfCat' : file_descriptors'[fd].node # NULL
    BY <1>1, <1>2, InvFacts, NodeSizes
  <1>7. Used' = held' \cup OfCat' /\ held' \cap OfCat' = {} /\ held' \subseteq FDs
        /\ file_descriptors' \in Files /\ current_dir' \in Nodes \cup {NULL}
    BY <1>1, <1>2, InvFacts
  <1>8. QED
    BY <1>1, <1>3, <1>4, <1>5, <1>6, <1>7, Framed

LEMMA InvNext == Inv /\ [Next]_vars => Inv'
  <1> SUFFICES ASSUME Inv, [Next]_vars PROVE Inv'
    OBVIOUS
  <1>1. CASE Boot
    BY <1>1, InvBoot
  <1>2. CASE cmd_ls
    BY <1>2, InvLsOpen, InvLsStep, InvLsEnd DEF cmd_ls
  <1>3. CASE cmd_cat
    BY <1>3, InvCatOpen, InvCatRead, InvCatClose DEF cmd_cat
  <1>4. CASE cmd_cd
    BY <1>4, InvCd
  <1>5. CASE OtherClients
    BY <1>5, InvOtherClients
  <1>6. CASE UNCHANGED vars
    BY <1>6, InvStutters
  <1>7. QED
    BY <1>1, <1>2, <1>3, <1>4, <1>5, <1>6 DEF Next

LEMMA AlwaysInv == Spec => []Inv
  BY InitInv, InvNext, PTL DEF Spec

-----------------------------------------------------------------------------
\* Whichever allocations of tarfs_init fail, and whatever the sizes of its
\* structures: if it returns a root, the table has a node in every slot that
\* readdir and finddir look at, the counted files in the archive's order.  A
\* node that was refused leaves no hole, as the root's node is refused then too.
THEOREM MountedTableComplete == Spec => []MountedComplete
  <1>1. Inv => MountedComplete
    BY DEF Inv, Tables
  <1>2. QED
    BY <1>1, AlwaysInv, PTL

\* The descriptors that vfs_open has given and vfs_close not taken back are
\* those of the clients and of a running cat, each of one of them alone and with
\* a node, in any order of opens, reads, seeks and closes, and with any number
\* of descriptors.
THEOREM DescriptorsAlwaysAccounted == Spec => []DescriptorsAccounted
  <1>1. Inv => DescriptorsAccounted
    BY DEF Inv
  <1>2. QED
    BY <1>1, AlwaysInv, PTL

\* cat puts on the screen every byte of a text without NULs, each once and in
\* order, whatever the sizes of the file and of cmd_cat's buffer, but for those of
\* a character that lies across a multiple of the buffer's; ls lists the archive's
\* files, each once and in its order, whatever the headers it holds.
THEOREM OutputAlwaysComplete == Spec => []OutputComplete
  <1>1. ASSUME Inv PROVE OutputComplete
    <2>1. CatPrintsFile
      <3>1. SUFFICES ASSUME command.stage = "read",
                            ~ HasNul(file_descriptors[command.fd].node)
                     PROVE  LET node == file_descriptors[command.fd].node
                            IN  Shown(node, Size(node), command.printed)
        BY DEF CatPrintsFile, Shown, Torn
      <3>2. PrintedSoFar
        BY <1>1, <3>1, InvFacts DEF Running, ListedSoFar, Listings, NoCommand
      <3>3. QED
        BY <3>1, <3>2 DEF PrintedSoFar
    <2>2. LsListsAll
      <3> DEFINE s == command.listed
      <3>1. SUFFICES ASSUME command.stage = "listed"
                     PROVE  InOrder(s, IF command.dir = ROOT THEN CountedFiles ELSE {})
        BY DEF LsListsAll
      <3>2. ListedSoFar
        BY <1>1, <3>1, InvFacts DEF Running, PrintedSoFar, Readings, NoCommand
      <3>3. /\ s \in Seq(DOMAIN archive) /\ stage = "mounted"
            /\ \A i \in DOMAIN s : s[i] = file_nodes[i]
            /\ command.dir # ROOT => s = << >>
            /\ command.dir = ROOT => Len(s) = num_files
        BY <3>1, <3>2 DEF ListedSoFar, Listings
      <3>4. CASE command.dir = ROOT
        <4>1. /\ file_nodes \in Seq(DOMAIN archive) /\ Len(file_nodes) = num_files
              /\ InOrder(file_nodes, CountedFiles)
          BY <1>1, <3>3, InvFacts DEF Tables, MountedComplete, TarTypes
        <4>2. s = file_nodes
          BY <3>3, <3>4, <4>1, SeqEqual
        <4>3. QED
          BY <3>4, <4>1, <4>2
      <3>5. CASE command.dir # ROOT
        <4>1. s = << >> /\ DOMAIN s = {}
          BY <3>3, <3>5
        <4>2. QED
          BY <3>5, <4>1 DEF InOrder
      <3>6. QED
        BY <3>4, <3>5
    <2>3. QED
      BY <2>1, <2>2 DEF OutputComplete
  <1>2. QED
    BY <1>1, AlwaysInv, PTL

\* From the mount on the working directory is a directory: no cd, and no walk
\* from whichever directory one is in, takes the shell to a file.
THEOREM CwdAlwaysDirectory == Spec => []CwdIsDirectory
  <1>1. Inv => CwdIsDirectory
    BY DEF Inv
  <1>2. QED
    BY <1>1, AlwaysInv, PTL
=============================================================================
