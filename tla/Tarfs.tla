-------------------------------- MODULE Tarfs --------------------------------
(***************************************************************************)
(* tarfs_init, src/fs/tarfs.c: the boot-time pass over a tar archive that  *)
(* counts its files, allocates a table for them and fills it, one          *)
(* allocation per step.  Any kmalloc may fail; of the heap it uses what    *)
(* Heap's StaysExhausted says: a size that was refused, and every larger   *)
(* one, is refused until something is freed.                               *)
(***************************************************************************)
EXTENDS Integers, Sequences, FiniteSets

CONSTANTS
    Archives,    \* archives GRUB may pass: sequences of headers
    FsDataSize,  \* sizeof(tarfs_data_t)
    SlotSize,    \* sizeof(vfs_node_t*)
    NodeSize     \* sizeof(vfs_node_t)

\* A header: [name, type, text, magic].  A name is what is between its slashes
\* and whether one ends it, as the name of a directory in an archive does.  An
\* archive's end, an empty block or tar_size, is the end of the sequence.  The
\* text is the file's data in UTF-8: for each byte the number of the character it
\* is of, whose bytes are together, or 0 for a 0.
ASSUME ArchivesAssumption ==
    \A archive \in Archives :
        /\ Len(archive) \in Nat /\ DOMAIN archive = 1 .. Len(archive)
        /\ \A i \in DOMAIN archive :
              /\ archive[i].type \in {"file", "directory", "other"}
              /\ archive[i].text \in Seq(Nat)
              /\ \A from, to \in DOMAIN archive[i].text :
                    archive[i].text[from] = archive[i].text[to] /\ archive[i].text[from] # 0
                        => \A k \in from .. to : archive[i].text[k] = archive[i].text[from]
              /\ archive[i].magic \in BOOLEAN
ASSUME SizesAssumption ==
    FsDataSize \in Nat /\ SlotSize \in Nat /\ NodeSize \in Nat

VARIABLES
    archive,     \* the archive passed by GRUB
    stage,       \* where tarfs_init is
    num_files,   \* fs_data->num_files
    file_nodes,  \* the part of fs_data->file_nodes filled so far: header numbers
    ptr,         \* the header the second pass is at
    refused      \* sizes kmalloc has refused

tarVars == <<archive, stage, num_files, file_nodes, ptr, refused>>

-----------------------------------------------------------------------------
\* The headers the two passes make nodes of; the first stops at a bad magic.
Counted(i) == archive[i].type \in {"file", "directory"}
CountedFiles ==
    {i \in DOMAIN archive : Counted(i) /\ \A j \in 1 .. i : archive[j].magic}

\* The headers of a set, each once and in the archive's order.
InOrder(headers, S) ==
    /\ {headers[i] : i \in DOMAIN headers} = S
    /\ \A i, j \in DOMAIN headers : i < j => headers[i] < headers[j]

TarInit ==
    /\ archive \in Archives
    /\ stage = "count"
    /\ num_files = 0
    /\ file_nodes = << >>
    /\ ptr = 1
    /\ refused = {}

kmallocOK(size) == (\A n \in refused : size < n) /\ UNCHANGED refused
kmallocFails(size) == refused' = refused \cup {size}

\* The first pass; an archive without files is not mounted.
CountFiles ==
    /\ stage = "count"
    /\ num_files' = Cardinality(CountedFiles)
    /\ stage' = IF CountedFiles = {} THEN "failed" ELSE "fs_data"
    /\ UNCHANGED <<archive, file_nodes, ptr, refused>>

AllocFsData ==
    /\ stage = "fs_data"
    /\ \/ kmallocOK(FsDataSize) /\ stage' = "table"
       \/ kmallocFails(FsDataSize) /\ stage' = "failed"
    /\ UNCHANGED <<archive, num_files, file_nodes, ptr>>

\* Without a table fs_data is freed.
AllocTable ==
    /\ stage = "table"
    /\ \/ kmallocOK(SlotSize * num_files) /\ stage' = "fill"
       \/ refused' = {} /\ stage' = "failed"
    /\ UNCHANGED <<archive, num_files, file_nodes, ptr>>

\* The second pass looks at no magic: it ends with the count, or the archive.
Filling == stage = "fill" /\ ptr <= Len(archive) /\ Len(file_nodes) < num_files
FillNode ==
    /\ Filling
    /\ Counted(ptr)
    /\ \/ kmallocOK(NodeSize) /\ file_nodes' = Append(file_nodes, ptr)
       \/ kmallocFails(NodeSize) /\ UNCHANGED file_nodes
    /\ ptr' = ptr + 1
    /\ UNCHANGED <<archive, stage, num_files>>
SkipHeader ==
    /\ Filling
    /\ ~ Counted(ptr)
    /\ ptr' = ptr + 1
    /\ UNCHANGED <<archive, stage, num_files, file_nodes, refused>>
FillEnds ==
    /\ stage = "fill"
    /\ ~ Filling
    /\ stage' = "root"
    /\ UNCHANGED <<archive, num_files, file_nodes, ptr, refused>>

\* Mutant of AllocRoot: the root's node is smaller than the others'.
AllocRootSmall ==
    /\ stage = "root"
    /\ \/ kmallocOK(NodeSize - 1) /\ stage' = "mounted"
       \/ refused' = {} /\ stage' = "failed"
    /\ UNCHANGED <<archive, num_files, file_nodes, ptr>>

\* The root's node; without it the table and fs_data are freed, the nodes not.
AllocRoot ==
    /\ stage = "root"
    /\ \/ kmallocOK(NodeSize) /\ stage' = "mounted"
       \/ refused' = {} /\ stage' = "failed"
    /\ UNCHANGED <<archive, num_files, file_nodes, ptr>>

tarfs_init ==
    CountFiles \/ AllocFsData \/ AllocTable \/ FillNode \/ SkipHeader \/ FillEnds \/ AllocRoot

-----------------------------------------------------------------------------
\* The table of a mounted file system has a node in each of its num_files
\* slots, the counted files in the archive's order: a node whose allocation
\* failed never leaves a slot that readdir and finddir would read, although
\* nothing in tarfs_init looks at how many it filled.
MountedComplete ==
    stage = "mounted" => Len(file_nodes) = num_files /\ InOrder(file_nodes, CountedFiles)
=============================================================================
