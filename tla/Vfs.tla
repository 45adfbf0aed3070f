--------------------------------- MODULE Vfs ---------------------------------
(***************************************************************************)
(* The virtual file system, src/fs/vfs.c, over tarfs: the walk along a     *)
(* path, the table of descriptors, and the shell's commands ls, cat and    *)
(* cd, which use them.  ls and cat take one step per call they make.       *)
(* Other clients of the interface may hold descriptors of their own while  *)
(* a command runs, but run between commands: the kernel has one thread.    *)
(* vfs_write changes nothing, as no node has a write operation.            *)
(***************************************************************************)
EXTENDS Tarfs

CONSTANTS
    MAX_FD,   \* descriptors
    Paths,    \* paths users type: [absolute, parts]
    Chunk,    \* bytes cat reads at once
    Reads,    \* sizes other clients read
    Offsets,  \* offsets they seek to
    PosMod    \* 2^w for the width w of a position

ASSUME VfsAssumption ==
    /\ MAX_FD \in Nat /\ Chunk \in Nat \ {0} /\ Reads \subseteq Nat /\ Offsets \subseteq Int
    /\ PosMod \in Nat \ {0}
    /\ \A path \in Paths : Len(path.parts) \in Nat
    \* Files and reads are far from the end of uint32_t: their sum does not wrap.
    /\ \A a \in Archives : \A i \in DOMAIN a :
          \A n \in Reads \cup {Chunk} : Len(a[i].text) + n < PosMod

VARIABLES
    current_dir,       \* vfs.c's current_dir, NULL before the mount
    file_descriptors,  \* the table
    command,           \* the ls or cat that runs and what it printed
    held               \* the other clients' side: descriptors they have open

vfsVars == <<current_dir, file_descriptors, command, held>>
vars == <<tarVars, vfsVars>>

NULL == -1
ROOT == 0  \* the root's node; the others are the numbers of their headers

NUL == 0     \* a byte of a text that is 0
Wrong == -1  \* shown, but no byte of the text

vfs_root == IF stage = "mounted" THEN ROOT ELSE NULL
Type(node) == IF node = ROOT THEN "directory" ELSE archive[node].type
Text(node) == IF node = ROOT THEN << >> ELSE archive[node].text
Size(node) == Len(Text(node))

FDs == 0 .. MAX_FD - 1
Unused == [used |-> FALSE, node |-> NULL, position |-> 0]

NoCommand == [stage |-> "idle"]

\* vfs_init; the mount itself is the step of tarfs_init that ends it.
Init ==
    /\ TarInit
    /\ current_dir = NULL
    /\ file_descriptors = [fd \in FDs |-> Unused]
    /\ command = NoCommand
    /\ held = {}

-----------------------------------------------------------------------------
\* tarfs_finddir of the root: the first entry whose whole name is the part.
IsNamed(i, part) == archive[file_nodes[i]].name = [parts |-> <<part>>, slash |-> FALSE]
tarfs_finddir(part) ==
    IF \E i \in DOMAIN file_nodes : IsNamed(i, part)
    THEN file_nodes[CHOOSE i \in DOMAIN file_nodes :
            IsNamed(i, part) /\ \A j \in DOMAIN file_nodes : IsNamed(j, part) => i <= j]
    ELSE NULL

\* What readdir answers; only the root has one.
tarfs_readdir(node, index) ==
    IF node = ROOT /\ index < num_files THEN file_nodes[index + 1] ELSE NULL

\* One component of the walk; only the root has a finddir, and ".." is the root.
Follow(node, part) ==
    IF node = NULL THEN NULL
    ELSE IF part = "." THEN node
    ELSE IF part = ".." THEN vfs_root
    ELSE IF node = ROOT THEN tarfs_finddir(part) ELSE NULL

vfs_get_node(path) ==
    LET current[n \in 0 .. Len(path.parts)] ==
            IF n = 0 THEN IF path.absolute THEN vfs_root ELSE current_dir
            ELSE Follow(current[n - 1], path.parts[n])
    IN  IF vfs_root = NULL THEN NULL ELSE current[Len(path.parts)]

\* Mutant of FreeFD: a descriptor in use counts as free.
FreeFDAny(fd) == fd \in FDs /\ \A other \in FDs : fd <= other

\* The descriptor vfs_open takes: the lowest that is not in use.
FreeFD(fd) ==
    /\ fd \in FDs /\ ~ file_descriptors[fd].used
    /\ \A other \in FDs : ~ file_descriptors[other].used => fd <= other

vfs_open(fd, path) ==
    /\ vfs_get_node(path) # NULL
    /\ FreeFD(fd)
    /\ file_descriptors' = [file_descriptors EXCEPT
            ![fd] = [used |-> TRUE, node |-> vfs_get_node(path), position |-> 0]]

vfs_close(fd) == file_descriptors' = [file_descriptors EXCEPT ![fd].used = FALSE, ![fd].node = NULL]

\* Mutant of BytesRead: the test for the end of the file is off by one.
BytesReadEarlyEnd(node, offset, size) ==
    IF node = ROOT THEN -1
    ELSE IF offset >= Size(node) - 1 THEN 0
    ELSE IF (offset + size) % PosMod > Size(node) THEN Size(node) - offset ELSE size

\* What a read at an offset returns: -1 without a read operation, 0 at the end.
BytesRead(node, offset, size) ==
    IF node = ROOT THEN -1
    ELSE IF offset >= Size(node) THEN 0
    ELSE IF (offset + size) % PosMod > Size(node) THEN Size(node) - offset ELSE size

\* vfs_read returns n, and moves the position by what it read.
vfs_read(fd, size, n) ==
    /\ n = BytesRead(file_descriptors[fd].node, file_descriptors[fd].position, size)
    /\ file_descriptors' =
          IF n > 0 THEN [file_descriptors EXCEPT ![fd].position = (@ + n) % PosMod]
          ELSE file_descriptors

vfs_seek(fd, offset, from) ==
    file_descriptors' = [file_descriptors EXCEPT ![fd].position = (from + offset) % PosMod]

-----------------------------------------------------------------------------
\* kernel_main mounts what tarfs_init returns.
Boot ==
    /\ tarfs_init
    /\ current_dir' = IF stage' = "mounted" THEN ROOT ELSE current_dir
    /\ UNCHANGED <<file_descriptors, command, held>>

Booted == stage \in {"mounted", "failed"}
Idle == Booted /\ command = NoCommand

\* cmd_ls of the working directory or of a path: readdir until it has no more.
LsOpen ==
    /\ Idle
    /\ \E dir \in {current_dir} \cup {vfs_get_node(path) : path \in Paths} :
          /\ dir # NULL /\ Type(dir) = "directory"
          /\ command' = [stage |-> "listing", dir |-> dir, listed |-> << >>]
    /\ UNCHANGED <<tarVars, current_dir, file_descriptors, held>>
LsStep ==
    /\ command.stage = "listing"
    /\ LET node == tarfs_readdir(command.dir, Len(command.listed))
       IN  command' = IF node # NULL THEN [command EXCEPT !.listed = Append(@, node)]
                      ELSE [command EXCEPT !.stage = "listed"]
    /\ UNCHANGED <<tarVars, current_dir, file_descriptors, held>>
LsEnd ==
    /\ command.stage = "listed"
    /\ command' = NoCommand
    /\ UNCHANGED <<tarVars, current_dir, file_descriptors, held>>

\* cmd_cat: open; read until a read returns no byte; close.
CatOpen ==
    /\ Idle
    /\ \E path \in Paths, fd \in FDs :
          /\ vfs_open(fd, path)
          /\ command' = [stage |-> "reading", fd |-> fd, printed |-> << >>]
    /\ UNCHANGED <<tarVars, current_dir, held>>

\* The character that the byte i is of has bytes before the place m and behind it.
CutAt(node, m, i) ==
    LET text == Text(node)
    IN  m \in 1 .. Size(node) - 1 /\ text[m] # NUL /\ text[m + 1] = text[m] /\ text[i] = text[m]

\* The first bytes, of n from a place on, that have no NUL among them.
BeforeNul(node, from, n) ==
    CHOOSE k \in 0 .. n :
        /\ \A i \in 1 .. k : Text(node)[from + i] # NUL
        /\ k = n \/ Text(node)[from + k + 1] = NUL

\* console_write of the n bytes from a place on, with a 0 behind them: the places of
\* the bytes it shows.  A NUL ends it.  A character whose bytes are not all among
\* them is decoded byte by byte, or with the 0, which the decoder passes, so that
\* the loop goes on behind the buffer: what is shown in the place of its bytes,
\* nothing or more than they are, is Wrong.
fb_console_write(node, from, n) ==
    [i \in 1 .. BeforeNul(node, from, n) |->
        IF \E m \in {from, from + n} : CutAt(node, m, from + i) THEN Wrong ELSE from + i - 1]

\* Mutant of CatRead: only an error ends the loop, the end of the file does not.
CatReadToError ==
    /\ command.stage = "reading"
    /\ LET file == file_descriptors[command.fd]
       IN  \E n \in -1 .. Chunk :
              /\ vfs_read(command.fd, Chunk, n)
              /\ command' = IF n >= 0
                    THEN [command EXCEPT !.printed =
                            @ \o fb_console_write(file.node, file.position, n)]
                    ELSE [command EXCEPT !.stage = "read"]
    /\ UNCHANGED <<tarVars, current_dir, held>>

CatRead ==
    /\ command.stage = "reading"
    /\ LET file == file_descriptors[command.fd]
       IN  \E n \in -1 .. Chunk :
              /\ vfs_read(command.fd, Chunk, n)
              /\ command' = IF n > 0
                    THEN [command EXCEPT !.printed =
                            @ \o fb_console_write(file.node, file.position, n)]
                    ELSE [command EXCEPT !.stage = "read"]
    /\ UNCHANGED <<tarVars, current_dir, held>>
CatClose ==
    /\ command.stage = "read"
    /\ vfs_close(command.fd)
    /\ command' = NoCommand
    /\ UNCHANGED <<tarVars, current_dir, held>>

\* Mutant of cmd_cd: what the path names is not looked at.
cmd_cdAnywhere ==
    /\ Idle
    /\ \/ current_dir' = vfs_root
       \/ \E path \in Paths :
             vfs_get_node(path) # NULL /\ current_dir' = vfs_get_node(path)
    /\ UNCHANGED <<tarVars, file_descriptors, command, held>>

\* cmd_cd: the root, or the directory the path names.
cmd_cd ==
    /\ Idle
    /\ \/ current_dir' = vfs_root
       \/ \E path \in Paths :
             /\ vfs_get_node(path) # NULL
             /\ Type(vfs_get_node(path)) = "directory"
             /\ current_dir' = vfs_get_node(path)
    /\ UNCHANGED <<tarVars, file_descriptors, command, held>>

OtherClients ==
    /\ Idle
    /\ \/ \E fd \in FDs, path \in Paths : vfs_open(fd, path) /\ held' = held \cup {fd}
       \/ \E fd \in held :
             \/ vfs_close(fd) /\ held' = held \ {fd}
             \/ \E size \in Reads : \E n \in -1 .. size : vfs_read(fd, size, n) /\ UNCHANGED held
             \/ \E offset \in Offsets,
                   from \in {0, file_descriptors[fd].position, Size(file_descriptors[fd].node)} :
                   vfs_seek(fd, offset, from) /\ UNCHANGED held
    /\ UNCHANGED <<tarVars, current_dir, command>>

cmd_ls == LsOpen \/ LsStep \/ LsEnd
cmd_cat == CatOpen \/ CatRead \/ CatClose
Next == Boot \/ cmd_ls \/ cmd_cat \/ cmd_cd \/ OtherClients

\* A command runs on to its end, and so does the boot.
Spec == Init /\ [][Next]_vars /\ WF_vars(Boot) /\ WF_vars(LsStep \/ LsEnd \/ CatRead \/ CatClose)

-----------------------------------------------------------------------------
\* The table, the working directory and the running cat have the values the
\* code gives them.
Nodes == {ROOT} \cup DOMAIN archive
TypeOK ==
    /\ stage \in {"count", "fs_data", "table", "fill", "root", "mounted", "failed"}
    /\ num_files \in 0 .. Len(archive)
    /\ file_nodes \in Seq(DOMAIN archive)
    /\ ptr \in 1 .. Len(archive) + 1
    /\ current_dir \in Nodes \cup {NULL}
    /\ file_descriptors \in
          [FDs -> [used : BOOLEAN, node : Nodes \cup {NULL}, position : 0 .. PosMod - 1]]
    /\ command.stage \in {"idle", "listing", "listed", "reading", "read"}
    /\ held \subseteq FDs

\* The descriptors in use are those of the clients that have one open and of a
\* running cat: no command leaves one behind, none takes another's, and an open
\* one always has a node, and a position no seek or read takes out of its width.
DescriptorsAccounted ==
    LET ofCat == IF command.stage \in {"reading", "read"} THEN {command.fd} ELSE {}
    IN  /\ TypeOK
        /\ {fd \in FDs : file_descriptors[fd].used} = held \cup ofCat
        /\ held \cap ofCat = {}
        /\ \A fd \in held \cup ofCat : file_descriptors[fd].node # NULL

\* cat puts every byte of a text on the screen, once and in order, but for the
\* characters that lie across a multiple of its buffer's size: it neither drops nor
\* repeats a byte where a read ends, however the file's size and the buffer's
\* relate, and one that it cuts costs no byte of another.
HasNul(node) == \E i \in 1 .. Size(node) : Text(node)[i] = NUL
CatPrintsFile ==
    LET node == file_descriptors[command.fd].node
    IN  command.stage = "read" /\ ~ HasNul(node) =>
            /\ Len(command.printed) = Size(node)
            /\ \A i \in 1 .. Size(node) :
                  \/ command.printed[i] = i - 1
                  \/ command.printed[i] = Wrong /\ \E k \in 1 .. Size(node) : CutAt(node, k * Chunk, i)

\* ls lists every file of the archive up to its end, or to the header that is
\* not one of tar, once and in the archive's order; no directory but the root
\* has entries.
LsListsAll ==
    command.stage = "listed" =>
        InOrder(command.listed, IF command.dir = ROOT THEN CountedFiles ELSE {})

\* What cat and ls put out is complete, but for characters cat cuts.
OutputComplete == CatPrintsFile /\ LsListsAll

\* The working directory is a directory whenever there is a file system: a walk
\* never starts at a file.
CwdIsDirectory ==
    stage = "mounted" => current_dir # NULL /\ Type(current_dir) = "directory"

\* Every ls and cat ends: each step comes nearer to the end of the directory or
\* of the file.
CommandEnds == command # NoCommand ~> command = NoCommand
=============================================================================
