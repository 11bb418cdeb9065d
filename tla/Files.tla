-------------------------------- MODULE Files --------------------------------
(***************************************************************************)
(* Files of src/file.c.  A process has a table of descriptors; each points *)
(* to a struct open_file (the position), which points to a struct file.    *)
(* Both count their references.  The open files belong to one process, the *)
(* files are shared: by opens of the same name, by fork, by working        *)
(* directories.  The files of the file systems (fs_dev.c, fs_initrd.c) are *)
(* also held by a table; those of a pipe only by their users.              *)
(*                                                                         *)
(* Each reference count is changed with interrupts disabled.  What a call  *)
(* does to its own process's table is one step, since no other process     *)
(* sees it; fork and exit, which go through a whole table, take a step for *)
(* each descriptor.                                                        *)
(***************************************************************************)
EXTENDS Integers, FiniteSets

CONSTANTS
    Proc,            \* processes; a dead one's identifier is not used again
    First,           \* the process that runs first
    MAX_OPEN_FILES,  \* the descriptors of a process
    OpenFile,        \* identifiers of struct open_file, used again when freed
    Pipe,            \* identifiers of pipes, each created once
    Dir, Dev,        \* a directory and a special file of the file systems
    NULL

ASSUME FilesAssumption ==
    /\ First \in Proc
    /\ MAX_OPEN_FILES \in Nat \ {0}
    /\ NULL \notin OpenFile /\ Dir # Dev
    /\ IsFiniteSet(Proc) /\ IsFiniteSet(OpenFile)

Fd == 0 .. MAX_OPEN_FILES - 1

\* The two files of a pipe share its circular buffer.
ReadEnd(k)  == <<k, "PIPE_READ">>
WriteEnd(k) == <<k, "PIPE_WRITE">>
PipeFile    == Pipe \X {"PIPE_READ", "PIPE_WRITE"}
TableFile   == {<<Dir, "FILE_DIRECTORY">>, <<Dev, "FILE_SPECIAL">>}
File        == PipeFile \cup TableFile
Directory   == <<Dir, "FILE_DIRECTORY">>

ASSUME NullIsNoFile == NULL \notin File

VARIABLES
    at,         \* what each process does
    open_files, \* open_files[p][fd]
    cwd,        \* working directory of each process
    file,       \* the file an open file points to; NULL when it is not allocated
    open_refs,  \* ref_count of each open file
    file_refs,  \* ref_count of each file; 0 when it is not allocated
    pipes,      \* pipes created so far
    child, next_fd, \* of a process that forks; next_fd also of one that exits
    panicked,
    lost        \* references to the directory that failed forks have lost

filesVars == <<at, open_files, cwd, file, open_refs, file_refs, pipes, child, next_fd,
          panicked, lost>>

FilesTypeOK ==
    /\ at \in [Proc -> {"unborn", "embryo", "run", "fork", "exit", "dead"}]
    /\ open_files \in [Proc -> [Fd -> OpenFile \cup {NULL}]]
    /\ cwd \in [Proc -> File \cup {NULL}]
    /\ file \in [OpenFile -> File \cup {NULL}]
    /\ open_refs \in [OpenFile -> 0 .. MAX_OPEN_FILES]
    /\ file_refs \in [File -> Nat]
    /\ pipes \subseteq Pipe
    /\ child \in [Proc -> Proc \cup {NULL}]
    /\ next_fd \in [Proc -> 0 .. MAX_OPEN_FILES]
    /\ panicked \in BOOLEAN
    /\ lost \in 0 .. Cardinality(Proc)

NoFiles == [fd \in Fd |-> NULL]

FilesInit ==
    /\ at = [p \in Proc |-> IF p = First THEN "run" ELSE "unborn"]
    /\ open_files = [p \in Proc |-> NoFiles]
    /\ cwd = [p \in Proc |-> NULL]
    /\ file = [o \in OpenFile |-> NULL]
    /\ open_refs = [o \in OpenFile |-> 0]
    /\ file_refs = [f \in File |-> IF f \in TableFile THEN 1 ELSE 0]
    /\ pipes = {}
    /\ child = [p \in Proc |-> NULL]
    /\ next_fd = [p \in Proc |-> 0]
    /\ panicked = FALSE
    /\ lost = 0

-----------------------------------------------------------------------------
At(p, what) == ~panicked /\ at[p] = what

Has(p, fd) == open_files[p][fd] # NULL

FileOf(p, fd) == file[open_files[p][fd]]

\* The lowest descriptor that is free, apart from those of S.
IsFreeFd(p, fd, S) ==
    /\ fd \notin S /\ ~Has(p, fd)
    /\ \A e \in Fd : e < fd => e \in S \/ Has(p, e)

SetFd(p, fd, o) == open_files' = [open_files EXCEPT ![p][fd] = o]

IsFree(o) == file[o] = NULL

\* file_file_ref and file_file_unref, on the counts r: freed at zero.
Ref(r, f)   == IF f = NULL THEN r ELSE [r EXCEPT ![f] = @ + 1]
Unref(r, f) == IF f = NULL THEN r ELSE [r EXCEPT ![f] = @ - 1]

\* Mutant: the file is not released with its last open file.
open_file_unref_leaks(o) ==
    /\ open_refs' = [open_refs EXCEPT ![o] = @ - 1]
    /\ file' = IF open_refs[o] = 1 THEN [file EXCEPT ![o] = NULL] ELSE file
    /\ UNCHANGED file_refs

\* file_open_file_unref: with the last reference the open file is freed and
\* releases its file.
open_file_unref(o) ==
    /\ open_refs' = [open_refs EXCEPT ![o] = @ - 1]
    /\ IF open_refs[o] = 1
       THEN /\ file' = [file EXCEPT ![o] = NULL]
            /\ file_refs' = Unref(file_refs, file[o])
       ELSE UNCHANGED <<file, file_refs>>

-----------------------------------------------------------------------------
(* sys_open of a name in a file system, which takes a reference for it.  No *)
(* driver or file system of the source has an open or close of its own that *)
(* could refuse; without a free descriptor or with another name it fails    *)
(* and changes nothing.                                                     *)

sys_open(p, f) ==
    /\ At(p, "run") /\ f \in TableFile
    /\ \E fd \in Fd, o \in OpenFile :
         /\ IsFreeFd(p, fd, {}) /\ IsFree(o)
         /\ file' = [file EXCEPT ![o] = f]
         /\ open_refs' = [open_refs EXCEPT ![o] = 1]
         /\ file_refs' = Ref(file_refs, f)
         /\ SetFd(p, fd, o)
    /\ UNCHANGED <<at, cwd, pipes, child, next_fd, panicked, lost>>

\* Closes a descriptor for sys_close, sys_dup2 and sys_exit.
Close(p, fd) ==
    /\ open_file_unref(open_files[p][fd])
    /\ SetFd(p, fd, NULL)

sys_close(p, fd) ==
    /\ At(p, "run") /\ Has(p, fd)
    /\ Close(p, fd)
    /\ UNCHANGED <<at, cwd, pipes, child, next_fd, panicked, lost>>

\* sys_dup2 with newfd in use closes it first.
Dup2Closes(p, old, new) ==
    /\ At(p, "run") /\ Has(p, old) /\ Has(p, new) /\ old # new
    /\ IF open_files[p][old] = open_files[p][new]
       THEN UNCHANGED <<file, open_refs, file_refs, open_files>>
       ELSE LET o == open_files[p][old]
                n == open_files[p][new]
            IN  /\ open_refs' = [open_refs EXCEPT ![n] = @ - 1, ![o] = @ + 1]
                /\ IF open_refs[n] = 1
                   THEN /\ file' = [file EXCEPT ![n] = NULL]
                        /\ file_refs' = Unref(file_refs, file[n])
                   ELSE UNCHANGED <<file, file_refs>>
                /\ SetFd(p, new, o)
    /\ UNCHANGED <<at, cwd, pipes, child, next_fd, panicked, lost>>

\* Mutant: the descriptor is copied and not counted.
ShareUncounted(o) == UNCHANGED open_refs

Share(o) == open_refs' = [open_refs EXCEPT ![o] = @ + 1]

\* sys_dup2 with newfd free: both descriptors share the open file.
Dup2(p, old, new) ==
    /\ At(p, "run") /\ Has(p, old) /\ ~Has(p, new)
    /\ Share(open_files[p][old])
    /\ SetFd(p, new, open_files[p][old])
    /\ UNCHANGED <<at, cwd, file, file_refs, pipes, child, next_fd, panicked, lost>>

\* Two descriptors, two open files and two files that share a buffer.
sys_pipe(p) ==
    /\ At(p, "run")
    /\ \E r, w \in Fd, o, q \in OpenFile, k \in Pipe \ pipes :
         /\ IsFreeFd(p, r, {}) /\ IsFreeFd(p, w, {r})
         /\ IsFree(o) /\ IsFree(q) /\ o # q
         /\ file' = [file EXCEPT ![o] = ReadEnd(k), ![q] = WriteEnd(k)]
         /\ open_refs' = [open_refs EXCEPT ![o] = 1, ![q] = 1]
         /\ file_refs' = [file_refs EXCEPT ![ReadEnd(k)] = 1, ![WriteEnd(k)] = 1]
         /\ pipes' = pipes \cup {k}
         /\ open_files' = [open_files EXCEPT ![p][r] = o, ![p][w] = q]
    /\ UNCHANGED <<at, cwd, child, next_fd, panicked, lost>>

-----------------------------------------------------------------------------
(* The working directory.                                                   *)

IsDirectory(f) == f = Directory

\* sys_chdir: file_open took a reference, which becomes the process's or is
\* given back.
sys_chdir(p, f) ==
    /\ At(p, "run") /\ f \in TableFile
    /\ IF IsDirectory(f)
       THEN /\ cwd' = [cwd EXCEPT ![p] = f]
            /\ file_refs' = Unref(Ref(file_refs, f), cwd[p])
       ELSE UNCHANGED <<cwd, file_refs>>
    /\ UNCHANGED <<at, open_files, file, open_refs, pipes, child, next_fd, panicked, lost>>

\* sys_fchdir
sys_fchdir(p, fd) ==
    /\ At(p, "run") /\ Has(p, fd) /\ IsDirectory(FileOf(p, fd))
    /\ cwd' = [cwd EXCEPT ![p] = FileOf(p, fd)]
    /\ file_refs' = Ref(Unref(file_refs, cwd[p]), FileOf(p, fd))
    /\ UNCHANGED <<at, open_files, file, open_refs, pipes, child, next_fd, panicked, lost>>

\* file_ioctl and file_readdirent switch over the type of the file, and panic
\* by default: neither has a case for a pipe.
IoctlOrReaddirent(p, fd) ==
    /\ At(p, "run") /\ Has(p, fd)
    /\ panicked' = (FileOf(p, fd) \in PipeFile)
    /\ UNCHANGED <<at, open_files, cwd, file, open_refs, file_refs, pipes, child,
                   next_fd, lost>>

-----------------------------------------------------------------------------
(* sys_fork: the working directory, then process_clone_files.               *)

ForkBegin(p, c) ==
    /\ At(p, "run") /\ at[c] = "unborn"
    /\ at' = [at EXCEPT ![p] = "fork", ![c] = "embryo"]
    /\ child' = [child EXCEPT ![p] = c]
    /\ next_fd' = [next_fd EXCEPT ![p] = 0]
    /\ cwd' = [cwd EXCEPT ![c] = cwd[p]]
    /\ file_refs' = Ref(file_refs, cwd[p])
    /\ UNCHANGED <<open_files, file, open_refs, pipes, panicked, lost>>

CloneRef(o) == file_refs' = Ref(file_refs, file[o])

\* file_open_file_clone for one descriptor; a free one stays free.
CloneFd(p) ==
    /\ At(p, "fork") /\ next_fd[p] \in Fd
    /\ LET src == open_files[p][next_fd[p]] IN
       \/ src = NULL /\ UNCHANGED <<file, open_refs, file_refs, open_files>>
       \/ /\ src # NULL
          /\ CloneRef(src)
          /\ \E o \in OpenFile :
               /\ IsFree(o)
               /\ file' = [file EXCEPT ![o] = file[src]]
               /\ open_refs' = [open_refs EXCEPT ![o] = 1]
               /\ SetFd(child[p], next_fd[p], o)
    /\ next_fd' = [next_fd EXCEPT ![p] = @ + 1]
    /\ UNCHANGED <<at, cwd, pipes, child, panicked, lost>>

\* No memory for a clone: those made so far are freed, and the process.  The
\* reference to the working directory is not given back.
CloneFails(p) ==
    /\ At(p, "fork") /\ next_fd[p] \in Fd /\ Has(p, next_fd[p])
    /\ LET c == child[p]
           made == {open_files[c][fd] : fd \in Fd} \ {NULL}
           of(f) == {o \in made : file[o] = f}
       IN  /\ file_refs' = [f \in File |-> file_refs[f] - Cardinality(of(f))]
           /\ file' = [o \in OpenFile |-> IF o \in made THEN NULL ELSE file[o]]
           /\ open_refs' = [o \in OpenFile |-> IF o \in made THEN 0 ELSE open_refs[o]]
           /\ open_files' = [open_files EXCEPT ![c] = NoFiles]
           /\ cwd' = [cwd EXCEPT ![c] = NULL]
           /\ at' = [at EXCEPT ![p] = "run", ![c] = "dead"]
    /\ child' = [child EXCEPT ![p] = NULL]
    /\ next_fd' = [next_fd EXCEPT ![p] = 0]
    /\ lost' = IF cwd[p] = NULL THEN lost ELSE lost + 1
    /\ UNCHANGED <<pipes, panicked>>

ForkEnd(p) ==
    /\ At(p, "fork") /\ next_fd[p] \notin Fd
    /\ at' = [at EXCEPT ![p] = "run", ![child[p]] = "run"]
    /\ child' = [child EXCEPT ![p] = NULL]
    /\ next_fd' = [next_fd EXCEPT ![p] = 0]
    /\ UNCHANGED <<open_files, cwd, file, open_refs, file_refs, pipes, panicked, lost>>

-----------------------------------------------------------------------------
(* sys_exit: every descriptor, then the working directory.                  *)

ExitBegin(p) ==
    /\ At(p, "run")
    /\ at' = [at EXCEPT ![p] = "exit"]
    /\ UNCHANGED <<open_files, cwd, file, open_refs, file_refs, pipes, child,
                   next_fd, panicked, lost>>

ExitFd(p) ==
    /\ At(p, "exit") /\ next_fd[p] \in Fd
    /\ IF Has(p, next_fd[p]) THEN Close(p, next_fd[p])
       ELSE UNCHANGED <<open_files, file, open_refs, file_refs>>
    /\ next_fd' = [next_fd EXCEPT ![p] = @ + 1]
    /\ UNCHANGED <<at, cwd, pipes, child, panicked, lost>>

ExitEnd(p) ==
    /\ At(p, "exit") /\ next_fd[p] \notin Fd
    /\ file_refs' = Unref(file_refs, cwd[p])
    /\ cwd' = [cwd EXCEPT ![p] = NULL]
    /\ at' = [at EXCEPT ![p] = "dead"]
    /\ next_fd' = [next_fd EXCEPT ![p] = 0]
    /\ UNCHANGED <<open_files, file, open_refs, pipes, child, panicked, lost>>

-----------------------------------------------------------------------------
FilesNext ==
    \E p \in Proc :
        \/ \E f \in TableFile : sys_open(p, f) \/ sys_chdir(p, f)
        \/ \E fd \in Fd : \/ sys_close(p, fd)
                          \/ sys_fchdir(p, fd)
                          \/ IoctlOrReaddirent(p, fd)
        \/ \E old, new \in Fd : Dup2(p, old, new) \/ Dup2Closes(p, old, new)
        \/ sys_pipe(p)
        \/ \E c \in Proc : ForkBegin(p, c)
        \/ CloneFd(p) \/ CloneFails(p) \/ ForkEnd(p)
        \/ ExitBegin(p) \/ ExitFd(p) \/ ExitEnd(p)

FilesSpec == FilesInit /\ [][FilesNext]_filesVars

-----------------------------------------------------------------------------
FdsOf(o) == {d \in Proc \X Fd : open_files[d[1]][d[2]] = o}

\* Who points to a file: open files, working directories, the tables.
Users(f) ==
    Cardinality({o \in OpenFile : file[o] = f})
    + Cardinality({p \in Proc : cwd[p] = f})
    + (IF f \in TableFile THEN 1 ELSE 0)

\* An open file counts the descriptors that point to it, all of one process,
\* so that it is freed with the last one: dup2 shares, fork copies.  (And every
\* variable has its type.)
OpenFilesCounted ==
    FilesTypeOK /\ \A o \in OpenFile :
        /\ open_refs[o] = Cardinality(FdsOf(o))
        /\ IsFree(o) <=> open_refs[o] = 0
        /\ \A d, e \in FdsOf(o) : d[1] = e[1]

\* A relative name is looked up in cwd->directory.mp without a look at its type.
CwdIsDirectory == \A p \in Proc : cwd[p] \in {NULL, Directory}

\* No file is freed while something points to it, and no reference is lost: a
\* file of a pipe is freed with its last user, in whatever process, and the
\* counts of the files of the tables do not creep up to the limit where
\* file_file_ref panics.  The exception is the reference to the working directory,
\* which is a directory, that sys_fork took when process_clone_files fails: one
\* for each such fork.
NoFileLeaks ==
    /\ CwdIsDirectory
    /\ \A f \in File :
        file_refs[f] = Users(f) + (IF f = Directory THEN lost ELSE 0)
=============================================================================
