-------------------------------- MODULE Execve --------------------------------
(***************************************************************************)
(* sys_execve of src/process.c, which loads the program with the sys_read  *)
(* of ReadWrite.  The process of this module either makes calls on an open *)
(* file, or makes one call of execve.  A cell of its memory holds a        *)
(* character or a pointer, and is known by where its content comes from.   *)
(***************************************************************************)
EXTENDS ReadWrite, SequencesExt

CONSTANTS
    Calls,  \* [pathname, argv, envp]: the calls of execve; a vector is a record
            \* of its address and the pointers before its NULL
    Nul,    \* the addresses at which the caller has a NUL character
    HEAP    \* the most that malloc may give: HEAP_BLOCK_SIZE

VARIABLES
    exec,      \* where in sys_execve the process is; "none": it does not call it
    call,      \* the arguments
    heap,      \* buffers that execve has allocated
    user,      \* the user's part of memory
    new_sp,
    named,     \* was the name still there when the file was opened?
    syscall_sp

execVars == <<exec, call, heap, user, new_sp, named, syscall_sp>>

User      == LO .. HI - 1
OldMemory == [a \in User |-> <<"old", a>>]
NoCall    == CHOOSE c \in Calls : TRUE

ExecveInit ==
    /\ Init
    /\ \/ exec = "none" /\ call = NoCall
       \/ exec = "called" /\ call \in Calls
    /\ heap = {} /\ user = OldMemory
    /\ new_sp = HI /\ named = FALSE /\ syscall_sp = HI

-----------------------------------------------------------------------------
(* mem.c: strings and vectors of the caller are measured before they are    *)
(* copied.                                                                  *)

mem_user_valid_ptr(a) == a >= LO /\ a < HI

\* The NUL must come within the user buffer.
Lengths(a) == {n \in 0 .. MEM_USER_BUFFER_SIZE - 1 : a + n \in Nul}

mem_user_strlen(a) ==
    IF mem_user_valid_ptr(a) /\ Lengths(a) # {}
    THEN CHOOSE n \in Lengths(a) : \A m \in Lengths(a) : n <= m
    ELSE -1

\* So must the NULL of a vector, and all of the vector must be the user's.
mem_user_vector_len(v) ==
    IF /\ \A k \in 0 .. Len(v.pointers) : mem_user_valid_ptr(v.base + k)
       /\ Len(v.pointers) < MEM_USER_BUFFER_SIZE
    THEN Len(v.pointers)
    ELSE -1

argc == mem_user_vector_len(call.argv)
envc == mem_user_vector_len(call.envp)

BadString(v) == \E k \in DOMAIN v.pointers : mem_user_strlen(v.pointers[k]) < 0

\* The cells of a string, with its NUL.
String(a) == [k \in 1 .. mem_user_strlen(a) + 1 |-> <<"char", a + k - 1>>]

Strings(v) == FlattenSeq([k \in DOMAIN v.pointers |-> String(v.pointers[k])])

\* What comes before the k-th string of a vector.
StringsBefore(v, k) == Len(Strings([v EXCEPT !.pointers = SubSeq(@, 1, k - 1)]))

-----------------------------------------------------------------------------
(* The layout of vectors_buffer: both tables, then both sets of strings.    *)

envp_offset         == argc + 1
argv_strings_offset == envp_offset + envc + 1
envp_strings_offset == argv_strings_offset + Len(Strings(call.argv))
vectors_buffer_size == envp_strings_offset + Len(Strings(call.envp))

\* Where the buffer goes: at the end of the user's memory.
vectors_buffer_base == HI - vectors_buffer_size

\* Mutant: the strings of envp are laid over those of argv.
EnvpOverArgv(v) == argv_strings_offset

strings_offset(v) == IF v = call.argv THEN argv_strings_offset ELSE envp_strings_offset

NULL_POINTER == <<"pointer", 0>>

Table(v) ==
    [k \in DOMAIN v.pointers |->
        <<"pointer", vectors_buffer_base + strings_offset(v) + StringsBefore(v, k)>>]

vectors_buffer ==
    Table(call.argv) \o <<NULL_POINTER>> \o Table(call.envp) \o <<NULL_POINTER>>
        \o Strings(call.argv) \o Strings(call.envp)

\* The layout is computed with 16 bits, which a TODO of the code says may
\* overflow: calls whose strings are that long are left out.
ASSUME ExecveAssumption ==
    /\ HEAP \in 0 .. HI - LO - 4
    /\ Nul \subseteq Addr
    /\ \A c \in Calls : /\ c.pathname \in Addr
                        /\ c.argv \in [base : Addr, pointers : Seq(Addr \ {0})]
                        /\ c.envp \in [base : Addr, pointers : Seq(Addr \ {0})]
                        /\ c.argv # c.envp

-----------------------------------------------------------------------------
(* Up to the point of no return.                                            *)

ioVars == vars

Goes(from, to) == exec = from /\ exec' = to

Keeps == UNCHANGED <<ioVars, call, user, new_sp, named, syscall_sp>>

\* malloc of n cells for `buffer', or its failure
malloc(buffer, n) == n <= HEAP /\ heap' = heap \cup {buffer}

\* Mutant: the copy of envp is forgotten when the call fails.
FreeArgvOnly(buffers) == heap \ {"argv"}

Free(buffers) == heap \ buffers

\* Either vector is invalid.
BadVector ==
    /\ argc < 0 \/ envc < 0
    /\ Goes("called", "returned")
    /\ UNCHANGED heap /\ Keeps

AllocArgv ==
    /\ argc >= 0 /\ envc >= 0
    /\ \/ Goes("called", "argv") /\ malloc("argv", argc + 1)
       \/ Goes("called", "returned") /\ UNCHANGED heap
    /\ Keeps

BadArgvString ==
    /\ BadString(call.argv)
    /\ Goes("argv", "returned")
    /\ heap' = Free({"argv"}) /\ Keeps

AllocEnvp ==
    /\ ~BadString(call.argv)
    /\ \/ Goes("argv", "envp") /\ malloc("envp", envc + 1)
       \/ Goes("argv", "returned") /\ heap' = Free({"argv"})
    /\ Keeps

BadEnvpString ==
    /\ BadString(call.envp)
    /\ Goes("envp", "returned")
    /\ heap' = Free({"argv", "envp"}) /\ Keeps

AllocVectors ==
    /\ ~BadString(call.envp)
    /\ \/ Goes("envp", "vectors") /\ malloc("vectors", vectors_buffer_size)
       \/ Goes("envp", "returned") /\ heap' = Free({"argv", "envp"})
    /\ Keeps

-----------------------------------------------------------------------------
(* From this point on the program that called is destroyed.                 *)

\* What is pushed, the last one first.
Pushed == << <<"count", argc>>,
             <<"pointer", vectors_buffer_base>>,
             <<"pointer", vectors_buffer_base + envp_offset>> >>

\* The user's memory with the cells of s stored from address a on.
Stored(a, s) ==
    [b \in User |-> IF b - a \in 0 .. Len(s) - 1 THEN s[b - a + 1] ELSE user[b]]

\* The strings are measured once more, which gives the same lengths, and copied
\* to vectors_buffer, and from there to the user with envp, argv and argc.
CopyVectors ==
    /\ Goes("vectors", "open")
    /\ heap' = Free({"argv", "envp", "vectors"})
    /\ new_sp' = vectors_buffer_base - Len(Pushed)
    /\ user' = Stored(new_sp', Pushed \o vectors_buffer)
    /\ UNCHANGED <<ioVars, call, named, syscall_sp>>

\* sys_open fails: no such file, no descriptor or no memory left.
CannotOpen ==
    /\ Goes("open", "destroyed")
    /\ UNCHANGED heap /\ Keeps

\* The cells that hold the name of the file
Name == {a \in User : a - call.pathname \in 0 .. mem_user_strlen(call.pathname)}

\* sys_open reads the name from the user's memory as it is now, and finds the
\* file of that name, whatever it is, if the name is still there.
Open ==
    /\ Goes("open", "load")
    /\ type' \in Types \ {"pipe_read", "pipe_write"} /\ pos' = 0
    /\ named' = \A a \in Name : user[a] = <<"old", a>>
    /\ UNCHANGED <<op, args, done_count, mem, taken, result,
                   call, heap, user, new_sp, syscall_sp>>

\* All of the user's memory is asked for.
Load ==
    /\ Goes("load", "loading")
    /\ sys_read(LO, HI - LO)
    /\ UNCHANGED <<call, heap, user, new_sp, named, syscall_sp>>

WithImage == [a \in User |-> IF mem[a] = Old THEN user[a] ELSE <<"image", mem[a]>>]

\* Whatever sys_read returned, the file is closed and the program started.
Enter ==
    /\ Goes("loading", "entered")
    /\ Return
    /\ syscall_sp' = new_sp - 1
    /\ user' = [WithImage EXCEPT ![new_sp - 1] = <<"pointer", LO>>]
    /\ UNCHANGED <<call, heap, new_sp, named>>

sys_execve ==
    \/ BadVector \/ AllocArgv \/ BadArgvString \/ AllocEnvp \/ BadEnvpString
    \/ AllocVectors \/ CopyVectors \/ CannotOpen \/ Open \/ Load \/ Enter

ExecveNext ==
    \/ exec = "none" /\ Next /\ UNCHANGED execVars
    \/ exec = "loading" /\ ReadPiece /\ UNCHANGED execVars
    \/ sys_execve

ExecveSpec == ExecveInit /\ [][ExecveNext]_<<vars, execVars>>

\* The steps of a read or write under way
InCall ==
    \/ exec \in {"none", "loading"} /\ (ReadPiece \/ WritePiece) /\ UNCHANGED execVars
    \/ exec = "none" /\ Return /\ UNCHANGED execVars
    \/ Enter

\* The system call goes on until it returns.
ExecveFairSpec == ExecveSpec /\ WF_<<vars, execVars>>(InCall)

-----------------------------------------------------------------------------
\* Whatever fails, the kernel's buffers are given back, and a call that returns
\* has left the caller's memory as it was, but for one failure: the file cannot
\* be opened ("destroyed"), when the caller's stack is overwritten already.
FailedExecveUndone ==
    /\ exec \in {"returned", "destroyed", "entered"} => heap = {}
    /\ exec = "returned" => user = OldMemory

\* Does memory hold at address a a vector like v, with copies of its strings?
IsCopy(a, v) ==
    /\ user[a + Len(v.pointers)] = NULL_POINTER
    /\ \A k \in DOMAIN v.pointers :
         LET old == v.pointers[k]
             new == user[a + k - 1][2]
         IN  /\ user[a + k - 1][1] = "pointer"
             /\ \A n \in 0 .. mem_user_strlen(old) : user[new + n] = <<"char", old + n>>

\* The part of memory that the image fills.
Image == {a \in User : user[a][1] = "image"}

\* The new program finds its start, argc, argv and envp on its stack and all of
\* the strings behind, wherever the caller had them, also where the new ones go;
\* and its image, from the file that was named unless the vectors were copied
\* over the name.  The code does not check that the image ends below its stack.
ArgumentsArrive ==
    exec = "entered" /\ (\A a \in Image : a < syscall_sp) =>
        /\ user[syscall_sp] = <<"pointer", LO>>
        /\ user[syscall_sp + 1] = <<"count", Len(call.argv.pointers)>>
        /\ IsCopy(user[syscall_sp + 2][2], call.argv)
        /\ IsCopy(user[syscall_sp + 3][2], call.envp)
        /\ \A a \in Image : user[a] = <<"image", a - LO>>
        /\ named \/ \E a \in Name : a > syscall_sp
=============================================================================
