--------------------------------- MODULE Io ---------------------------------
(* mfu_io.c: the wrappers of the system calls, which repeat a call that      *)
(* fails.  One call of a wrapper is modelled, by any of the tools, with a    *)
(* file system that may fail as often as it likes, before or after a call    *)
(* has taken effect (as EINTR and EIO may mean on a network file system).    *)
(* Every file is POSIX, as without DAOS, so that the mfu_file_* functions are *)
(* the wrappers they call.                                                   *)
EXTENDS Integers, Sequences

CONSTANTS
    Tries,      \* MFU_IO_TRIES (5)
    Size        \* the most units that a call reads or writes

IoAssumption == Tries \in Nat \ {0} /\ Size \in Nat

VARIABLES
    op,             \* the wrapper called
    asked,          \* units asked for, by a read or a write
    effect,         \* whether what the call is to bring about is so
    source, target, \* the data that is read or written, and what has become of it
    tries, moved,   \* locals of the wrapper
    errno,          \* of the last system call
    result          \* "none" until the wrapper returns: "ok", "failed", "aborted"

callVars == <<op, asked, effect, source, target, tries, moved, errno, result>>

-----------------------------------------------------------------------------
(* The wrappers, by what is common to them.                                  *)

AccessCalls == {"access", "faccessat"}
OwnerCalls == {"lchown", "chmod", "utimensat"}
StatCalls == {"stat", "lstat"}
LinkCalls == {"symlink", "link"}
PathCalls == {"realpath", "getcwd"}
SizeCalls == {"truncate", "ftruncate", "lseek", "fsync"}
DirectoryCalls == {"opendir", "readdir", "closedir"}
XattrCalls == {"llistxattr", "listxattr", "lgetxattr", "getxattr", "lsetxattr"}

\* What these bring about they do not bring about twice.
Creating == LinkCalls \cup {"mkdir", "mknod"}
Removing == {"unlink", "rmdir", "remove"}
Closing == {"close"}
Others == AccessCalls \cup OwnerCalls \cup StatCalls \cup {"readlink"} \cup PathCalls
              \cup SizeCalls \cup DirectoryCalls \cup XattrCalls
Single == Creating \cup Removing \cup Closing \cup Others \cup {"open"}
Transfers == {"read", "write", "pread", "pwrite"}

Interruptions == {"EINTR", "EIO"}
Errnos == Interruptions \cup {"ENOENT", "EACCES"}

Retried ==
    CASE op \in XattrCalls \cup PathCalls -> {}
      [] op = "readdir" -> Interruptions \cup {"ENOENT"}
      [] op = "open" -> Errnos
      [] OTHER -> Interruptions

\* mfu_open tries once before it counts.
Attempts == IF op = "open" THEN Tries + 1 ELSE Tries

\* What the system says to a call whose effect is there already.
Again ==
    CASE op \in Creating -> "EEXIST" [] op \in Removing -> "ENOENT" [] op \in Closing -> "EBADF"

\* What the callers take for success: create_directory, create_link and
\* create_file an EEXIST, remove_type an ENOENT.
Accepted ==
    CASE op \in {"mkdir", "symlink", "mknod"} -> {"EEXIST"}
      [] op \in Removing -> {"ENOENT"}
      [] OTHER -> {}

-----------------------------------------------------------------------------

CallInit ==
    /\ op \in Single \cup Transfers
    /\ asked \in IF op \in Transfers THEN 0 .. Size ELSE {0}
    /\ effect \in IF op \in Creating \cup Removing THEN BOOLEAN ELSE {FALSE}
    /\ source = [i \in 1 .. asked |-> i]
    /\ target = [i \in 1 .. asked |-> 0]
    /\ tries = Attempts /\ moved = 0 /\ errno = "none" /\ result = "none"

Returns(r) == result' = r /\ UNCHANGED <<op, asked, source>>
GoesOn == UNCHANGED <<op, asked, source, result>>

Calls == result = "none"

\* The call fails with e; it is repeated while the tries last.
AllTheTries == tries     \* mutant
TriesLeft == tries - 1
CallFails(e) ==
    /\ errno' = e
    /\ IF e \in Retried /\ TriesLeft > 0
       THEN tries' = TriesLeft /\ GoesOn
       ELSE tries' = tries /\ Returns(IF op = "getcwd" THEN "aborted" ELSE "failed")

\* Something comes into being, or goes, or is closed.
Change ==
    /\ Calls /\ op \in Creating \cup Removing \cup Closing
    /\ IF effect THEN CallFails(Again) /\ UNCHANGED effect
       ELSE \/ errno' = "none" /\ effect' = TRUE /\ Returns("ok") /\ UNCHANGED tries
            \/ \E e \in Interruptions : CallFails(e) /\ effect' \in BOOLEAN
            \/ CallFails("EACCES") /\ UNCHANGED effect
    /\ UNCHANGED <<target, moved>>

\* A call that may be repeated without harm.
Plain ==
    /\ Calls /\ op \in Others \cup {"open"}
    /\ \/ errno' = "none" /\ effect' = TRUE /\ Returns("ok") /\ UNCHANGED tries
       \/ \E e \in Errnos : CallFails(e) /\ UNCHANGED effect
    /\ UNCHANGED <<target, moved>>

\* The units from offset o of the buffer are stored at, or read from, place p.
Moved(o, p, k) ==
    [i \in 1 .. asked |-> IF p < i /\ i <= p + k THEN source[i - p + o] ELSE target[i]]
FromTheStart == 0       \* mutant
BufOffset == moved

\* Any error counts, and too many in a row end the job.
Trouble(e) ==
    /\ errno' = e /\ tries' = TriesLeft
    /\ IF tries' <= 0 THEN Returns("aborted") ELSE GoesOn

\* mfu_write goes on until all is written; mfu_read, mfu_pread and mfu_pwrite
\* return what the first call that does not fail has moved, which may be nothing.
Transfer ==
    /\ Calls /\ op \in Transfers
    /\ op \in {"read", "write"} => moved < asked
    /\ \/ \E k \in 1 .. asked - moved :
             /\ target' = Moved(BufOffset, moved, k)
             /\ moved' = moved + k /\ tries' = Tries /\ errno' = "none"
             /\ IF op = "write" /\ moved' < asked THEN GoesOn ELSE Returns("ok")
       \/ /\ errno' = "none" /\ UNCHANGED <<target, moved, tries>>
          /\ Returns(IF op = "write" THEN "aborted" ELSE "ok")
       \/ \E e \in Errnos : Trouble(e) /\ UNCHANGED <<target, moved>>
    /\ UNCHANGED effect

\* Nothing to read or write.
Nothing ==
    /\ Calls /\ op \in {"read", "write"} /\ moved = asked
    /\ Returns("ok")
    /\ UNCHANGED <<effect, target, tries, moved, errno>>

CallNext == Change \/ Plain \/ Transfer \/ Nothing

CallSpec == CallInit /\ [][CallNext]_callVars

-----------------------------------------------------------------------------
(* Properties                                                                *)

\* What a caller takes for success is so, even if the call that brought it about
\* was answered with an error and repeated (mfu_flist_copy.c:1004,
\* mfu_flist_remove.c:71); and a read or a write has moved exactly the units it
\* returns, in their order, mfu_write all of them.
TakenForSuccess == result = "ok" \/ (result = "failed" /\ errno \in Accepted)
Honest ==
    /\ (op \in Single /\ TakenForSuccess) => effect
    /\ (op \in Transfers /\ result = "ok") =>
           /\ \A i \in 1 .. moved : target[i] = source[i]
           /\ op = "write" => moved = asked

\* A wrapper has returned, or has ended the job.
CallOver == result # "none"
=============================================================================
