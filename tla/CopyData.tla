------------------------------ MODULE CopyData ------------------------------
(* mfu_copy_files: all ranks copy the data of the regular files of a list.   *)
(* The files exist already; each rank copies the sections that Chunks gives  *)
(* it, one after the other, buffer by buffer; then all agree on which files  *)
(* have failed.  The data of a file is a sequence of units; a unit is 0 or   *)
(* names its place in the source file, so that no two are alike; -1 is what  *)
(* an older destination held.                                                *)
(*                                                                           *)
(* Options: direct is O_DIRECT, which reads and writes whole buffers; sparse *)
(* skips buffers of zeros; fiemap says that the file system tells a sparse   *)
(* copy where the source has data.  A read or write that keeps failing       *)
(* aborts the job (mfu_io.c), which is not modelled here.                    *)
EXTENDS Chunks, SequencesExt

CONSTANTS
    BufSize,        \* buf_size, in units
    ReadTries,      \* the short reads in a row that O_DIRECT accepts (5)
    Names,          \* the items there may be
    Parts,          \* the parts of the list each rank may hold
    Sources,        \* the files there may be, with their data
    Leftovers,      \* what the destination of a file may hold before
    Options,        \* the options used
    MaxTroubles     \* bound: failures, short transfers and truncations of a source

ASSUME CopyDataAssumption ==
    /\ BufSize \in Nat \ {0} /\ ReadTries \in Nat \ {0} /\ MaxTroubles \in Nat
    /\ Options \subseteq [direct : BOOLEAN, sparse : BOOLEAN, fiemap : BOOLEAN]
    \* Otherwise mfu_copy_file_normal aborts the job.
    /\ \A o \in Options : o.direct => ChunkSize % BufSize = 0

\* No item is listed twice; the data are integers.
ASSUME ListsAssumption ==
    /\ Parts \subseteq [Ranks -> Seq(Names)]
    /\ \A p \in Parts : \A x, y \in Places(p) : ItemAt(p, x) = ItemAt(p, y) => x = y
    /\ Leftovers \subseteq Seq(Int)
    /\ \A s \in Sources : \A f \in DOMAIN s : s[f] \in Seq(Int)

VARIABLES
    opts, part, size,   \* copy_opts, and the list with the sizes the walk saw
    src, len,           \* the data of the source files, and how much of it is left
    dst,                \* the data of the destination files
    head,               \* each rank's sections
    pc,                 \* where each rank is
    elem,               \* the section it is at
    off,                \* off, from the start of the file
    buf,                \* the buffer to be written
    put,                \* n, the units of it written
    got,                \* bytes_read
    tries,              \* retries
    extents,            \* the units that the fiemap has and that are not copied yet
    vals,               \* the sections that have failed
    results, rc,        \* the files that have failed; what each rank returns
    troubles            \* what went wrong so far, counted

lists == <<opts, part, size, src, head>>
buffer == <<off, buf, put, got, tries, extents>>
ends == <<results, rc>>
vars == <<lists, len, dst, pc, elem, buffer, vals, ends, troubles>>

Files == DOMAIN size
Least(a, b) == IF a < b THEN a ELSE b
Most(a, b) == IF a < b THEN b ELSE a

-----------------------------------------------------------------------------
(* Files.  What is beyond the end of a file, or in a hole, reads as zeros.   *)

At(s, i) == IF i < Len(s) THEN s[i + 1] ELSE 0
Written(s, o, data) ==
    IF data = <<>> THEN s
    ELSE [i \in 1 .. Most(Len(s), o + Len(data)) |->
             IF o < i /\ i <= o + Len(data) THEN data[i - o] ELSE At(s, i - 1)]
Truncated(s, n) == [i \in 1 .. n |-> At(s, i - 1)]

\* What a read may return: short reads are possible, the end of file gives none.
Available(f, o, n) == Least(n, Most(0, len[f] - o))
Transfers(all, least) == {all} \cup IF troubles < MaxTroubles THEN least .. all - 1 ELSE {}
Counted(n, all) == troubles' = IF n = all THEN troubles ELSE troubles + 1
Data(f, o, n) == SubSeq(src[f], o + 1, o + n)

-----------------------------------------------------------------------------
\* mfu_create_file leaves nothing of an older file if the copy is sparse.
Leftover(o, s) == IF o.sparse THEN <<>> ELSE s

Init ==
    /\ opts \in Options /\ part \in Parts
    /\ src \in Sources /\ size = [f \in DOMAIN src |-> Len(src[f])]
    /\ len = size
    /\ \E s \in [Files -> Leftovers] : dst = [f \in Files |-> Leftover(opts, s[f])]
    /\ head = [r \in Ranks |-> ChunkList(r, part, size)]
    /\ pc = [r \in Ranks |-> "next"] /\ elem = [r \in Ranks |-> 0]
    /\ off = [r \in Ranks |-> 0] /\ buf = [r \in Ranks |-> <<>>]
    /\ put = [r \in Ranks |-> 0] /\ got = [r \in Ranks |-> 0] /\ tries = [r \in Ranks |-> 0]
    /\ extents = [r \in Ranks |-> {}]
    /\ vals = [r \in Ranks |-> [k \in 1 .. Len(head[r]) |-> FALSE]]
    /\ results = [r \in Ranks |-> [k \in 1 .. Len(part[r]) |-> FALSE]]
    /\ rc = [r \in Ranks |-> 0] /\ troubles = 0

Elem(r) == head[r][elem[r]]
PastEndOf(e) == e.offset + e.length + 1    \* mutant
EndOf(e) == e.offset + e.length
Trouble == troubles < MaxTroubles /\ troubles' = troubles + 1

\* A source file may be cut while it is copied.
Shrink(f) ==
    /\ Trouble
    /\ \E n \in 0 .. len[f] - 1 : len' = [len EXCEPT ![f] = n]
    /\ \E r \in Ranks : pc[r] \notin {"closed", "done"}
    /\ UNCHANGED <<lists, dst, pc, elem, buffer, vals, ends>>

\* The copy of a section ends with return -1.
Fail(r, k) ==
    /\ vals' = [vals EXCEPT ![r][k] = TRUE]
    /\ pc' = [pc EXCEPT ![r] = "next"]

\* mfu_copy_file opens both files of the next section, or one cannot be opened.
StartSection(r) ==
    /\ pc[r] = "next" /\ elem[r] < Len(head[r])
    /\ elem' = [elem EXCEPT ![r] = @ + 1]
    /\ \/ LET e == head[r][elem[r] + 1]
              mapped == opts.sparse /\ opts.fiemap /\ ~opts.direct IN
          /\ off' = [off EXCEPT ![r] = e.offset]
          /\ extents' = [extents EXCEPT ![r] =
                IF mapped THEN {i \in e.offset .. EndOf(e) - 1 :
                                   i < len[e.file] /\ At(src[e.file], i) # 0}
                ELSE {}]
          /\ pc' = [pc EXCEPT ![r] = IF mapped THEN "fiemap" ELSE "read"]
          /\ UNCHANGED <<vals, troubles, buf, put, got, tries>>
       \/ Trouble /\ Fail(r, elem[r] + 1) /\ UNCHANGED buffer
    /\ UNCHANGED <<lists, len, dst, ends>>

\* mfu_copy_file_normal reads a buffer.  O_DIRECT reads whole buffers, beyond the section
\* if need be, and repeats a read that ends before the file should; without it a short
\* read is as good as another.  No data at all means that the source has shrunk.
ToRead(r) == IF opts.direct THEN BufSize ELSE Least(BufSize, EndOf(Elem(r)) - off[r])
TooShort(r, n) ==
    opts.direct /\ 0 < n /\ n < BufSize /\ off[r] + n < Elem(r).size
Filled(r, n) ==
    Data(Elem(r).file, off[r], n) \o [i \in 1 .. IF opts.direct THEN BufSize - n ELSE 0 |-> 0]
StaysAt(r, n) == off[r]    \* mutant
After(r, n) == off[r] + n
Read(r) ==
    /\ pc[r] = "read" /\ off[r] < EndOf(Elem(r))
    /\ LET all == Available(Elem(r).file, off[r], ToRead(r))
       IN  \E n \in Transfers(all, 1) :
        /\ Counted(n, all)
        /\ \/ /\ TooShort(r, n) /\ tries[r] + 1 < ReadTries
              /\ tries' = [tries EXCEPT ![r] = @ + 1]
              /\ UNCHANGED <<pc, off, buf, put, got, vals>>
           \/ /\ n = 0 \/ (TooShort(r, n) /\ tries[r] + 1 = ReadTries)
              /\ tries' = [tries EXCEPT ![r] = 0]
              /\ Fail(r, elem[r]) /\ UNCHANGED <<off, buf, put, got>>
           \/ /\ n > 0 /\ ~TooShort(r, n)
              /\ tries' = [tries EXCEPT ![r] = 0]
              /\ IF opts.sparse /\ ToSet(Filled(r, n)) = {0}
                   THEN off' = [off EXCEPT ![r] = After(r, n)] /\ UNCHANGED <<pc, buf, put, got>>
                   ELSE /\ buf' = [buf EXCEPT ![r] = Filled(r, n)]
                        /\ put' = [put EXCEPT ![r] = 0] /\ got' = [got EXCEPT ![r] = n]
                        /\ pc' = [pc EXCEPT ![r] = "write"] /\ UNCHANGED off
              /\ UNCHANGED vals
    /\ UNCHANGED <<lists, len, dst, elem, extents, ends>>

\* It writes the buffer.  A short write is continued, with O_DIRECT it is repeated.
AfterWrite(r, n) == IF opts.direct /\ n < BufSize THEN put[r] ELSE put[r] + n
Write(r) ==
    /\ pc[r] = "write"
    /\ LET all == Len(buf[r]) - put[r]
       IN  \E n \in Transfers(all, 0) :
        /\ Counted(n, all)
        /\ dst' = [dst EXCEPT ![Elem(r).file] =
                      Written(@, off[r] + put[r], SubSeq(buf[r], put[r] + 1, put[r] + n))]
        /\ IF AfterWrite(r, n) < Len(buf[r])
             THEN put' = [put EXCEPT ![r] = AfterWrite(r, n)] /\ UNCHANGED <<pc, off, buf, got>>
             ELSE /\ off' = [off EXCEPT ![r] = After(r, got[r])]
                  /\ pc' = [pc EXCEPT ![r] = "read"]
                  /\ buf' = [buf EXCEPT ![r] = <<>>]
                  /\ put' = [put EXCEPT ![r] = 0] /\ got' = [got EXCEPT ![r] = 0]
    /\ UNCHANGED <<lists, len, elem, tries, extents, vals, ends>>

\* mfu_copy_file_fiemap copies the extents, from the first, a buffer at a time.  It does not
\* take the end of the source for an error: it goes to the next extent, which has no data either.
\* A seek that fails ends the section.
Fiemap(r) ==
    /\ pc[r] = "fiemap" /\ extents[r] # {}
    /\ LET f == Elem(r).file
           o == CHOOSE i \in extents[r] : \A j \in extents[r] : i <= j
           left == CHOOSE n \in 1 .. BufSize :
                      /\ o .. o + n - 1 \subseteq extents[r]
                      /\ n = BufSize \/ o + n \notin extents[r]
           all == Available(f, o, left)
       IN  \/ \E n \in Transfers(all, 1) :
                /\ Counted(n, all)
                /\ dst' = [dst EXCEPT ![f] = Written(@, o, Data(f, o, n))]
                /\ extents' = [extents EXCEPT ![r] = IF n = 0 THEN {} ELSE @ \ (o .. o + n - 1)]
                /\ UNCHANGED <<pc, vals>>
           \/ Trouble /\ Fail(r, elem[r]) /\ UNCHANGED <<dst, extents>>
    /\ UNCHANGED <<lists, len, elem, off, buf, put, got, tries, ends>>

\* The rank with the last section sets the size of the file.
EndSection(r) ==
    /\ \/ pc[r] = "read" /\ off[r] >= EndOf(Elem(r))
       \/ pc[r] = "fiemap" /\ extents[r] = {}
    /\ \/ /\ dst' = IF LastOf(Elem(r)) THEN [dst EXCEPT ![Elem(r).file] = Truncated(@, Elem(r).size)]
                    ELSE dst
          /\ pc' = [pc EXCEPT ![r] = "next"] /\ UNCHANGED <<vals, troubles>>
       \/ LastOf(Elem(r)) /\ Trouble /\ Fail(r, elem[r]) /\ UNCHANGED dst
    /\ UNCHANGED <<lists, len, elem, buffer, ends>>

\* All files are closed, then the flags go to the owners.
Close(r) ==
    /\ pc[r] = "next" /\ elem[r] = Len(head[r])
    /\ pc' = [pc EXCEPT ![r] = "closed"]
    /\ UNCHANGED <<lists, len, dst, elem, buffer, vals, ends, troubles>>
Report ==
    /\ \A r \in Ranks : pc[r] = "closed"
    /\ results' = Lor(part, head, vals)
    /\ rc' = [r \in Ranks |-> IF TRUE \in ToSet(results'[r]) THEN -1 ELSE 0]
    /\ pc' = [r \in Ranks |-> "done"]
    /\ UNCHANGED <<lists, len, dst, elem, buffer, vals, troubles>>

Done == (\A r \in Ranks : pc[r] = "done") /\ UNCHANGED vars

Next == \/ \E r \in Ranks : \/ StartSection(r) \/ Read(r) \/ Write(r) \/ Fiemap(r)
                            \/ EndSection(r) \/ Close(r)
        \/ \E f \in Files : Shrink(f)
        \/ Report \/ Done

Spec == Init /\ [][Next]_vars
\* No rank stops, and no transfer stays short for ever.
FairSpec == Spec /\ WF_vars(Next)

-----------------------------------------------------------------------------
Sections == Places(head)
Covers(e, f, i) == e.file = f /\ e.offset <= i /\ i < e.offset + e.length
Listed == {f \in Files : \E r \in Ranks : f \in ToSet(part[r])}
Finished == \A r \in Ranks : pc[r] = "done"

\* "those are then evenly distributed amongst the processes": every unit of every file of the
\* list is in one section of one rank, and an empty file has one section too.
EachUnitOnce ==
    \A f \in Listed :
        /\ \A i \in 0 .. size[f] - 1 :
            Cardinality({s \in Sections : Covers(ItemAt(head, s), f, i)}) = 1
        /\ Cardinality({s \in Sections : ItemAt(head, s).file = f /\ LastOf(ItemAt(head, s))}) = 1

\* "execute a LOR per item in the flist, and return the result to the process owning that
\* item": the owner learns of every file that has a failed section, and of no other; and a
\* file that is not reported has the data the source had when it was listed, in spite of short
\* transfers, of what was there before, of buffers written beyond its end and of files cut in
\* between; except that a copy by fiemap does not see that a source was cut.
CopiedOrReported ==
    Finished => \A x \in FilePlaces(part, size) :
        LET f == ItemAt(part, x)
            failed == ItemAt(results, x)
        IN  /\ failed <=> \E s \in Sections : ItemAt(head, s).file = f /\ ItemAt(vals, s)
            /\ IF failed THEN rc[x[1]] = -1
               ELSE dst[f] = src[f] \/ (opts.sparse /\ opts.fiemap /\ len[f] < size[f])

\* What a rank does never changes the data of a section that is not its own: whole buffers
\* of O_DIRECT and the final truncate included.
Apart ==
    \A f \in Files : \A i \in 0 .. size[f] - 1 :
        At(dst'[f], i) # At(dst[f], i) =>
            \E r \in Ranks : pc[r] \in {"write", "fiemap"} /\ Covers(Elem(r), f, i)
SectionsApart == [][Apart]_vars

\* Every rank comes to the report.
Ends == <>Finished
=============================================================================
