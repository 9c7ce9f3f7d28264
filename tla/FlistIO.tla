------------------------------ MODULE FlistIO -------------------------------
(* mfu_flist_io.c: the ranks of one job write a file list to a file, and the *)
(* ranks of a later job, as many or not, read it.  Items without details are *)
(* lines of text, "variable"; items with details have records of one length, *)
(* "fixed" (version 4 of the format); "v3" is a file of the older version 3, *)
(* which is only read; "text" is the listing for people, only written.       *)
(*                                                                           *)
(* The file is a function from the positions where something starts.  In a   *)
(* file of lines each byte has a position, and a byte is known by its line   *)
(* and its place there; the last one is the newline.  In a file of records a *)
(* position counts words (8 bytes).  Names with '|' or a newline in them,    *)
(* which the lines do not protect, are left out.                             *)
EXTENDS Integers, Sequences, FiniteSetsExt, SequencesExt, Functions

CONSTANTS
    Formats,                    \* the formats used
    WriterJobs, ReaderJobs,     \* the numbers of ranks that write and read
    Parts,                      \* for each job that writes, the lists its ranks may hold
    UserTables,                 \* what getpwent may list: sequences of users
    Leftovers,                  \* what the file may hold before
    Chunk,          \* chunk_size of read_cache_variable, the size of its buffers too
    BatchWords,     \* the buffer of records, in words
    MaxWrite,       \* maxwrite of mfu_flist_write_text
    WordSize        \* bytes of a word (8)

FlistIOAssumption ==
    /\ Chunk \in Nat \ {0} /\ BatchWords \in Nat /\ MaxWrite \in Nat \ {0}
    /\ WordSize \in Nat \ {0}
    /\ WriterJobs \subseteq Nat \ {0} /\ ReaderJobs \subseteq Nat \ {0}

VARIABLES
    format, lists, users, readers,  \* what is written, by the ranks DOMAIN lists; readers
    disk,               \* the file
    phase,              \* the collective step all ranks are at
    next, woff,         \* writers: items (text: bytes) written, and write_offset
    iters, turn,        \* writers: all_iters, and the collective writes made
    roff, carry, scan,  \* readers: read_offset, the partial line in the buffer, scan
    got, table          \* readers: the items read; the users read

job == <<format, lists, users, readers>>
writing == <<next, woff, iters, turn>>
reading == <<roff, carry, scan, got, table>>
vars == <<job, disk, phase, writing, reading>>

Writers == DOMAIN lists
Readers == 0 .. readers - 1
RoundedUp(a, b) == (a + b - 1) \div b
Smaller(a, b) == IF a < b THEN a ELSE b
Before(f, r) == SumFunctionOnSet(f, {q \in DOMAIN f : q < r})     \* MPI_Exscan
InOrder(f) == FlattenSeq([i \in 1 .. Cardinality(DOMAIN f) |-> f[i - 1]])
AllItems == InOrder(lists)

\* A write puts the cells of s into the file one after the other.
Put(d, at, s) ==
    [p \in DOMAIN d \cup (at .. at + Len(s) - 1) |->
        IF p \in at .. at + Len(s) - 1 THEN s[p - at + 1] ELSE d[p]]
Garbage == [garbage |-> TRUE]
Cell(p) == IF p \in DOMAIN disk THEN disk[p] ELSE Garbage

-----------------------------------------------------------------------------
(* Lines: the name, '|', the letter of the type and a newline.               *)

EncodeSize(e) == e.name + 3
Encode(e) == [i \in 1 .. EncodeSize(e) |-> [item |-> e, byte |-> i]]
Newline(b) == b # Garbage /\ b.byte = EncodeSize(b.item)
Decode(bytes) ==
    LET e == bytes[1].item IN IF bytes[1] # Garbage /\ bytes = Encode(e) THEN e ELSE Garbage

Lines(s) == FlattenSeq([i \in 1 .. Len(s) |-> Encode(s[i])])
LineBytes == [r \in Writers |-> Len(Lines(lists[r]))]

-----------------------------------------------------------------------------
(* Records.  A name has room for a whole number of words, one byte of them   *)
(* for the NUL; ten words of details follow.                                 *)

MaxFileName == Max({e.name + 1 : e \in ToSet(AllItems)})
CharWords(n) == RoundedUp(n, WordSize)
UserWords == IF users = <<>> THEN 0 ELSE CharWords(Max({u.name + 1 : u \in ToSet(users)}))
ElemWords(chars) == chars + 10
BufCount(chars) ==
    LET w == ElemWords(chars) IN (IF BatchWords < w THEN w ELSE BatchWords) \div w

HeaderWords == [fixed |-> 7, v3 |-> 9]
Header ==
    [version |-> IF format = "v3" THEN 3 ELSE 4, users |-> Len(users), uchars |-> UserWords,
     count |-> Len(AllItems), chars |-> CharWords(MaxFileName)]

\* Where users and items start, as the writer and as the readers count it.
UserAt(h, f, i) == HeaderWords[f] + (i - 1) * (h.uchars + 1)
ItemsAt(h, f) == HeaderWords[f] + h.users * (h.uchars + 1)

\* strncpy of a name that fills all the room leaves no NUL after it.
Pack(e, chars) == IF e.name + 1 <= chars * WordSize THEN e ELSE Garbage

\* The part of a file of records before the items.
Preamble(h, f) ==
    [p \in {0} \cup {UserAt(h, f, i) : i \in 1 .. h.users} |->
        IF p = 0 THEN h
        ELSE Pack(users[CHOOSE i \in 1 .. h.users : p = UserAt(h, f, i)], h.uchars)]

Records(d, at, s, chars) ==
    LET w == ElemWords(chars)
        new == {at + (i - 1) * w : i \in 1 .. Len(s)}
    IN  [p \in DOMAIN d \cup new |->
            IF p \in new THEN Pack(s[((p - at) \div w) + 1], chars) ELSE d[p]]

-----------------------------------------------------------------------------
(* Writing                                                                   *)

IterationsOf(r) ==
    CASE format = "fixed" -> RoundedUp(Len(lists[r]), BufCount(Header.chars))
      [] format = "text" -> RoundedUp(LineBytes[r], MaxWrite)
      [] OTHER -> 0
OwnIterations == [r \in Writers |-> IterationsOf(r)]      \* mutant
AllIterations == [r \in Writers |-> Max({IterationsOf(q) : q \in Writers})]

StartOffsets ==
    IF format = "fixed"
    THEN [r \in Writers |-> ItemsAt(Header, "fixed")
                + Before([q \in Writers |-> Len(lists[q])], r) * ElemWords(Header.chars)]
    ELSE [r \in Writers |-> Before(LineBytes, r)]

\* An empty list is not written, and what the file held stays; a listing of one
\* empties the file.
OpenToWrite ==
    /\ phase = "start" /\ format # "v3"
    /\ IF AllItems = <<>> /\ format # "text"
       THEN phase' = "written" /\ UNCHANGED <<disk, woff, iters>>
       ELSE /\ phase' = "writing"
            /\ disk' = IF format = "fixed" THEN Preamble(Header, "fixed") ELSE [p \in {} |-> Garbage]
            /\ woff' = StartOffsets
            /\ iters' = AllIterations
    /\ UNCHANGED <<job, next, turn, reading>>

\* As many whole lines as the buffer holds, at least one.
LinesThatFit(r) ==
    LET rest == SubSeq(lists[r], next[r] + 1, Len(lists[r]))
        room == Max({Chunk} \cup {EncodeSize(e) : e \in ToSet(lists[r])})
    IN  Max({n \in 1 .. Len(rest) : Len(Lines(SubSeq(rest, 1, n))) <= room})

WriteLines(r) ==
    /\ phase = "writing" /\ format = "variable" /\ next[r] < Len(lists[r])
    /\ LET n == LinesThatFit(r)
           b == Lines(SubSeq(lists[r], next[r] + 1, next[r] + n))
       IN  /\ disk' = Put(disk, woff[r], b)
           /\ woff' = [woff EXCEPT ![r] = @ + Len(b)]
           /\ next' = [next EXCEPT ![r] = @ + n]
    /\ UNCHANGED <<job, phase, iters, turn, reading>>

\* MPI_File_write_at_all: nobody starts the next one before all are in this one.
Collectively(r) ==
    /\ phase = "writing" /\ iters[r] > 0 /\ \A q \in Writers : turn[q] >= turn[r]
    /\ iters' = [iters EXCEPT ![r] = @ - 1]
    /\ turn' = [turn EXCEPT ![r] = @ + 1]

WriteRecords(r) ==
    /\ format = "fixed" /\ Collectively(r)
    /\ LET h == disk[0]
           n == Smaller(BufCount(h.chars), Len(lists[r]) - next[r])
       IN  /\ disk' = Records(disk, woff[r], SubSeq(lists[r], next[r] + 1, next[r] + n), h.chars)
           /\ woff' = [woff EXCEPT ![r] = @ + n * ElemWords(h.chars)]
           /\ next' = [next EXCEPT ![r] = @ + n]
    /\ UNCHANGED <<job, phase, reading>>

WriteText(r) ==
    /\ format = "text" /\ Collectively(r)
    /\ LET n == Smaller(MaxWrite, LineBytes[r] - next[r])
       IN  /\ disk' = Put(disk, woff[r], SubSeq(Lines(lists[r]), next[r] + 1, next[r] + n))
           /\ woff' = [woff EXCEPT ![r] = @ + n]
           /\ next' = [next EXCEPT ![r] = @ + n]
    /\ UNCHANGED <<job, phase, reading>>

CloseWritten ==
    /\ phase = "writing"
    /\ \A r \in Writers :
          /\ format = "variable" => next[r] = Len(lists[r])
          /\ iters[r] = 0 /\ \A q \in Writers : turn[q] = turn[r]
    /\ phase' = "written"
    /\ UNCHANGED <<job, disk, writing, reading>>

-----------------------------------------------------------------------------
(* Reading                                                                   *)

Share(all, r) == (all \div readers) + IF r < all % readers THEN 1 ELSE 0
ShareStart(all, r) == Before([q \in Readers |-> Share(all, q)], r)

FileSize == Cardinality(DOMAIN disk)
Chunks == RoundedUp(FileSize, Chunk)
SectionStart(r) == ShareStart(Chunks, r) * Chunk
SectionEnd(r) == Smaller((ShareStart(Chunks, r) + Share(Chunks, r)) * Chunk, FileSize)

\* Anything that does not start with version 3 or 4 is taken for lines.
Layout ==
    IF 0 \notin DOMAIN disk \/ "version" \notin DOMAIN disk[0] THEN "variable"
    ELSE IF disk[0].version = 3 THEN "v3" ELSE "fixed"

\* A section whose predecessor ends in the middle of a line starts with the
\* rest of that line, which the reader of the predecessor takes.
NeverScan(r) == FALSE       \* mutant
Scan(r) == SectionStart(r) > 0 /\ ~Newline(Cell(SectionStart(r) - 1))

OpenToRead ==
    /\ phase = IF format = "v3" THEN "start" ELSE "written"
    /\ format # "text"
    /\ phase' = "reading"
    /\ IF Layout = "variable"
       THEN /\ roff' = [r \in Readers |-> SectionStart(r)]
            /\ scan' = [r \in Readers |-> Scan(r)]
            /\ UNCHANGED table
       ELSE LET h == disk[0]
            IN  /\ roff' = [r \in Readers |->
                        ItemsAt(h, Layout) + ShareStart(h.count, r) * ElemWords(h.chars)]
                /\ table' = [i \in 1 .. h.users |-> Cell(UserAt(h, Layout, i))]
                /\ UNCHANGED scan
    /\ UNCHANGED <<job, disk, writing, carry, got>>

\* One buffer: the lines that end in it, up to the one that reaches the end of
\* the section; what follows the last newline is kept for the next buffer.
ReadLines(r) ==
    /\ phase = "reading" /\ Layout = "variable" /\ roff[r] < FileSize
    /\ LET n == Smaller(Chunk - Len(carry[r]), FileSize - roff[r])
           b == carry[r] \o [i \in 1 .. n |-> Cell(roff[r] + i - 1)]
           base == roff[r] - Len(carry[r])
           newlines == {i \in 1 .. Len(b) : Newline(b[i])}
           start == IF ~scan[r] THEN 0 ELSE IF newlines = {} THEN Len(b) ELSE Min(newlines)
           cuts == {i \in newlines : i > start}
           last == {i \in cuts : base + i >= SectionEnd(r)}
           used == IF last = {} THEN cuts ELSE {i \in cuts : i <= Min(last)}
           from(i) == Max({start} \cup {j \in used : j < i}) + 1
           ends == SetToSortSeq(used, <)
       IN  /\ got' = [got EXCEPT ![r] = @ \o
                        [k \in 1 .. Len(ends) |-> Decode(SubSeq(b, from(ends[k]), ends[k]))]]
           /\ carry' = [carry EXCEPT ![r] =
                            IF last # {} THEN <<>> ELSE SubSeq(b, Max(used \cup {start}) + 1, Len(b))]
           /\ roff' = [roff EXCEPT ![r] = IF last # {} THEN FileSize ELSE @ + n]
    /\ scan' = [scan EXCEPT ![r] = FALSE]
    /\ UNCHANGED <<job, disk, phase, writing, table>>

ReadRecords(r) ==
    /\ phase = "reading" /\ Layout # "variable"
    /\ LET h == disk[0]
           n == Smaller(BufCount(h.chars), Share(h.count, r) - Len(got[r]))
       IN  /\ n > 0
           /\ got' = [got EXCEPT ![r] = @ \o
                        [i \in 1 .. n |-> Cell(roff[r] + (i - 1) * ElemWords(h.chars))]]
           /\ roff' = [roff EXCEPT ![r] = @ + n * ElemWords(h.chars)]
    /\ UNCHANGED <<job, disk, phase, writing, carry, scan, table>>

AllRead(r) ==
    IF Layout = "variable" THEN roff[r] >= FileSize ELSE Len(got[r]) = Share(disk[0].count, r)

CloseRead ==
    /\ phase = "reading" /\ \A r \in Readers : AllRead(r)
    /\ phase' = "read"
    /\ UNCHANGED <<job, disk, writing, reading>>

-----------------------------------------------------------------------------

Init ==
    /\ format \in Formats /\ users \in UserTables /\ readers \in ReaderJobs
    /\ format \in {"variable", "text"} => users = <<>>
    /\ \E n \in WriterJobs : lists \in Parts[n]
    /\ phase = "start"
    /\ IF format = "v3"     \* written by an older version
       THEN /\ AllItems # <<>>
            /\ disk = Records(Preamble(Header, "v3"), ItemsAt(Header, "v3"), AllItems, Header.chars)
       ELSE disk \in {Put([p \in {} |-> Garbage], 0, Lines(s)) : s \in Leftovers}
    /\ next = [r \in Writers |-> 0] /\ woff = next /\ iters = next /\ turn = next
    /\ roff = [r \in Readers |-> 0] /\ scan = [r \in Readers |-> FALSE]
    /\ carry = [r \in Readers |-> <<>>] /\ got = carry /\ table = <<>>

Next ==
    \/ OpenToWrite
    \/ \E r \in Writers : WriteLines(r) \/ WriteRecords(r) \/ WriteText(r)
    \/ CloseWritten
    \/ OpenToRead
    \/ \E r \in Readers : ReadLines(r) \/ ReadRecords(r)
    \/ CloseRead

Spec == Init /\ [][Next]_vars
Fairness == WF_vars(Next)

-----------------------------------------------------------------------------
(* Properties                                                                *)

\* Whatever the numbers of ranks, and wherever the buffers and sections cut the
\* lines, what the readers hold together is the list that was written, in its
\* order and with its users (mfu_flist_write_cache, mfu_flist_read_cache); the
\* listing holds the lines of all ranks without a hole.  A list that is empty
\* is not written (mfu_flist_io.c:1533), and nothing is said of it.
ReadBack ==
    AllItems # <<>> =>
        /\ phase = "read" => InOrder(got) = AllItems /\ table = users
        /\ phase = "written" /\ format \in {"variable", "text"} =>
               disk = Put([p \in {} |-> Garbage], 0, Lines(AllItems))

\* No rank waits for ever in a collective write, and each job ends.
Over == phase = IF format = "text" THEN "written" ELSE "read"
IoEnds == <>Over
=============================================================================
