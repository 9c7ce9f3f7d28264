----------------------------- MODULE LibraryProofs -----------------------------
(* Theorems about parts of MCLibrary: what the wrappers of mfu_io.c return   *)
(* is true of every call they make, whatever the limit on tries and however  *)
(* much is asked for; what dcmp writes is what the two trees say, whatever   *)
(* these are and whatever is asked of them; dsync --link-dest spares the     *)
(* third tree, and links or copies what it is to; mfu_flist_chmod sets the   *)
(* modes that are asked for; and arguments and items get the paths that lead *)
(* where they should.                                                        *)
EXTENDS Io, Dcmp, Chmod, LinkDest, Paths, BlocksProofs, SequenceTheorems, FiniteSetTheorems, TLAPS

-----------------------------------------------------------------------------
(* The wrappers                                                              *)

\* The locals of a wrapper, the data, and how much of it has been moved.
IoTypeOK ==
    /\ op \in Single \cup Transfers
    /\ asked \in Nat /\ moved \in 0 .. asked
    /\ effect \in BOOLEAN
    /\ source \in [1 .. asked -> Int] /\ target \in [1 .. asked -> Int]

\* An error that the callers take for success is one that only the effect itself
\* brings forth, since no call takes an effect back.
EffectInv ==
    /\ op \in Single /\ result = "ok" => effect
    /\ errno \in Accepted => effect

\* The data lies in order up to moved.
DataInv ==
    /\ \A i \in 1 .. moved : target[i] = source[i]
    /\ op = "write" /\ result = "ok" => moved = asked

IoInv == IoTypeOK /\ EffectInv /\ DataInv

-----------------------------------------------------------------------------

\* A wrapper of mfu_io.c is one of those that move data, change the file system,
\* or do neither.
LEMMA OpsApart ==
    /\ Transfers \cap Single = {}
    /\ Creating \cap Removing = {} /\ Others \cap (Creating \cup Removing) = {}
    /\ Closing \cap (Creating \cup Removing) = {}
    /\ "open" \notin Creating \cup Removing
    /\ "write" \in Transfers
BY DEF Transfers, Single, Creating, Removing, Closing, Others, AccessCalls, OwnerCalls,
       StatCalls, LinkCalls, PathCalls, SizeCalls, DirectoryCalls, XattrCalls

\* Only wrappers that create or remove have an error that is taken for success.
LEMMA AcceptedErrnos ==
    /\ Accepted # {} => op \in Creating \cup Removing
    /\ Accepted \subseteq {"EEXIST", "ENOENT"}
    /\ op \in Creating => "ENOENT" \notin Accepted
BY OpsApart DEF Accepted, Creating, LinkCalls, Removing

\* What a failed call leaves alone.
LEMMA FailsKeeps ==
    ASSUME NEW e, CallFails(e)
    PROVE  errno' = e /\ UNCHANGED <<op, asked, source>> /\ (result' = "ok" => result = "ok")
BY DEF CallFails, GoesOn, Returns

\* What is true before the first call of a wrapper.
LEMMA IoInit ==
    ASSUME IoAssumption, CallInit
    PROVE  IoInv
<1>1. asked \in Nat
  BY DEF IoAssumption, CallInit
<1>2. IoTypeOK
  <2>1. effect \in BOOLEAN
    BY DEF CallInit
  <2>2. op \in Single \cup Transfers /\ moved \in 0 .. asked
    BY <1>1 DEF CallInit
  <2>3. source \in [1 .. asked -> Int] /\ target \in [1 .. asked -> Int]
    BY <1>1 DEF CallInit
  <2> QED
    BY <1>1, <2>1, <2>2, <2>3 DEF IoTypeOK
<1>3. errno \notin Accepted
  BY AcceptedErrnos DEF CallInit
<1> QED
  BY <1>1, <1>2, <1>3 DEF CallInit, IoInv, EffectInv, DataInv

\* A call that creates, removes or closes.
LEMMA ChangeStep ==
    ASSUME IoInv, Change
    PROVE  IoInv'
<1>1. op \in Creating \cup Removing \cup Closing /\ result = "none" /\ UNCHANGED <<target, moved>>
  BY DEF Change, Calls
<1>2. CASE effect
  <2>1. CallFails(Again) /\ effect'
    BY <1>2 DEF Change
  <2>2. UNCHANGED <<op, asked, source>> /\ result' # "ok"
    BY <1>1, <2>1, FailsKeeps
  <2> QED
    BY <1>1, <2>1, <2>2 DEF IoInv, IoTypeOK, EffectInv, DataInv
<1>3. CASE ~effect /\ errno' = "none" /\ effect' = TRUE /\ Returns("ok")
  <2>1. op # "write"
    BY <1>1, OpsApart DEF Single
  <2> QED
    BY <1>1, <1>3, <2>1 DEF IoInv, IoTypeOK, EffectInv, DataInv, Returns
<1>4. ASSUME NEW e \in Interruptions \cup {"EACCES"}, CallFails(e), effect' \in BOOLEAN
      PROVE  IoInv'
  <2>1. errno' = e /\ UNCHANGED <<op, asked, source>> /\ result' # "ok"
    BY <1>1, <1>4, FailsKeeps
  <2>2. errno' \notin Accepted'
    BY <2>1, AcceptedErrnos DEF Interruptions, Accepted
  <2> QED
    BY <1>1, <1>4, <2>1, <2>2 DEF IoInv, IoTypeOK, EffectInv, DataInv
<1>5. effect \in BOOLEAN
  BY DEF IoInv, IoTypeOK
<1> QED
  BY <1>2, <1>3, <1>4, <1>5 DEF Change

\* A call that may be repeated without harm.
LEMMA PlainStep ==
    ASSUME IoInv, Plain
    PROVE  IoInv'
<1>1. op \in Others \cup {"open"} /\ result = "none" /\ UNCHANGED <<target, moved>>
  BY DEF Plain, Calls
<1>2. op \notin Creating \cup Removing /\ op # "write"
  BY <1>1, OpsApart DEF Single
<1>3. UNCHANGED <<op, asked, source>> /\ effect' \in BOOLEAN /\ (result' = "ok" => effect')
  <2>1. CASE effect' = TRUE /\ Returns("ok")
    BY <2>1 DEF Returns
  <2>2. ASSUME NEW e, CallFails(e), UNCHANGED effect
        PROVE  <1>3
    BY <1>1, <2>2, FailsKeeps DEF IoInv, IoTypeOK
  <2> QED
    BY <2>1, <2>2 DEF Plain
<1>4. Accepted' = {}
  BY <1>2, <1>3, AcceptedErrnos DEF Accepted
<1> QED
  BY <1>1, <1>2, <1>3, <1>4 DEF IoInv, IoTypeOK, EffectInv, DataInv

\* A read or a write, which goes on where the last one stopped.
LEMMA TransferStep ==
    ASSUME IoInv, Transfer
    PROVE  IoInv'
<1>1. op \in Transfers /\ result = "none" /\ UNCHANGED effect
  BY DEF Transfer, Calls
<1>2. op \notin Single
  BY <1>1, OpsApart
<1>3. UNCHANGED <<op, asked, source>>
  BY DEF Transfer, Returns, GoesOn, Trouble
<1>4. EffectInv'
  <2>1. op \notin Creating \cup Removing
    BY <1>2 DEF Single
  <2> QED
    BY <1>2, <1>3, <2>1, AcceptedErrnos DEF EffectInv, Accepted
<1>5. CASE UNCHANGED <<target, moved>> /\ result' # "ok"
  BY <1>1, <1>3, <1>4, <1>5 DEF IoInv, IoTypeOK, DataInv
<1>6. CASE UNCHANGED <<target, moved>> /\ op # "write"
  BY <1>1, <1>3, <1>4, <1>6 DEF IoInv, IoTypeOK, DataInv
<1>7. ASSUME NEW k \in 1 .. asked - moved,
             target' = Moved(BufOffset, moved, k), moved' = moved + k,
             IF op = "write" /\ moved' < asked THEN GoesOn ELSE Returns("ok")
      PROVE  IoInv'
  <2>1. k \in Nat /\ asked \in Nat /\ moved \in Nat /\ moved + k <= asked
    BY DEF IoInv, IoTypeOK
  <2>2. target' = [i \in 1 .. asked |-> IF moved < i /\ i <= moved + k THEN source[i] ELSE target[i]]
    BY <1>7, <2>1 DEF Moved, BufOffset, IoInv, IoTypeOK
  <2>3. moved' \in 0 .. asked /\ target' \in [1 .. asked -> Int]
    BY <1>7, <2>1, <2>2 DEF IoInv, IoTypeOK
  <2>4. \A i \in 1 .. moved' : target'[i] = source[i]
    BY <1>7, <2>1, <2>2 DEF IoInv, DataInv
  <2>5. op = "write" /\ result' = "ok" => moved' = asked
    BY <1>1, <1>7, <2>1, <2>3 DEF GoesOn, Returns
  <2> QED
    BY <1>1, <1>3, <1>4, <2>3, <2>4, <2>5 DEF IoInv, IoTypeOK, DataInv
<1>8. ASSUME NEW e, Trouble(e), UNCHANGED <<target, moved>>
      PROVE  IoInv'
  BY <1>1, <1>5, <1>8 DEF Trouble, Returns, GoesOn
<1>9. ASSUME UNCHANGED <<target, moved>>, Returns(IF op = "write" THEN "aborted" ELSE "ok")
      PROVE  IoInv'
  BY <1>5, <1>6, <1>9 DEF Returns
<1> QED
  BY <1>7, <1>8, <1>9 DEF Transfer

\* Nothing to read or write.
LEMMA NothingStep ==
    ASSUME IoInv, Nothing
    PROVE  IoInv'
<1>1. op \in Transfers /\ moved = asked
  BY DEF Nothing, Transfers
<1>2. op \notin Single
  BY <1>1, OpsApart
<1> QED
  BY <1>1, <1>2 DEF Nothing, Returns, IoInv, IoTypeOK, EffectInv, DataInv, Accepted

-----------------------------------------------------------------------------

\* What mfu_io.c's wrappers return is so: an effect that a caller takes for
\* granted, though a call that brought it about was answered with an error and
\* repeated, and the units that a read or a write says it has moved.
THEOREM WrappersAreHonest == ASSUME IoAssumption PROVE CallSpec => []Honest
<1>1. CallInit => IoInv
  BY IoInit
<1>2. IoInv /\ [CallNext]_callVars => IoInv'
  <2>1. ASSUME IoInv, UNCHANGED callVars
        PROVE  IoInv'
    BY <2>1 DEF callVars, IoInv, IoTypeOK, EffectInv, DataInv, Accepted
  <2> QED
    BY <2>1, ChangeStep, PlainStep, TransferStep, NothingStep DEF CallNext
<1>3. IoInv => Honest
  BY DEF IoInv, EffectInv, DataInv, Honest, TakenForSuccess
<1> QED
  BY <1>1, <1>2, <1>3, PTL DEF CallSpec
-----------------------------------------------------------------------------
(* dcmp                                                                      *)

\* The arguments have been parsed and are legal.
Parsed == stage # "options" /\ ~Usage

\* What dcmp_option_add_output has made of the options.
OutputsOf ==
    IF line.base \/ line.outputs = <<>> THEN Defaults \o line.outputs ELSE line.outputs

\* The contents of the files of a name are to be read.
ToRead(name) ==
    "CONTENT" \in compared /\ Content(SourceList[name], DestinationList[name]) = "READ"

\* What the comparison finds of a field of an item of both trees, all but the
\* contents at once.
FieldFound(f, name) ==
    LET s == SourceList[name]
        d == DestinationList[name]
    IN  IF f = "EXIST" THEN "COMMON"
        ELSE IF f \notin compared THEN "INIT"
        ELSE IF f \in {"SIZE"} \cup Attributes THEN Metadata(s, d)[f]
        ELSE IF f = "TYPE" THEN StateOf(s.type = d.type)
        ELSE IF ~ToRead(name) THEN Content(s, d)
        ELSE IF stage = "items" THEN "INIT"
        ELSE StateOf(AnyOf(name) = {})

\* The states of all fields of an item of side i.
Found(i, name) ==
    IF name \in left THEN [f \in Fields |-> "INIT"]
    ELSE IF name \in Common THEN [f \in Fields |-> FieldFound(f, name)]
    ELSE [f \in Fields |-> IF i = 1 /\ f = "EXIST" THEN "ONLY_SRC" ELSE "INIT"]

\* What is to be written of an output.
ReportOf(output) ==
    [items |-> [i \in 1 .. 2 |-> SaidBy(output, i)],
     counts |-> [i \in 1 .. 2 |-> [j \in DOMAIN output |-> Cardinality(SaidFirst(output, i, j))]]]

\* Nothing is done before the arguments are parsed, nor if they are wrong.
OptionsInv ==
    /\ sides \in Pairs /\ line \in CommandLines
    /\ stage \in {"options", "items", "outputs", "aborted", "over"}
    /\ stage = "options" => reports = <<>> /\ contents = {} /\ DOMAIN flags = {}
    /\ stage # "options" /\ Usage => stage = "over" /\ reports = <<>> /\ status = 1
    /\ Parsed => /\ outputs = OutputsOf
                 /\ compared = UNION {DependOf(outputs[n]) : n \in DOMAIN outputs}

\* The maps hold what has been found of the items that are no longer left, and the
\* files to read are among these.
ItemsInv ==
    Parsed =>
        /\ left \subseteq DOMAIN SourceList
        /\ stage # "items" => left = {}
        /\ contents = {name \in Common \ left : ToRead(name)}
        /\ maps = [i \in 1 .. 2 |-> [name \in DOMAIN sides[i] |-> Found(i, name)]]

\* Each chunk that has been compared has the flag that its data or a failure gives it.
FlagsInv ==
    Parsed =>
        /\ DOMAIN flags \subseteq Chunks
        /\ left # {} => DOMAIN flags = {}
        /\ \A c \in DOMAIN flags :
              flags[c] \in {"failed", IF SameUnits(c[1], c[2]) THEN "same" ELSE "differ"}
        /\ stage # "items" =>
              /\ DOMAIN flags = Chunks
              /\ status = IF \E c \in DOMAIN flags : flags[c] = "failed" THEN 1 ELSE 0

\* What has been written is what was to be.
ReportsInv ==
    Parsed =>
        /\ stage = "items" => reports = <<>>
        /\ reports \in Seq({ReportOf(outputs[n]) : n \in DOMAIN outputs})
        /\ Len(reports) <= Len(outputs)
        /\ \A n \in DOMAIN reports : reports[n] = ReportOf(outputs[n])
        /\ stage = "aborted" => line.debug /\ \A n \in DOMAIN outputs : Expressions(outputs[n]) = {}

DcmpInv == OptionsInv /\ ItemsInv /\ FlagsInv /\ ReportsInv

-----------------------------------------------------------------------------
(* The options                                                               *)

\* The expressions of the default outputs are legal (dcmp_default_outputs).
LEMMA DefaultsAreLegal ==
    /\ Len(Defaults) = 6 /\ IsSequence(Defaults)
    /\ \A n \in 1 .. 6 : /\ IsOutput(Defaults[n])
                       /\ \A x \in Expressions(Defaults[n]) : Legal(x)
<1> DEFINE One(x) == <<<<x>>>>
           Two(x) == <<<<Exist("COMMON"), x>>>>
<1>1. /\ Defaults = <<One(Exist("COMMON")), One(Exist("DIFFER")), Two(<<"TYPE", "COMMON">>),
                      Two(<<"TYPE", "DIFFER">>), Two(<<"CONTENT", "COMMON">>),
                      Two(<<"CONTENT", "DIFFER">>)>>
  BY DEF Defaults
<1>2. \A x : Expressions(One(x)) = {x} /\ Expressions(Two(x)) = {Exist("COMMON"), x}
  BY DEF Expressions
<1>3. \A f, s : IsOutput(One(<<f, s>>)) /\ IsOutput(Two(<<f, s>>)) /\ IsOutput(One(Exist(s)))
  <2>1. \A x : IsSequence(One(x)) /\ IsSequence(Two(x))
    BY DEF IsSequence
  <2> HIDE DEF One, Two
  <2> QED
    BY <1>2, <2>1 DEF IsOutput, Exist
<1>4. /\ Legal(Exist("COMMON")) /\ Legal(Exist("DIFFER"))
      /\ Legal(<<"TYPE", "COMMON">>) /\ Legal(<<"TYPE", "DIFFER">>)
      /\ Legal(<<"CONTENT", "COMMON">>) /\ Legal(<<"CONTENT", "DIFFER">>)
  BY DEF Legal, Exist, Fields, States
<1> HIDE DEF One, Two
<1>5. Len(Defaults) = 6 /\ IsSequence(Defaults)
  BY <1>1 DEF IsSequence
<1>6. ASSUME NEW n \in 1 .. 6, NEW x \in Expressions(Defaults[n])
      PROVE  Legal(x)
  <2>1. CASE n \in {1, 2}
    BY <1>1, <1>2, <1>4, <1>6, <2>1
  <2>2. CASE n \in {3, 4}
    BY <1>1, <1>2, <1>4, <1>6, <2>2
  <2>3. CASE n \in {5, 6}
    BY <1>1, <1>2, <1>4, <1>6, <2>3
  <2> QED
    BY <1>6, <2>1, <2>2, <2>3
<1>7. ASSUME NEW n \in 1 .. 6
      PROVE  IsOutput(Defaults[n])
  BY <1>1, <1>3, <1>7
<1> QED
  BY <1>5, <1>6, <1>7

\* A sequence of anything is one.
LEMMA SequenceOfAnything ==
    ASSUME NEW S, NEW s \in Seq(S)
    PROVE  IsSequence(s)
<1> DEFINE I == {s[n] : n \in DOMAIN s}
<1>1. Len(s) \in Nat /\ DOMAIN s = 1 .. Len(s) /\ s = [n \in 1 .. Len(s) |-> s[n]]
  BY LenProperties
<1>2. \A n \in 1 .. Len(s) : s[n] \in I
  BY <1>1
<1> HIDE DEF I
<1>3. s \in [1 .. Len(s) -> I]
  BY <1>1, <1>2
<1>4. s \in Seq(I)
  BY <1>1, <1>3
<1> QED
  BY <1>4 DEF IsSequence, I

\* What a sequence behind another holds.
LEMMA Behind ==
    ASSUME NEW s, NEW t, IsSequence(s), IsSequence(t)
    PROVE  /\ IsSequence(s \o t)
           /\ \A n \in DOMAIN (s \o t) :
                 \/ n \in DOMAIN s /\ (s \o t)[n] = s[n]
                 \/ n - Len(s) \in DOMAIN t /\ (s \o t)[n] = t[n - Len(s)]
<1> DEFINE S == {s[n] : n \in DOMAIN s} \cup {t[n] : n \in DOMAIN t}
<1>1. s \in Seq(S) /\ t \in Seq(S)
  BY DEF IsSequence
<1> HIDE DEF S
<1>2. /\ s \o t \in Seq(S) /\ Len(s \o t) = Len(s) + Len(t)
      /\ \A n \in 1 .. Len(s) + Len(t) :
            (s \o t)[n] = IF n <= Len(s) THEN s[n] ELSE t[n - Len(s)]
  BY <1>1, ConcatProperties
<1>3. Len(s) \in Nat /\ Len(t) \in Nat /\ DOMAIN s = 1 .. Len(s) /\ DOMAIN t = 1 .. Len(t)
  BY <1>1
<1>4. DOMAIN (s \o t) = 1 .. Len(s) + Len(t)
  BY <1>2
<1>5. IsSequence(s \o t)
  BY <1>2, SequenceOfAnything
<1>6. ASSUME NEW n \in DOMAIN (s \o t)
      PROVE  \/ n \in DOMAIN s /\ (s \o t)[n] = s[n]
             \/ n - Len(s) \in DOMAIN t /\ (s \o t)[n] = t[n - Len(s)]
  BY <1>2, <1>3, <1>4
<1> QED
  BY <1>5, <1>6

\* After the parse all outputs are legal, the defaults among them.
LEMMA OutputsAreLegal ==
    ASSUME DcmpAssumption, line \in CommandLines, ~Usage
    PROVE  /\ IsSequence(OutputsOf)
           /\ \A n \in DOMAIN OutputsOf :
                 IsOutput(OutputsOf[n]) /\ \A x \in Expressions(OutputsOf[n]) : Legal(x)
<1>1. IsSequence(line.outputs) /\ \A n \in DOMAIN line.outputs : IsOutput(line.outputs[n])
  BY DEF DcmpAssumption
<1>2. \A n \in DOMAIN line.outputs : \A x \in Expressions(line.outputs[n]) : Legal(x)
  BY DEF Usage
<1>3. CASE OutputsOf = line.outputs
  BY <1>1, <1>2, <1>3
<1>4. CASE OutputsOf = Defaults \o line.outputs
  <2>1. IsSequence(Defaults) /\ DOMAIN Defaults = 1 .. 6
    BY DefaultsAreLegal DEF Defaults
  <2>2. ASSUME NEW n \in DOMAIN OutputsOf
        PROVE  \/ n \in 1 .. 6 /\ OutputsOf[n] = Defaults[n]
               \/ \E m \in DOMAIN line.outputs : OutputsOf[n] = line.outputs[m]
    <3>1. \/ n \in DOMAIN Defaults /\ (Defaults \o line.outputs)[n] = Defaults[n]
          \/ /\ n - Len(Defaults) \in DOMAIN line.outputs
             /\ (Defaults \o line.outputs)[n] = line.outputs[n - Len(Defaults)]
      BY <1>1, <1>4, <2>1, <2>2, Behind
    <3> QED
      BY <1>4, <2>1, <3>1
  <2>3. IsSequence(OutputsOf)
    BY <1>1, <1>4, <2>1, Behind
  <2> QED
    BY <1>1, <1>2, <2>2, <2>3, DefaultsAreLegal
<1> QED
  BY <1>3, <1>4 DEF OutputsOf

\* The fields that are compared: all that the expressions name, and what these
\* depend on.
LEMMA ComparedFields ==
    ASSUME DcmpAssumption, OptionsInv, Parsed
    PROVE  /\ IsSequence(outputs) /\ \A n \in DOMAIN outputs : IsOutput(outputs[n])
           /\ \A n \in DOMAIN outputs : \A x \in Expressions(outputs[n]) :
                 Legal(x) /\ x[1] \in compared
           /\ compared \subseteq Fields
           /\ compared # {} => "EXIST" \in compared
           /\ "CONTENT" \in compared => "TYPE" \in compared /\ "SIZE" \in compared
           /\ compared = {} => \A n \in DOMAIN outputs : Expressions(outputs[n]) = {}
<1>1. /\ IsSequence(outputs) /\ \A n \in DOMAIN outputs : IsOutput(outputs[n])
      /\ \A n \in DOMAIN outputs : \A x \in Expressions(outputs[n]) : Legal(x)
  BY OutputsAreLegal DEF OptionsInv, Parsed
<1>2. compared = UNION {DependOf(outputs[n]) : n \in DOMAIN outputs}
  BY DEF OptionsInv
<1>3. \A f \in Fields :
         /\ f \in Depend(f) /\ Depend(f) \subseteq Fields /\ "EXIST" \in Depend(f)
         /\ "CONTENT" \in Depend(f) => "TYPE" \in Depend(f) /\ "SIZE" \in Depend(f)
  BY DEF Depend, Fields, Attributes
<1>4. ASSUME NEW f \in compared
      PROVE  \E n \in DOMAIN outputs : \E x \in Expressions(outputs[n]) :
                x[1] \in Fields /\ f \in Depend(x[1]) /\ Depend(x[1]) \subseteq compared
  BY <1>1, <1>2 DEF DependOf, Legal
<1>5. \A n \in DOMAIN outputs : \A x \in Expressions(outputs[n]) :
         x[1] \in Fields /\ Depend(x[1]) \subseteq compared
  BY <1>1, <1>2 DEF DependOf, Legal
<1> QED
  BY <1>1, <1>3, <1>4, <1>5

-----------------------------------------------------------------------------
(* What is found of an item                                                  *)

\* Every unit of a file is in one of its chunks (dcmp_strmap_compare_data).
LEMMA UnitInChunk ==
    ASSUME NEW size \in Nat, NEW u \in 1 .. size, NEW piece \in Nat \ {0}
    PROVE  \E i \in 1 .. (size + piece - 1) \div piece : u > piece * (i - 1) /\ u <= piece * i
<1> DEFINE q == (u - 1) \div piece
           r == (size + piece - 1) \div piece
<1>1. q \in Nat /\ q * piece <= u - 1 /\ u - 1 < q * piece + piece
  BY Division
<1>2. r \in Nat /\ size + piece - 1 < r * piece + piece
  BY Division
<1> HIDE DEF q, r
<1>3. q * piece < r * piece
  BY <1>1, <1>2
<1>4. q < r
  BY <1>1, <1>2, <1>3, Strict
<1>5. piece * ((q + 1) - 1) = q * piece /\ piece * (q + 1) = q * piece + piece
  BY <1>1
<1>6. q + 1 \in 1 .. r /\ u > piece * ((q + 1) - 1) /\ u <= piece * (q + 1)
  BY <1>1, <1>2, <1>4, <1>5
<1> QED
  BY <1>6 DEF r

\* Two files of one size have the same data if all chunks have the same units.
LEMMA SameData ==
    ASSUME DcmpAssumption, sides \in Pairs, NEW name \in Common,
           SourceList[name].size = DestinationList[name].size
    PROVE  (\A i \in ChunksOf(name) : SameUnits(name, i))
               <=> SourceList[name].data = DestinationList[name].data
<1> DEFINE size == SourceList[name].size
           s == SourceList[name].data
           d == DestinationList[name].data
<1>1. /\ size \in Nat /\ Piece \in Nat \ {0}
      /\ s = [u \in 1 .. size |-> s[u]] /\ d = [u \in 1 .. size |-> d[u]]
  <2>1. name \in DOMAIN sides[1] /\ name \in DOMAIN sides[2]
    BY DEF Common, SourceList, DestinationList
  <2>2. Piece \in Nat \ {0}
    BY DEF DcmpAssumption
  <2>3. /\ sides[1][name].size \in Nat
        /\ sides[1][name].data = [u \in 1 .. sides[1][name].size |-> sides[1][name].data[u]]
    BY <2>1 DEF DcmpAssumption
  <2>4. sides[2][name].data = [u \in 1 .. sides[2][name].size |-> sides[2][name].data[u]]
    BY <2>1 DEF DcmpAssumption
  <2>5. SourceList = sides[1] /\ DestinationList = sides[2]
    BY DEF SourceList, DestinationList
  <2>6. sides[1][name].size = sides[2][name].size
    BY <2>5
  <2> QED
    BY <2>2, <2>3, <2>4, <2>5, <2>6
<1> HIDE DEF size, s, d
<1>2. ASSUME s = d, NEW i
      PROVE  SameUnits(name, i)
  BY <1>2 DEF SameUnits, s, d
<1>3. ASSUME \A i \in ChunksOf(name) : SameUnits(name, i), NEW u \in 1 .. size
      PROVE  s[u] = d[u]
  <2>1. PICK i \in 1 .. (size + Piece - 1) \div Piece : u > Piece * (i - 1) /\ u <= Piece * i
    BY <1>1, UnitInChunk
  <2>2. size # 0
    BY <1>1
  <2>3. i \in ChunksOf(name)
    BY <2>1, <2>2 DEF ChunksOf, size
  <2>4. u \in DOMAIN s
    BY <1>1
  <2> QED
    BY <1>3, <2>1, <2>3, <2>4 DEF SameUnits, s, d
<1>4. (\A i \in ChunksOf(name) : SameUnits(name, i)) => s = d
  BY <1>1, <1>3
<1> QED
  BY <1>2, <1>4 DEF s, d

\* The sizes of two files whose contents are to be read are equal, since a comparison
\* of contents asks for one of sizes (dcmp_field_depend).
LEMMA ReadSizes ==
    ASSUME DcmpAssumption, OptionsInv, Parsed, NEW name \in Common, ToRead(name)
    PROVE  /\ SourceList[name].type = "file" /\ DestinationList[name].type = "file"
           /\ ~line.lite /\ SourceList[name].size = DestinationList[name].size
<1>1. "SIZE" \in compared
  BY ComparedFields DEF ToRead
<1>2. Content(SourceList[name], DestinationList[name]) = "READ"
  BY DEF ToRead
<1>3. /\ SourceList[name].type = "file" /\ DestinationList[name].type = "file" /\ ~line.lite
      /\ Metadata(SourceList[name], DestinationList[name])["SIZE"] # "DIFFER"
  BY <1>1, <1>2 DEF Content, StateOf
<1>4. Metadata(SourceList[name], DestinationList[name])["SIZE"]
          = StateOf(SourceList[name].type = "dir" \/ SourceList[name].size = DestinationList[name].size)
  BY <1>1 DEF Metadata
<1> QED
  BY <1>3, <1>4 DEF StateOf

\* No chunk of a file is flagged just if its data is the same and could be read.
LEMMA FlagsSay ==
    ASSUME DcmpAssumption, DcmpInv, Parsed, stage # "items", NEW name \in Common, ToRead(name)
    PROVE  AnyOf(name) = {} <=> /\ SourceList[name].data = DestinationList[name].data
                                /\ ~Unread(name)
<1>1. name \in contents
  BY DEF DcmpInv, ItemsInv
<1>2. DOMAIN flags = Chunks
  BY DEF DcmpInv, FlagsInv
<1>3. \A i \in ChunksOf(name) : <<name, i>> \in DOMAIN flags
  BY <1>1, <1>2 DEF Chunks
<1>4. \A c \in DOMAIN flags : c[1] = name => \E i \in ChunksOf(name) : c = <<name, i>>
  BY <1>2 DEF Chunks
<1>5. \A i \in ChunksOf(name) :
         flags[<<name, i>>] \in {"failed", IF SameUnits(name, i) THEN "same" ELSE "differ"}
  BY <1>3 DEF DcmpInv, FlagsInv
<1>6. (\A i \in ChunksOf(name) : SameUnits(name, i))
          <=> SourceList[name].data = DestinationList[name].data
  BY SameData, ReadSizes DEF DcmpInv, OptionsInv
<1>7. Unread(name) <=> \E i \in ChunksOf(name) : flags[<<name, i>>] = "failed"
  BY <1>3, <1>4 DEF Unread
<1>8. AnyOf(name) = {} <=> \A i \in ChunksOf(name) : flags[<<name, i>>] = "same"
  BY DEF AnyOf
<1> QED
  BY <1>5, <1>6, <1>7, <1>8

\* What is found of a field of an item that both trees have is what the trees say,
\* the contents as soon as the chunks have been compared.
LEMMA FieldSays ==
    ASSUME DcmpAssumption, DcmpInv, Parsed, stage # "items", NEW name \in Common,
           NEW f \in compared, f # "EXIST"
    PROVE  FieldFound(f, name) = StateOf(Agree(f, name))
<1> DEFINE s == SourceList[name]
           d == DestinationList[name]
<1>1. f \in Fields /\ OptionsInv
  BY ComparedFields DEF DcmpInv
<1>2. CASE f \in Attributes
  <2>1. f \notin {"EXIST", "TYPE", "SIZE", "CONTENT"}
    BY <1>2 DEF Attributes
  <2>2. FieldFound(f, name) = Metadata(s, d)[f]
    BY <1>2, <2>1 DEF FieldFound
  <2>3. Metadata(s, d)[f] = StateOf(s.attributes[f] = d.attributes[f])
    BY <1>2, <2>1 DEF Metadata
  <2>4. Agree(f, name) = (s.attributes[f] = d.attributes[f])
    BY <2>1 DEF Agree
  <2> QED
    BY <2>2, <2>3, <2>4
<1>3. CASE f = "SIZE"
  <2>1. FieldFound(f, name) = Metadata(s, d)["SIZE"]
    BY <1>3 DEF FieldFound
  <2>2. Metadata(s, d)["SIZE"] = StateOf(s.type = "dir" \/ s.size = d.size)
    BY <1>3 DEF Metadata
  <2>3. Agree(f, name) = (s.type = "dir" \/ s.size = d.size)
    BY <1>3 DEF Agree
  <2> QED
    BY <2>1, <2>2, <2>3
<1>4. CASE f = "TYPE"
  BY <1>4 DEF FieldFound, Agree, Attributes
<1>5. CASE f = "CONTENT"
  <2>1. Agree(f, name) = SameContents(name, s, d)
    BY <1>5 DEF Agree
  <2>2. CASE ToRead(name)
    <3>1. s.type = d.type /\ s.type = "file" /\ ~line.lite
      BY <1>1, <2>2, ReadSizes
    <3>2. FieldFound(f, name) = StateOf(AnyOf(name) = {})
      BY <1>5, <2>2 DEF FieldFound, Attributes
    <3>3. SameContents(name, s, d) <=> AnyOf(name) = {}
      BY <2>2, <3>1, FlagsSay DEF SameContents
    <3> QED
      BY <2>1, <3>2, <3>3 DEF StateOf
  <2>3. CASE ~ToRead(name)
    <3>1. FieldFound(f, name) = Content(s, d) /\ Content(s, d) # "READ"
      BY <1>5, <2>3 DEF FieldFound, Attributes, ToRead
    <3>2. "SIZE" \in compared
      BY <1>1, <1>5, ComparedFields
    <3>3. Metadata(s, d)["SIZE"] = StateOf(s.type = "dir" \/ s.size = d.size)
      BY <3>2 DEF Metadata
    <3>4. s.data = d.data => s.size = d.size
      <4>1. /\ s.size \in Nat /\ s.data = [u \in 1 .. s.size |-> s.data[u]]
            /\ d.size \in Nat /\ d.data = [u \in 1 .. d.size |-> d.data[u]]
        BY <1>1 DEF DcmpAssumption, OptionsInv, Common, SourceList, DestinationList
      <4>2. DOMAIN s.data = 1 .. s.size /\ DOMAIN d.data = 1 .. d.size
        BY <4>1
      <4> HIDE DEF s, d
      <4>3. 1 .. s.size = 1 .. d.size => s.size = d.size
        BY <4>1
      <4> QED
        BY <4>2, <4>3
    <3>5. Content(s, d) = StateOf(SameContents(name, s, d))
      <4> HIDE DEF s, d
      <4> QED
        BY <3>1, <3>2, <3>3, <3>4 DEF Content, SameContents, StateOf
    <3> QED
      BY <2>1, <3>1, <3>5
  <2> QED
    BY <2>2, <2>3
<1> QED
  BY <1>1, <1>2, <1>3, <1>4, <1>5 DEF Fields

\* An expression matches an item of a map just if it says so of the item.
LEMMA MatchesSays ==
    ASSUME DcmpAssumption, DcmpInv, Parsed, stage # "items",
           NEW i \in 1 .. 2, NEW name \in DOMAIN sides[i],
           NEW x, x = <<x[1], x[2]>>, Legal(x), x[1] \in compared
    PROVE  /\ Matches(x, maps[i][name]) <=> Says(x, name)
           /\ maps[i][name]["EXIST"] = "COMMON" => maps[i][name][x[1]] \in {"COMMON", "DIFFER"}
<1> DEFINE states == maps[i][name]
<1>1. states = Found(i, name) /\ left = {}
  BY DEF DcmpInv, ItemsInv
<1>2. /\ x[1] \in Fields /\ x[2] \in States
      /\ x[2] \in {"ONLY_SRC", "ONLY_DEST"} => x[1] = "EXIST"
  BY DEF Legal
<1>3. x[1] # "EXIST" => x \notin {Exist(s) : s \in States}
  BY DEF Exist
<1>4. x[1] = "EXIST" => x = Exist(x[2])
  BY DEF Exist
<1>5. \A s, t \in States : Exist(s) = Exist(t) => s = t
  BY DEF Exist
<1>6. CASE name \in Common
  <2>1. states["EXIST"] = "COMMON" /\ states[x[1]] = FieldFound(x[1], name)
    BY <1>1, <1>2, <1>6 DEF Found, FieldFound, Fields
  <2>2. Matches(x, states) <=> x[2] = states[x[1]]
    <3> HIDE DEF states
    <3> QED
      BY <2>1 DEF Matches
  <2>3. CASE x[1] = "EXIST"
    <3>1. Says(x, name) <=> x[2] = "COMMON"
      <4>1. CASE x[2] = "COMMON"
        BY <1>4, <1>5, <1>6, <2>3, <4>1 DEF Says, States
      <4>2. CASE x[2] = "DIFFER"
        BY <1>4, <1>5, <1>6, <2>3, <4>2 DEF Says, States, Exist
      <4>3. CASE x[2] = "ONLY_SRC"
        BY <1>4, <1>5, <1>6, <2>3, <4>3 DEF Says, States, Exist, Common
      <4>4. CASE x[2] = "ONLY_DEST"
        BY <1>4, <1>5, <1>6, <2>3, <4>4 DEF Says, States, Exist, Common
      <4> QED
        BY <1>2, <4>1, <4>2, <4>3, <4>4 DEF States
    <3> QED
      BY <2>1, <2>2, <2>3, <3>1
  <2>4. CASE x[1] # "EXIST"
    <3>1. Says(x, name) <=> x[2] = StateOf(Agree(x[1], name))
      BY <1>3, <1>6, <2>4 DEF Says, States
    <3>2. states[x[1]] = StateOf(Agree(x[1], name))
      BY <1>6, <2>1, <2>4, FieldSays
    <3> QED
      BY <2>2, <3>1, <3>2 DEF StateOf
  <2> QED
    BY <2>3, <2>4
<1>7. ASSUME name \notin Common
      PROVE  /\ states["EXIST"] # "COMMON"
             /\ Matches(x, states) <=> x \in {Exist("DIFFER"), IF i = 1 THEN Exist("ONLY_SRC")
                                                               ELSE Exist("ONLY_DEST")}
  <2>1. states["EXIST"] = IF i = 1 THEN "ONLY_SRC" ELSE "INIT"
    BY <1>1, <1>7 DEF Found, Fields
  <2> HIDE DEF states
  <2> QED
    BY <2>1 DEF Matches
<1>8. ASSUME name \notin Common
      PROVE  Says(x, name) <=> x \in {Exist("DIFFER"), IF i = 1 THEN Exist("ONLY_SRC")
                                                       ELSE Exist("ONLY_DEST")}
  <2>1. IF i = 1 THEN name \in DOMAIN SourceList /\ name \notin DOMAIN DestinationList
        ELSE name \notin DOMAIN SourceList /\ name \in DOMAIN DestinationList
    BY <1>8 DEF Common, SourceList, DestinationList
  <2>2. CASE x = Exist("COMMON")
    BY <1>5, <1>8, <2>2 DEF Says, States
  <2>3. CASE x = Exist("DIFFER")
    BY <1>5, <1>8, <2>3 DEF Says, States
  <2>4. CASE x = Exist("ONLY_SRC")
    BY <1>5, <2>1, <2>4 DEF Says, States
  <2>5. CASE x = Exist("ONLY_DEST")
    BY <1>5, <2>1, <2>5 DEF Says, States
  <2>6. CASE x \notin {Exist(s) : s \in States}
    BY <1>8, <2>6 DEF Says, States
  <2> QED
    BY <2>2, <2>3, <2>4, <2>5, <2>6 DEF States
<1> QED
  BY <1>6, <1>7, <1>8

\* A conjunction of an output matches an item just if it says so of it.
LEMMA MatchingSays ==
    ASSUME DcmpAssumption, DcmpInv, Parsed, stage # "items",
           NEW n \in DOMAIN outputs, NEW i \in 1 .. 2, NEW name \in DOMAIN sides[i]
    PROVE  Matching(outputs[n], maps[i][name])
               = {j \in DOMAIN outputs[n] : SaidIn(outputs[n][j], name)}
<1>1. ASSUME NEW j \in DOMAIN outputs[n], NEW k \in DOMAIN outputs[n][j]
      PROVE  Matches(outputs[n][j][k], maps[i][name]) <=> Says(outputs[n][j][k], name)
  <2> DEFINE x == outputs[n][j][k]
  <2>1. x \in Expressions(outputs[n])
    BY DEF Expressions
  <2>2. x = <<x[1], x[2]>> /\ Legal(x) /\ x[1] \in compared
    BY <2>1, ComparedFields DEF DcmpInv, IsOutput
  <2> HIDE DEF x
  <2>3. Matches(x, maps[i][name]) <=> Says(x, name)
    BY <2>2, MatchesSays
  <2> QED
    BY <2>3 DEF x
<1> QED
  BY <1>1 DEF Matching, SaidIn

\* What goes to an output, and what its conjunctions count, is what is to be written,
\* and no assertion fails.
LEMMA OutputSays ==
    ASSUME DcmpAssumption, DcmpInv, Parsed, stage # "items",
           NEW n \in DOMAIN outputs, NEW i \in 1 .. 2
    PROVE  /\ AllCompared(outputs[n], maps[i])
           /\ Chosen(outputs[n], maps[i]) = SaidBy(outputs[n], i)
           /\ Counts(outputs[n], maps[i])
                  = [j \in DOMAIN outputs[n] |-> Cardinality(SaidFirst(outputs[n], i, j))]
<1> DEFINE o == outputs[n]
           said(name) == {j \in DOMAIN o : SaidIn(o[j], name)}
<1>1. DOMAIN maps[i] = DOMAIN sides[i]
  BY DEF DcmpInv, ItemsInv
<1>2. \A name \in DOMAIN sides[i] : Matching(o, maps[i][name]) = said(name)
  BY MatchingSays
<1>3. DOMAIN o \subseteq Nat
  <2>1. IsSequence(o)
    BY ComparedFields DEF DcmpInv, IsOutput
  <2> HIDE DEF o
  <2> QED
    BY <2>1 DEF IsSequence
<1>4. AllCompared(o, maps[i])
  <2>1. \A x \in Expressions(o) : x = <<x[1], x[2]>> /\ Legal(x) /\ x[1] \in compared
    BY ComparedFields DEF DcmpInv, IsOutput
  <2> QED
    BY <1>1, <2>1, MatchesSays DEF AllCompared
<1>5. Chosen(o, maps[i]) = SaidBy(o, i)
  BY <1>1, <1>2 DEF Chosen, SaidBy
<1>6. ASSUME NEW j \in DOMAIN o, NEW name \in Chosen(o, maps[i])
      PROVE  FirstOf(Matching(o, maps[i][name])) = j
                 <=> SaidIn(o[j], name) /\ \A k \in DOMAIN o : k < j => ~SaidIn(o[k], name)
  <2> DEFINE js == said(name)
  <2>1. name \in DOMAIN sides[i] /\ Matching(o, maps[i][name]) = js /\ js # {}
    BY <1>1, <1>2 DEF Chosen
  <2>2. js \in SUBSET Nat
    BY <1>3
  <2>3. SaidIn(o[j], name) /\ (\A k \in DOMAIN o : k < j => ~SaidIn(o[k], name))
            <=> j \in js /\ \A k \in js : ~(k < j)
    OBVIOUS
  <2> HIDE DEF js
  <2>4. \E k \in js : \A l \in js : k <= l
    BY <2>1, <2>2, LeastNumber
  <2>5. FirstOf(js) \in js /\ \A l \in js : FirstOf(js) <= l
    BY <2>4 DEF FirstOf
  <2>6. j \in js /\ (\A k \in js : ~(k < j)) <=> FirstOf(js) = j
    <3> DEFINE first == FirstOf(js)
    <3>1. j \in Nat
      BY <1>3
    <3> HIDE DEF first, o
    <3>2. first \in js /\ first \in Nat /\ \A l \in js : l \in Nat /\ first <= l
      BY <2>2, <2>5 DEF first
    <3>3. j \in js /\ (\A k \in js : ~(k < j)) => first = j
      BY <3>1, <3>2
    <3>4. first = j => j \in js /\ \A k \in js : ~(k < j)
      BY <3>1, <3>2
    <3> QED
      BY <3>3, <3>4 DEF first
  <2> QED
    BY <2>1, <2>3, <2>6
<1>7. ASSUME NEW j \in DOMAIN o
      PROVE  {name \in Chosen(o, maps[i]) : FirstOf(Matching(o, maps[i][name])) = j}
                 = SaidFirst(o, i, j)
  <2>1. SaidFirst(o, i, j) \subseteq Chosen(o, maps[i])
    BY <1>5 DEF SaidFirst, SaidBy
  <2>2. Chosen(o, maps[i]) \subseteq DOMAIN sides[i]
    BY <1>5 DEF SaidBy
  <2> HIDE DEF o
  <2> QED
    BY <1>6, <2>1, <2>2 DEF SaidFirst
<1>8. Counts(o, maps[i]) = [j \in DOMAIN o |-> Cardinality(SaidFirst(o, i, j))]
  BY <1>7 DEF Counts
<1> QED
  BY <1>4, <1>5, <1>8

-----------------------------------------------------------------------------
(* The steps                                                                 *)

\* What is true before the arguments are parsed.
LEMMA DcmpInvInit == CmpInit => DcmpInv
<1>1. CmpInit => OptionsInv /\ ~Parsed
  BY DEF CmpInit, OptionsInv, Parsed
<1> QED
  BY <1>1 DEF DcmpInv, ItemsInv, FlagsInv, ReportsInv

\* main parses the arguments.
LEMMA OptionsStep ==
    ASSUME DcmpAssumption, DcmpInv, Options
    PROVE  DcmpInv'
<1>1. /\ stage = "options" /\ reports = <<>> /\ contents = {} /\ DOMAIN flags = {}
      /\ UNCHANGED <<sides, line, contents, flags, reports>>
      /\ sides \in Pairs /\ line \in CommandLines
  BY DEF Options, DcmpInv, OptionsInv
<1>2. Usage' <=> Usage
  BY <1>1 DEF Usage
<1>3. CASE Usage
  <2>1. stage' = "over" /\ status' = 1
    BY <1>3 DEF Options
  <2>2. ~Parsed' /\ OptionsInv'
    BY <1>1, <1>2, <1>3, <2>1 DEF Parsed, OptionsInv
  <2> QED
    BY <2>2 DEF DcmpInv, ItemsInv, FlagsInv, ReportsInv
<1>4. CASE ~Usage
  <2>1. /\ stage' = "items" /\ outputs' = OutputsOf
        /\ compared' = UNION {DependOf(outputs'[n]) : n \in DOMAIN outputs'}
        /\ maps' = <<MapOf(SourceList), MapOf(DestinationList)>> /\ left' = DOMAIN SourceList
    BY <1>4 DEF Options, OutputsOf
  <2>2. OptionsInv' /\ Parsed'
    BY <1>1, <1>2, <1>4, <2>1 DEF Parsed, OptionsInv, OutputsOf
  <2>3. ItemsInv'
    <3>1. left' = DOMAIN SourceList' /\ (Common \ left)' = {}
      BY <1>1, <2>1 DEF SourceList, Common
    <3>2. ASSUME NEW i \in 1 .. 2, NEW name \in DOMAIN sides[i]
          PROVE  Found(i, name)' = [f \in Fields |-> "INIT"]
      <4>1. CASE name \in DOMAIN sides[1]
        BY <1>1, <2>1, <4>1 DEF Found, SourceList
      <4>2. CASE name \notin DOMAIN sides[1]
        <5>1. i # 1
          BY <4>2
        <5>2. name \notin left' /\ name \notin Common'
          BY <1>1, <2>1, <4>2 DEF Common, SourceList
        <5> QED
          BY <5>1, <5>2 DEF Found
      <4> QED
        BY <4>1, <4>2
    <3>3. maps' = [i \in 1 .. 2 |-> [name \in DOMAIN sides[i] |-> [f \in Fields |-> "INIT"]]]
      BY <2>1 DEF MapOf, SourceList, DestinationList
    <3>4. maps' = [i \in 1 .. 2 |-> [name \in DOMAIN sides[i] |-> Found(i, name)']]
      BY <3>2, <3>3
    <3>5. maps' = [i \in 1 .. 2 |-> [name \in DOMAIN sides[i] |-> Found(i, name)]]'
      BY <1>1, <3>4
    <3>6. contents' = {name \in Common \ left : ToRead(name)}'
      BY <1>1, <3>1
    <3> QED
      BY <2>1, <3>1, <3>5, <3>6 DEF ItemsInv
  <2>4. FlagsInv'
    BY <1>1, <2>1 DEF FlagsInv
  <2>5. ReportsInv'
    <3>1. Len(outputs') \in Nat
      BY <1>1, <1>4, <2>1, OutputsAreLegal DEF IsSequence
    <3>2. reports' \in Seq({ReportOf(outputs[n])' : n \in DOMAIN outputs'}) /\ Len(reports') = 0
      BY <1>1
    <3> QED
      BY <1>1, <2>1, <3>1, <3>2 DEF ReportsInv
  <2> QED
    BY <2>2, <2>3, <2>4, <2>5 DEF DcmpInv
<1> QED
  BY <1>3, <1>4

\* dcmp_strmap_compare: an item of the source is compared.  No other item changes.
LEMMA CompareItemStep ==
    ASSUME DcmpAssumption, DcmpInv, NEW name, CompareItem(name)
    PROVE  DcmpInv'
<1>1. /\ stage = "items" /\ name \in left /\ left' = left \ {name}
      /\ UNCHANGED <<sides, line, stage, outputs, compared, flags, reports, status>>
      /\ OnlySrc(name) \/ InBoth(name)
  BY DEF CompareItem
<1>2. (Usage' <=> Usage) /\ Parsed /\ Parsed'
  BY <1>1 DEF DcmpInv, OptionsInv, Parsed, Usage
<1>3. OptionsInv'
  BY <1>1, <1>2 DEF DcmpInv, OptionsInv, OutputsOf
<1>4. ReportsInv'
  <2>1. reports' = <<>> /\ Len(reports) <= Len(outputs) /\ Len(reports) = 0
    BY <1>1, <1>2 DEF DcmpInv, ReportsInv
  <2>2. reports' \in Seq({ReportOf(outputs[n])' : n \in DOMAIN outputs'})
    BY <2>1
  <2> QED
    BY <1>1, <1>2, <2>1, <2>2 DEF ReportsInv
<1>5. FlagsInv'
  BY <1>1, <1>2 DEF DcmpInv, FlagsInv
<1>6. /\ left \subseteq DOMAIN SourceList
      /\ contents = {n \in Common \ left : ToRead(n)}
      /\ maps = [i \in 1 .. 2 |-> [n \in DOMAIN sides[i] |-> Found(i, n)]]
  BY <1>2 DEF DcmpInv, ItemsInv
<1>7. /\ UNCHANGED <<SourceList, DestinationList, Common>>
      /\ \A n : ToRead(n)' <=> ToRead(n)
      /\ \A f, n : FieldFound(f, n)' = FieldFound(f, n)
  <2>1. UNCHANGED <<SourceList, DestinationList, Common>>
    BY <1>1 DEF SourceList, DestinationList, Common
  <2>2. \A n : ToRead(n)' <=> ToRead(n)
    BY <1>1, <2>1 DEF ToRead, Content, Metadata
  <2>3. \A f, n : FieldFound(f, n)' = FieldFound(f, n)
    BY <1>1, <2>1, <2>2 DEF FieldFound, Content, Metadata
  <2> QED
    BY <2>1, <2>2, <2>3
<1>8. ASSUME NEW i \in 1 .. 2, NEW n \in DOMAIN sides[i], n # name
      PROVE  Found(i, n)' = Found(i, n)
  BY <1>1, <1>7, <1>8 DEF Found
<1>9. CASE OnlySrc(name)
  <2>1. /\ name \notin DOMAIN DestinationList /\ UNCHANGED contents
        /\ maps' = [maps EXCEPT ![1][name]["EXIST"] = "ONLY_SRC"]
    BY <1>9 DEF OnlySrc
  <2>2. contents' = {n \in Common \ left : ToRead(n)}'
    BY <1>1, <1>6, <1>7, <2>1 DEF Common
  <2>3. Found(1, name) = [f \in Fields |-> "INIT"]
    BY <1>1 DEF Found
  <2>4. Found(1, name)' = [f \in Fields |-> IF f = "EXIST" THEN "ONLY_SRC" ELSE "INIT"]
    BY <1>1, <1>7, <2>1 DEF Found, Common
  <2>5. maps'[2] = maps[2] /\ DOMAIN maps' = 1 .. 2
    BY <1>6, <2>1
  <2>6. maps'[1] = [n \in DOMAIN sides[1] |-> Found(1, n)']
    <3>1. maps[1] = [n \in DOMAIN sides[1] |-> Found(1, n)]
      BY <1>6
    <3>2. maps'[1] = [maps[1] EXCEPT ![name] = [maps[1][name] EXCEPT !["EXIST"] = "ONLY_SRC"]]
      BY <1>6, <2>1
    <3>3. name \in DOMAIN sides[1]
      BY <1>1, <1>6 DEF SourceList
    <3>4. [maps[1][name] EXCEPT !["EXIST"] = "ONLY_SRC"] = Found(1, name)'
      <4>1. maps[1][name] = [f \in Fields |-> "INIT"] /\ "EXIST" \in Fields
        BY <2>3, <3>1, <3>3 DEF Fields
      <4> QED
        BY <2>4, <4>1
    <3> QED
      BY <1>8, <3>1, <3>2, <3>3, <3>4
  <2>7. maps'[2] = [n \in DOMAIN sides[2] |-> Found(2, n)']
    <3>1. name \notin DOMAIN sides[2]
      BY <2>1 DEF DestinationList
    <3>2. maps[2] = [n \in DOMAIN sides[2] |-> Found(2, n)]
      BY <1>6
    <3> QED
      BY <1>8, <2>5, <3>1, <3>2
  <2>8. maps' = [i \in 1 .. 2 |-> [n \in DOMAIN sides[i] |-> Found(i, n)]]'
    <3>1. maps' = [i \in 1 .. 2 |-> maps'[i]]
      BY <1>6, <2>1
    <3>2. \A i \in 1 .. 2 : maps'[i] = [n \in DOMAIN sides'[i] |-> Found(i, n)']
      BY <1>1, <2>6, <2>7
    <3> QED
      BY <3>1, <3>2
  <2> QED
    BY <1>1, <1>3, <1>4, <1>5, <1>6, <1>7, <2>2, <2>8 DEF DcmpInv, ItemsInv
<1>10. CASE InBoth(name)
  <2> DEFINE s == SourceList[name]
             d == DestinationList[name]
             meta == Metadata(s, d)
             rest == IF "TYPE" \in compared THEN TypeAndContent(s, d) ELSE [f \in {} |-> "INIT"]
             new == [f \in {"EXIST"} \cup DOMAIN meta \cup DOMAIN rest |->
                        IF f = "EXIST" THEN "COMMON"
                        ELSE IF f \in DOMAIN meta THEN meta[f] ELSE rest[f]]
             all == [f \in Fields |-> FieldFound(f, name)]
  <2>1. /\ name \in DOMAIN DestinationList
        /\ maps' = Updated(name, new)
        /\ contents' = IF "CONTENT" \in compared /\ Content(s, d) = "READ"
                       THEN contents \cup {name} ELSE contents
    BY <1>10 DEF InBoth
  <2>2. name \in Common
    BY <1>1, <1>6, <2>1 DEF Common
  <2>3. contents' = {n \in Common \ left : ToRead(n)}'
    <3>1. contents' = IF ToRead(name) THEN contents \cup {name} ELSE contents
      BY <2>1 DEF ToRead
    <3>2. (Common \ left)' = (Common \ left) \cup {name}
      BY <1>1, <1>7, <2>2
    <3> QED
      BY <1>6, <1>7, <3>1, <3>2
  <2>4. DOMAIN meta = compared \cap (Attributes \cup {"SIZE"})
    BY DEF Metadata
  <2>5. DOMAIN rest = compared \cap {"TYPE", "CONTENT"}
    <3>1. "CONTENT" \in compared => "TYPE" \in compared
      BY <1>2, ComparedFields DEF DcmpInv
    <3> QED
      BY <3>1 DEF TypeAndContent
  <2>6. DOMAIN new = {"EXIST"} \cup DOMAIN meta \cup DOMAIN rest
    OBVIOUS
  <2>7. ASSUME NEW f \in Fields
        PROVE  (IF f \in DOMAIN new THEN new[f] ELSE "INIT") = FieldFound(f, name)
    <3>1. CASE f = "EXIST"
      BY <2>6, <3>1 DEF FieldFound
    <3>2. CASE f # "EXIST" /\ f \notin compared
      BY <2>4, <2>5, <2>6, <3>2 DEF FieldFound
    <3>3. CASE f \in compared /\ f \in {"SIZE"} \cup Attributes
      <4>1. f # "EXIST" /\ f \in DOMAIN meta
        BY <2>4, <3>3 DEF Attributes
      <4>2. new[f] = meta[f]
        BY <4>1
      <4> QED
        BY <2>6, <3>3, <4>1, <4>2 DEF FieldFound
    <3>4. CASE f \in compared /\ f \in {"TYPE", "CONTENT"}
      <4>1. f # "EXIST" /\ f \notin DOMAIN meta /\ f \in DOMAIN rest
        BY <2>4, <2>5, <3>4 DEF Attributes
      <4>2. new[f] = rest[f]
        BY <4>1
      <4>3. rest[f] = TypeAndContent(s, d)[f]
        BY <2>5, <4>1
      <4>4. TypeAndContent(s, d)[f] = FieldFound(f, name)
        BY <1>1, <3>4 DEF TypeAndContent, FieldFound, Attributes, ToRead
      <4> QED
        BY <2>6, <4>1, <4>2, <4>3, <4>4
    <3> QED
      BY <3>1, <3>2, <3>3, <3>4 DEF Fields
  <2> HIDE DEF new, all
  <2>8. ASSUME NEW i \in 1 .. 2
        PROVE  maps'[i] = [n \in DOMAIN sides[i] |-> Found(i, n)']
    <3>1. maps[i] = [n \in DOMAIN sides[i] |-> Found(i, n)] /\ name \in DOMAIN sides[i]
      BY <1>6, <2>2 DEF Common, SourceList, DestinationList
    <3>2. maps[i][name] = [f \in Fields |-> "INIT"]
      BY <1>1, <3>1 DEF Found
    <3>3. maps'[i] = [maps[i] EXCEPT ![name] = [f \in Fields |-> IF f \in DOMAIN new THEN new[f] ELSE @[f]]]
      BY <2>1 DEF Updated
    <3>4. [f \in Fields |-> IF f \in DOMAIN new THEN new[f] ELSE maps[i][name][f]] = all
      BY <2>7, <3>2 DEF all
    <3>5. maps'[i] = [maps[i] EXCEPT ![name] = all]
      BY <3>3, <3>4
    <3>6. Found(i, name)' = all
      BY <1>1, <1>7, <2>2 DEF Found, all
    <3> QED
      BY <1>8, <3>1, <3>5, <3>6
  <2>9. maps' = [i \in 1 .. 2 |-> [n \in DOMAIN sides[i] |-> Found(i, n)]]'
    <3>1. maps' = [i \in 1 .. 2 |-> maps'[i]]
      BY <2>1 DEF Updated
    <3> QED
      BY <1>1, <2>8, <3>1
  <2> QED
    BY <1>1, <1>3, <1>4, <1>5, <1>6, <1>7, <2>3, <2>9 DEF DcmpInv, ItemsInv
<1> QED
  BY <1>1, <1>9, <1>10

\* A chunk is compared.
LEMMA CompareChunkStep ==
    ASSUME DcmpAssumption, DcmpInv, NEW c \in Chunks, CompareChunk(c)
    PROVE  DcmpInv'
<1>1. /\ stage = "items" /\ left = {} /\ c \notin DOMAIN flags
      /\ UNCHANGED <<sides, line, stage, outputs, compared, maps, left, contents, reports, status>>
  BY DEF CompareChunk
<1>2. (Usage' <=> Usage) /\ Parsed /\ Parsed'
  BY <1>1 DEF DcmpInv, OptionsInv, Parsed, Usage
<1>3. OptionsInv'
  BY <1>1, <1>2 DEF DcmpInv, OptionsInv, OutputsOf
<1>4. ReportsInv'
  <2>1. reports' = <<>> /\ Len(reports) <= Len(outputs) /\ Len(reports) = 0
    BY <1>1, <1>2 DEF DcmpInv, ReportsInv
  <2>2. reports' \in Seq({ReportOf(outputs[n])' : n \in DOMAIN outputs'})
    BY <2>1
  <2> QED
    BY <1>1, <1>2, <2>1, <2>2 DEF ReportsInv
<1>5. UNCHANGED <<SourceList, DestinationList, Common, Chunks>>
  BY <1>1 DEF SourceList, DestinationList, Common, Chunks, ChunksOf
<1>6. ItemsInv'
  <2>1. \A n : ToRead(n)' <=> ToRead(n)
    BY <1>1, <1>5 DEF ToRead, Content, Metadata
  <2>2. \A f, n : FieldFound(f, n)' = FieldFound(f, n)
    BY <1>1, <1>5, <2>1 DEF FieldFound, Content, Metadata
  <2>3. \A i, n : Found(i, n)' = Found(i, n)
    BY <1>1, <1>5, <2>2 DEF Found
  <2> QED
    BY <1>1, <1>2, <1>5, <2>1, <2>3 DEF DcmpInv, ItemsInv
<1>7. FlagsInv'
  <2>1. PICK found \in {"failed", IF SameUnits(c[1], c[2]) THEN "same" ELSE "differ"} :
            flags' = [x \in DOMAIN flags \cup {c} |-> IF x = c THEN found ELSE flags[x]]
    BY DEF CompareChunk
  <2>2. \A x : SameUnits(x[1], x[2])' <=> SameUnits(x[1], x[2])
    BY <1>5 DEF SameUnits
  <2>3. DOMAIN flags' = DOMAIN flags \cup {c} /\ flags'[c] = found
        /\ \A x \in DOMAIN flags : flags'[x] = flags[x]
    BY <1>1, <2>1
  <2>4. DOMAIN flags' \subseteq Chunks'
    BY <1>2, <1>5, <2>3 DEF DcmpInv, FlagsInv
  <2>5. \A x \in DOMAIN flags' :
           flags'[x] \in {"failed", IF SameUnits(x[1], x[2])' THEN "same" ELSE "differ"}
    BY <1>2, <2>1, <2>2, <2>3 DEF DcmpInv, FlagsInv
  <2> QED
    BY <1>1, <1>2, <2>4, <2>5 DEF FlagsInv
<1> QED
  BY <1>3, <1>4, <1>6, <1>7 DEF DcmpInv

\* What is found of a field other than contents that are still to be read.
LEMMA FoundStates ==
    ASSUME NEW name, NEW f \in compared, f \in Fields, f # "EXIST",
           f = "CONTENT" => ~ToRead(name)
    PROVE  FieldFound(f, name) \in {"COMMON", "DIFFER"}
<1> DEFINE s == SourceList[name]
           d == DestinationList[name]
<1>1. CASE f \in {"SIZE"} \cup Attributes
  BY <1>1 DEF FieldFound, Metadata, StateOf
<1>2. CASE f = "TYPE"
  BY <1>2 DEF FieldFound, Attributes, StateOf
<1>3. CASE f = "CONTENT"
  <2>1. FieldFound(f, name) = Content(s, d) /\ Content(s, d) # "READ"
    BY <1>3 DEF FieldFound, Attributes, ToRead
  <2>2. Content(s, d) \in {"COMMON", "DIFFER", "READ"}
    BY DEF Content, StateOf
  <2> QED
    BY <2>1, <2>2
<1> QED
  BY <1>1, <1>2, <1>3 DEF Fields

\* The results of all chunks are gathered, and the maps checked if --debug asks for
\* it: if anything at all is compared, no assertion fails.
LEMMA GatheredStep ==
    ASSUME DcmpAssumption, DcmpInv, Gathered
    PROVE  DcmpInv'
<1>1. /\ stage = "items" /\ left = {} /\ DOMAIN flags = Chunks
      /\ maps' = [i \in 1 .. 2 |-> [name \in DOMAIN maps[i] |->
                     IF name \in contents
                     THEN [maps[i][name] EXCEPT !["CONTENT"] = StateOf(AnyOf(name) = {})]
                     ELSE maps[i][name]]]
      /\ status' = IF \E c \in DOMAIN flags : flags[c] = "failed" THEN 1 ELSE 0
      /\ stage' = IF line.debug /\ ~Checked(maps') THEN "aborted" ELSE "outputs"
      /\ UNCHANGED <<sides, line, outputs, compared, left, contents, flags, reports>>
  BY DEF Gathered
<1>2. (Usage' <=> Usage) /\ Parsed /\ Parsed' /\ stage' \in {"aborted", "outputs"}
  BY <1>1 DEF DcmpInv, OptionsInv, Parsed, Usage
<1>3. OptionsInv'
  BY <1>1, <1>2 DEF DcmpInv, OptionsInv, OutputsOf
<1>4. UNCHANGED <<SourceList, DestinationList, Common, Chunks>>
  BY <1>1 DEF SourceList, DestinationList, Common, Chunks, ChunksOf
<1>5. /\ contents = {n \in Common : ToRead(n)}
      /\ maps = [i \in 1 .. 2 |-> [n \in DOMAIN sides[i] |-> Found(i, n)]]
  BY <1>1, <1>2 DEF DcmpInv, ItemsInv
<1>6. \A n : ToRead(n)' <=> ToRead(n)
  BY <1>1, <1>4 DEF ToRead, Content, Metadata
<1>7. "CONTENT" \in Fields /\ \A n : ToRead(n) => "CONTENT" \in compared
  BY DEF Fields, ToRead
<1>8. ASSUME NEW n, NEW f
      PROVE  FieldFound(f, n)' = IF f = "CONTENT" /\ ToRead(n) THEN StateOf(AnyOf(n) = {})
                                 ELSE FieldFound(f, n)
  <2>1. AnyOf(n)' = AnyOf(n)
    BY <1>1, <1>4 DEF AnyOf, ChunksOf
  <2>2. CASE f = "CONTENT" /\ ToRead(n)
    BY <1>1, <1>2, <1>6, <1>7, <2>1, <2>2 DEF FieldFound, Attributes
  <2>3. CASE ~(f = "CONTENT" /\ ToRead(n))
    <3>1. CASE f \in {"EXIST", "TYPE", "SIZE"} \cup Attributes \/ f \notin compared
      <4>1. Metadata(SourceList[n], DestinationList[n])' = Metadata(SourceList[n], DestinationList[n])
        BY <1>1, <1>4 DEF Metadata
      <4>2. CASE f = "EXIST" \/ f \notin compared
        BY <1>1, <2>3, <4>2 DEF FieldFound
      <4>3. CASE f \in compared /\ f \in {"SIZE"} \cup Attributes
        BY <1>1, <4>1, <4>3 DEF FieldFound, Attributes
      <4>4. CASE f = "TYPE"
        BY <1>1, <1>4, <4>4 DEF FieldFound, Attributes
      <4> QED
        BY <3>1, <4>2, <4>3, <4>4
    <3>2. CASE f \notin {"EXIST", "TYPE", "SIZE"} \cup Attributes /\ f \in compared
      <4>1. ~ToRead(n) \/ f # "CONTENT"
        BY <2>3
      <4>2. f = "CONTENT"
        BY <1>2, <3>2, ComparedFields DEF DcmpInv, Fields
      <4>3. Content(SourceList[n], DestinationList[n])' = Content(SourceList[n], DestinationList[n])
        BY <1>1, <1>4 DEF Content, Metadata
      <4> QED
        BY <1>1, <1>4, <1>6, <3>2, <4>1, <4>2, <4>3 DEF FieldFound
    <3> QED
      BY <3>1, <3>2
  <2> QED
    BY <2>2, <2>3
<1>9. ASSUME NEW i \in 1 .. 2, NEW n \in DOMAIN sides[i]
      PROVE  maps'[i][n] = Found(i, n)'
  <2>1. maps[i][n] = Found(i, n) /\ DOMAIN maps[i] = DOMAIN sides[i]
    BY <1>5
  <2>2. maps'[i][n] = IF n \in contents
                      THEN [maps[i][n] EXCEPT !["CONTENT"] = StateOf(AnyOf(n) = {})] ELSE maps[i][n]
    BY <1>1, <2>1
  <2>3. CASE n \in Common
    <3>1. Found(i, n) = [f \in Fields |-> FieldFound(f, n)]
      BY <1>1, <2>3 DEF Found
    <3>2. Found(i, n)' = [f \in Fields |-> FieldFound(f, n)']
      BY <1>1, <1>4, <2>3 DEF Found
    <3>3. CASE ToRead(n)
      <4>1. maps'[i][n] = [f \in Fields |-> IF f = "CONTENT" THEN StateOf(AnyOf(n) = {})
                                            ELSE FieldFound(f, n)]
        BY <1>5, <1>7, <2>1, <2>2, <2>3, <3>1, <3>3
      <4> QED
        BY <1>8, <3>2, <3>3, <4>1
    <3>4. CASE ~ToRead(n)
      BY <1>5, <1>8, <2>1, <2>2, <3>1, <3>2, <3>4
    <3> QED
      BY <3>3, <3>4
  <2>4. CASE n \notin Common
    <3>1. Found(i, n)' = Found(i, n)
      BY <1>1, <1>4, <2>4 DEF Found
    <3> QED
      BY <1>5, <2>1, <2>2, <2>4, <3>1
  <2> QED
    BY <2>3, <2>4
<1>10. ItemsInv'
  <2>1. maps' = [i \in 1 .. 2 |-> [n \in DOMAIN sides[i] |-> maps'[i][n]]]
    BY <1>1, <1>5
  <2>2. maps' = [i \in 1 .. 2 |-> [n \in DOMAIN sides'[i] |-> Found(i, n)']]
    BY <1>1, <1>9, <2>1
  <2> QED
    BY <1>1, <1>4, <1>5, <1>6, <2>2 DEF ItemsInv
<1>11. FlagsInv'
  <2>1. \A x : SameUnits(x[1], x[2])' <=> SameUnits(x[1], x[2])
    BY <1>4 DEF SameUnits
  <2> QED
    BY <1>1, <1>2, <1>4, <2>1 DEF DcmpInv, FlagsInv
<1>12. compared # {} => Checked(maps')
  <2> SUFFICES ASSUME compared # {} PROVE Checked(maps')
    OBVIOUS
  <2>1. "EXIST" \in compared /\ "EXIST" \in Fields
    BY <1>2, ComparedFields DEF DcmpInv, Fields
  <2>2. \A i \in 1 .. 2 : DOMAIN maps'[i] = DOMAIN sides[i]
    BY <1>1, <1>5
  <2>3. ASSUME NEW i \in 1 .. 2, NEW n \in Common
        PROVE  /\ n \in DOMAIN sides[i] /\ maps'[i][n] = [f \in Fields |-> FieldFound(f, n)']
               /\ FieldFound("EXIST", n)' = "COMMON"
               /\ \A f \in Fields \ {"EXIST"} :
                     IF f \in compared THEN FieldFound(f, n)' \in {"COMMON", "DIFFER"}
                     ELSE FieldFound(f, n)' = "INIT"
    <3>1. n \in DOMAIN sides[i]
      BY DEF Common, SourceList, DestinationList
    <3>2. maps'[i][n] = [f \in Fields |-> FieldFound(f, n)']
      BY <1>1, <1>4, <1>9, <3>1 DEF Found
    <3>3. FieldFound("EXIST", n)' = "COMMON"
      BY DEF FieldFound
    <3>4. ASSUME NEW f \in Fields \ {"EXIST"}, f \in compared
          PROVE  FieldFound(f, n)' \in {"COMMON", "DIFFER"}
      <4>1. CASE f = "CONTENT" /\ ToRead(n)
        BY <1>8, <4>1 DEF StateOf
      <4>2. CASE ~(f = "CONTENT" /\ ToRead(n))
        <5>1. FieldFound(f, n) \in {"COMMON", "DIFFER"}
          BY <3>4, <4>2, FoundStates
        <5> QED
          BY <1>8, <4>2, <5>1
      <4> QED
        BY <4>1, <4>2
    <3>5. ASSUME NEW f \in Fields \ {"EXIST"}, f \notin compared
          PROVE  FieldFound(f, n)' = "INIT"
      BY <1>1, <3>5 DEF FieldFound
    <3> QED
      BY <3>1, <3>2, <3>3, <3>4, <3>5
  <2>4. ASSUME NEW i \in 1 .. 2, NEW n \in DOMAIN sides[i], n \notin Common
        PROVE  maps'[i][n] = [f \in Fields |-> IF i = 1 /\ f = "EXIST" THEN "ONLY_SRC" ELSE "INIT"]
    BY <1>1, <1>4, <1>9, <2>4 DEF Found
  <2>5. ASSUME NEW i \in 1 .. 2, NEW n \in DOMAIN maps'[i], n \in Common
        PROVE  /\ maps'[1][n] = maps'[2][n] /\ maps'[i][n]["EXIST"] = "COMMON"
               /\ \A f \in Fields \ {"EXIST"} :
                     IF f \in compared THEN maps'[i][n][f] \in {"COMMON", "DIFFER"}
                     ELSE maps'[i][n][f] = "INIT"
    <3>1. maps'[1][n] = maps'[2][n]
      <4>1. 1 \in 1 .. 2 /\ 2 \in 1 .. 2
        OBVIOUS
      <4>2. maps'[1][n] = [f \in Fields |-> FieldFound(f, n)']
        BY <2>3, <2>5, <4>1, Zenon
      <4>3. maps'[2][n] = [f \in Fields |-> FieldFound(f, n)']
        BY <2>3, <2>5, <4>1, Zenon
      <4> QED
        BY <4>2, <4>3, Zenon
    <3>2. maps'[i][n] = [f \in Fields |-> FieldFound(f, n)']
      BY <2>3, <2>5
    <3>3. \A f \in Fields : maps'[i][n][f] = FieldFound(f, n)'
      BY <3>2
    <3> QED
      BY <2>1, <2>3, <2>5, <3>1, <3>3
  <2>6. ASSUME NEW i \in 1 .. 2, NEW n \in DOMAIN maps'[i], n \notin Common
        PROVE  /\ maps'[i][n]["EXIST"] = IF i = 1 THEN "ONLY_SRC" ELSE "INIT"
               /\ \A f \in Fields \ {"EXIST"} : maps'[i][n][f] = "INIT"
    <3>1. maps'[i][n] = [f \in Fields |-> IF i = 1 /\ f = "EXIST" THEN "ONLY_SRC" ELSE "INIT"]
      BY <2>2, <2>4, <2>6
    <3> QED
      BY <2>1, <3>1
  <2> QED
    BY <2>1, <2>5, <2>6 DEF Checked
<1>13. ReportsInv'
  <2>1. reports' = <<>> /\ Len(reports) <= Len(outputs) /\ Len(reports) = 0
    BY <1>1, <1>2 DEF DcmpInv, ReportsInv
  <2>2. reports' \in Seq({ReportOf(outputs[n])' : n \in DOMAIN outputs'})
    BY <2>1
  <2>3. stage' = "aborted" => line.debug /\ \A n \in DOMAIN outputs : Expressions(outputs[n]) = {}
    BY <1>1, <1>2, <1>12, ComparedFields DEF DcmpInv
  <2> QED
    BY <1>1, <1>2, <2>1, <2>2, <2>3 DEF ReportsInv
<1> QED
  BY <1>3, <1>10, <1>11, <1>13 DEF DcmpInv

\* What is so of the options, the maps and the flags is so while outputs are written,
\* and while nothing happens.
LEMMA WritingKeeps ==
    ASSUME DcmpInv,
           \/ stage = "outputs" /\ stage' \in {"outputs", "over"}
           \/ UNCHANGED <<stage, reports>>,
           UNCHANGED <<sides, line, outputs, compared, maps, left, contents, flags, status>>
    PROVE  /\ Parsed' <=> Parsed
           /\ stage = "outputs" => Parsed
           /\ OptionsInv' /\ ItemsInv' /\ FlagsInv'
<1>1. /\ Usage' <=> Usage
      /\ Parsed' <=> Parsed
      /\ stage = "outputs" => Parsed
  BY DEF DcmpInv, OptionsInv, Parsed, Usage
<1>2. OptionsInv'
  BY <1>1 DEF DcmpInv, OptionsInv, OutputsOf
<1>3. UNCHANGED <<SourceList, DestinationList, Common, Chunks>>
  BY DEF SourceList, DestinationList, Common, Chunks, ChunksOf
<1>4. ItemsInv'
  <2>1. \A s, d : Content(s, d)' = Content(s, d) /\ Metadata(s, d)' = Metadata(s, d)
    BY DEF Content, Metadata
  <2>2. \A n : ToRead(n)' <=> ToRead(n)
    BY <1>3 DEF ToRead, Content, Metadata
  <2>3. \A n : AnyOf(n)' = AnyOf(n)
    BY <1>3 DEF AnyOf, ChunksOf
  <2>4. \A f, n : FieldFound(f, n)' = FieldFound(f, n)
    BY <1>3, <2>2, <2>3 DEF FieldFound, Content, Metadata
  <2>5. \A i, n : Found(i, n)' = Found(i, n)
    BY <1>3, <2>4 DEF Found
  <2> QED
    BY <1>1, <1>3, <2>2, <2>5 DEF DcmpInv, ItemsInv
<1>5. FlagsInv'
  <2>1. \A x : SameUnits(x[1], x[2])' <=> SameUnits(x[1], x[2])
    BY <1>3 DEF SameUnits
  <2> QED
    BY <1>1, <1>3, <2>1 DEF DcmpInv, FlagsInv
<1> QED
  BY <1>1, <1>2, <1>4, <1>5

\* What is to be written of an output does not change.
LEMMA ReportStays ==
    ASSUME UNCHANGED <<sides, line, flags>>, NEW o
    PROVE  ReportOf(o)' = ReportOf(o)
<1>1. UNCHANGED <<SourceList, DestinationList, Common>>
  BY DEF SourceList, DestinationList, Common
<1>2. \A f, n : Agree(f, n)' = Agree(f, n)
  BY <1>1 DEF Agree, SameContents, Unread
<1>3. \A x, n : Says(x, n)' = Says(x, n)
  BY <1>1, <1>2 DEF Says
<1>4. \A c, n : SaidIn(c, n)' = SaidIn(c, n)
  BY <1>3 DEF SaidIn
<1>5. \A i : SaidBy(o, i)' = SaidBy(o, i)
  BY <1>4 DEF SaidBy
<1>6. \A i, j : SaidFirst(o, i, j)' = SaidFirst(o, i, j)
  BY <1>4 DEF SaidFirst
<1> QED
  BY <1>5, <1>6 DEF ReportOf

\* dcmp_output_write: no assertion fails, and what is written is what was to be.
LEMMA WriteStep ==
    ASSUME DcmpAssumption, DcmpInv, Write
    PROVE  DcmpInv'
<1> DEFINE n == Len(reports) + 1
           o == outputs[n]
<1>1. /\ stage = "outputs" /\ Len(reports) < Len(outputs)
      /\ UNCHANGED <<sides, line, outputs, compared, maps, left, contents, flags, status>>
  BY DEF Write
<1>2. Parsed
  BY <1>1 DEF DcmpInv, OptionsInv, Parsed
<1>3. /\ IsSequence(outputs)
      /\ reports \in Seq({ReportOf(outputs[k]) : k \in DOMAIN outputs})
      /\ \A k \in DOMAIN reports : reports[k] = ReportOf(outputs[k])
  BY <1>2, ComparedFields DEF DcmpInv, ReportsInv
<1>4. /\ Len(outputs) \in Nat /\ DOMAIN outputs = 1 .. Len(outputs)
      /\ Len(reports) \in Nat /\ DOMAIN reports = 1 .. Len(reports)
  BY <1>3 DEF IsSequence
<1>5. n \in DOMAIN outputs
  BY <1>1, <1>4
<1> HIDE DEF n
<1>6. \A i \in 1 .. 2 : AllCompared(o, maps[i])
  BY <1>1, <1>2, <1>5, OutputSays
<1>7. /\ reports' = Append(reports, [items |-> [i \in 1 .. 2 |-> Chosen(o, maps[i])],
                                     counts |-> [i \in 1 .. 2 |-> Counts(o, maps[i])]])
      /\ stage' = stage
  BY <1>6 DEF Write, n
<1>8. [items |-> [i \in 1 .. 2 |-> Chosen(o, maps[i])],
       counts |-> [i \in 1 .. 2 |-> Counts(o, maps[i])]] = ReportOf(o)
  <2>1. \A i \in 1 .. 2 :
           /\ Chosen(o, maps[i]) = SaidBy(o, i)
           /\ Counts(o, maps[i]) = [j \in DOMAIN o |-> Cardinality(SaidFirst(o, i, j))]
    BY <1>1, <1>2, <1>5, OutputSays
  <2> HIDE DEF o
  <2> QED
    BY <2>1 DEF ReportOf
<1>9. Parsed' /\ OptionsInv' /\ ItemsInv' /\ FlagsInv'
  BY <1>1, <1>7, WritingKeeps
<1>10. ReportsInv'
  <2> DEFINE S == {ReportOf(outputs[k]) : k \in DOMAIN outputs}
  <2>1. S' = S
    BY <1>1, ReportStays
  <2>2. ReportOf(o) \in S /\ reports \in Seq(S) /\ reports' = Append(reports, ReportOf(o))
    BY <1>3, <1>5, <1>7, <1>8
  <2> HIDE DEF S
  <2>3. /\ reports' \in Seq(S) /\ Len(reports') = n
        /\ \A k \in 1 .. Len(reports) : reports'[k] = reports[k]
        /\ reports'[n] = ReportOf(o)
    BY <2>2, AppendProperties DEF n
  <2>4. ASSUME NEW k \in DOMAIN reports'
        PROVE  reports'[k] = ReportOf(outputs[k])'
    <3>1. k \in 1 .. Len(reports) \/ k = n
      BY <1>4, <2>3 DEF n
    <3>2. reports'[k] = ReportOf(outputs[k])
      BY <1>3, <1>4, <2>3, <3>1
    <3>3. ReportOf(outputs[k])' = ReportOf(outputs[k])
      BY <1>1, ReportStays
    <3> QED
      BY <3>2, <3>3
  <2>5. Len(reports') <= Len(outputs')
    BY <1>1, <1>4, <2>3 DEF n
  <2>6. reports' \in Seq(S')
    BY <2>1, <2>3
  <2>7. reports' \in Seq({ReportOf(outputs[k])' : k \in DOMAIN outputs'})
    BY <2>6 DEF S
  <2>8. stage' = "outputs"
    BY <1>1, <1>7
  <2> QED
    BY <2>4, <2>5, <2>7, <2>8 DEF ReportsInv
<1> QED
  BY <1>9, <1>10 DEF DcmpInv

\* dcmp exits.
LEMMA ExitStep ==
    ASSUME DcmpInv, Exit
    PROVE  DcmpInv'
<1>1. /\ stage = "outputs" /\ stage' = "over"
      /\ UNCHANGED <<sides, line, outputs, compared, maps, left, contents, flags, reports, status>>
  BY DEF Exit
<1>2. Parsed /\ Parsed' /\ OptionsInv' /\ ItemsInv' /\ FlagsInv'
  BY <1>1, WritingKeeps
<1>3. \A k : ReportOf(outputs[k])' = ReportOf(outputs[k])
  BY <1>1, ReportStays
<1>4. ReportsInv'
  <2>1. reports' \in Seq({ReportOf(outputs[k])' : k \in DOMAIN outputs'})
    BY <1>1, <1>2, <1>3 DEF DcmpInv, ReportsInv
  <2> QED
    BY <1>1, <1>2, <1>3, <2>1 DEF DcmpInv, ReportsInv
<1> QED
  BY <1>2, <1>4 DEF DcmpInv

\* Nothing happens.
LEMMA NothingDcmpStep ==
    ASSUME DcmpInv, UNCHANGED cmpVars
    PROVE  DcmpInv'
<1>1. UNCHANGED <<sides, line, stage, outputs, compared, maps, left, contents, flags, reports,
                  status>>
  BY DEF cmpVars
<1>2. /\ Parsed' <=> Parsed
      /\ OptionsInv' /\ ItemsInv' /\ FlagsInv'
  BY <1>1, WritingKeeps
<1>3. \A k : ReportOf(outputs[k])' = ReportOf(outputs[k])
  BY <1>1, ReportStays
<1>4. ReportsInv'
  <2> SUFFICES ASSUME Parsed'
               PROVE  ReportsInv'
    BY DEF ReportsInv
  <2>1. reports' \in Seq({ReportOf(outputs[k])' : k \in DOMAIN outputs'})
    BY <1>1, <1>2, <1>3 DEF DcmpInv, ReportsInv
  <2> QED
    BY <1>1, <1>2, <1>3, <2>1 DEF DcmpInv, ReportsInv
<1> QED
  BY <1>2, <1>4 DEF DcmpInv

\* What the invariant says of a run of dcmp.
LEMMA DcmpInvMeansReported ==
    ASSUME DcmpAssumption, DcmpInv
    PROVE  Reported
<1>1. CASE Parsed
  <2>1. stage = "aborted" => line.debug /\ \A n \in DOMAIN outputs : Expressions(outputs[n]) = {}
    BY <1>1 DEF DcmpInv, ReportsInv
  <2>2. ASSUME NEW n \in DOMAIN reports, NEW i \in 1 .. 2
        PROVE  /\ reports[n].items[i] = SaidBy(outputs[n], i)
               /\ reports[n].counts[i] =
                      [j \in DOMAIN outputs[n] |-> Cardinality(SaidFirst(outputs[n], i, j))]
    <3>1. reports[n] = ReportOf(outputs[n])
      BY <1>1 DEF DcmpInv, ReportsInv
    <3>2. /\ ReportOf(outputs[n]).items = [k \in 1 .. 2 |-> SaidBy(outputs[n], k)]
          /\ ReportOf(outputs[n]).counts =
                 [k \in 1 .. 2 |->
                     [j \in DOMAIN outputs[n] |-> Cardinality(SaidFirst(outputs[n], k, j))]]
      BY DEF ReportOf
    <3> QED
      BY <3>1, <3>2
  <2>3. stage = "over" => ((status = 1) = (Usage \/ \E name \in contents : Unread(name)))
    <3> SUFFICES ASSUME stage = "over"
                 PROVE  (status = 1) = (\E name \in contents : Unread(name))
      BY <1>1 DEF Parsed
    <3>1. /\ DOMAIN flags = Chunks
          /\ status = IF \E c \in DOMAIN flags : flags[c] = "failed" THEN 1 ELSE 0
      BY <1>1 DEF DcmpInv, FlagsInv
    <3>2. \A c \in Chunks : c[1] \in contents
      BY DEF Chunks
    <3>3. CASE \E c \in DOMAIN flags : flags[c] = "failed"
      <4>1. \E name \in contents : Unread(name)
        BY <3>1, <3>2, <3>3 DEF Unread
      <4> QED
        BY <3>1, <3>3, <4>1
    <3>4. CASE ~\E c \in DOMAIN flags : flags[c] = "failed"
      <4>1. ~\E name \in contents : Unread(name)
        BY <3>4 DEF Unread
      <4>2. status # 1
        BY <3>1, <3>4
      <4> QED
        BY <4>1, <4>2
    <3> QED
      BY <3>3, <3>4
  <2> QED
    BY <2>1, <2>2, <2>3 DEF Reported
<1>2. CASE stage = "options"
  BY <1>2 DEF DcmpInv, OptionsInv, Reported
<1>3. CASE stage # "options" /\ Usage
  BY <1>3 DEF DcmpInv, OptionsInv, Reported
<1> QED
  BY <1>1, <1>2, <1>3 DEF Parsed

-----------------------------------------------------------------------------

\* Whatever the two trees and whatever is asked of them, in whatever order items and
\* chunks are compared: what dcmp writes of each output are the items of which the
\* expressions are true, each counted by the first conjunction that is, although the
\* fields are compared once for all outputs (dcmp_strmap_compare, dcmp_output_write);
\* the assertions of dcmp_expression_match hold, and those of --debug if anything is
\* asked; and the status tells of wrong arguments and of files that cannot be read.
THEOREM OutputsAreReported == ASSUME DcmpAssumption PROVE CmpSpec => []Reported
<1>1. CmpInit => DcmpInv
  BY DcmpInvInit
<1>2. DcmpInv /\ [CmpNext]_cmpVars => DcmpInv'
  <2> QED
    BY NothingDcmpStep, OptionsStep, CompareItemStep, CompareChunkStep, GatheredStep, WriteStep, ExitStep
    DEF CmpNext
<1>3. DcmpInv => Reported
  BY DcmpInvMeansReported
<1> QED
  BY <1>1, <1>2, <1>3, PTL DEF CmpSpec

-----------------------------------------------------------------------------
(* dsync --link-dest                                                         *)
(* A run leaves the third tree as it is, though it writes through names of   *)
(* the destination that may share that tree's inodes: every name that is to  *)
(* be copied to is gone before the copy begins.  And a run that reports      *)
(* success has copied or linked what it was to.                              *)

\* A file is still to be taken from a bag, one time at least.
Waits(f, bag) == f \in DOMAIN bag /\ bag[f] \in Nat \ {0}

BeforeSync == {"comparelink", "lists", "sync"}

SceneInv ==
    /\ scene \in Scenes
    /\ DOMAIN dirent = LinkFiles
    /\ step \in BeforeSync => alike \subseteq LinkFiles

\* What is to be copied has no name, or one that waits to be removed.
NamesInv ==
    /\ step \in BeforeSync \cup {"compare"} => dirent = scene.dst
    /\ step \in BeforeSync =>
           \A f \in copies \cap LinkFiles : dirent[f] = None \/ Waits(f, unlinks)
    /\ step = "unlink" => \A f \in copies \cap LinkFiles : dirent[f] = None \/ Waits(f, todo)
    /\ step = "copy" => \A f \in DOMAIN todo \cap LinkFiles : todo[f] = 1 /\ dirent[f] = None

\* The third tree's files hold what they held.
StoreInv ==
    \A f \in InLink :
       /\ scene.link[f] \in DOMAIN store
       /\ "data" \in DOMAIN store[scene.link[f]]
       /\ store[scene.link[f]].data = LinkWalked(f).data

LinkInv == SceneInv /\ ("remove" \notin failed => NamesInv /\ StoreInv)

-----------------------------------------------------------------------------
(* Bags                                                                      *)

\* A bag of lists put together: what waits in one waits in the sum.
LEMMA WaitsInSum ==
    ASSUME NEW f, NEW B1, NEW B2, Waits(f, B1),
           f \in DOMAIN B2 => B2[f] \in Nat
    PROVE  Waits(f, B1 (+) B2)
<1>1. f \in DOMAIN (B1 (+) B2)
  BY DEF Waits, (+)
<1>2. (B1 (+) B2)[f] = B1[f] + (IF f \in DOMAIN B2 THEN B2[f] ELSE 0)
  BY DEF Waits, (+)
<1> QED
  BY <1>1, <1>2 DEF Waits

\* A process takes g from what its phase has left, and f waits on.
LEMMA OthersWait ==
    ASSUME NEW f, NEW g, f # g, NEW B, Waits(f, B)
    PROVE  Waits(f, B (-) SetToBag({g}))
BY DEF Waits, (-), SetToBag

\* What is left is what was there.
LEMMA WhatIsLeft ==
    ASSUME NEW f, NEW g, NEW B, f \in DOMAIN (B (-) SetToBag({g}))
    PROVE  /\ f \in DOMAIN B
           /\ f # g => (B (-) SetToBag({g}))[f] = B[f]
           /\ f = g => B[f] # 1
BY DEF (-), SetToBag

\* How often a value occurs is a number (dsync_generate_real_lists adds items one
\* by one).
LEMMA ImagesCount ==
    ASSUME NEW fs, IsFiniteSet(fs), NEW g, NEW e \in DOMAIN Images(g, fs)
    PROVE  Images(g, fs)[e] \in Nat
<1>1. IsFiniteSet({f \in fs : g[f] = e})
  BY FS_Subset
<1>2. Cardinality({f \in fs : g[f] = e}) \in Nat
  BY <1>1, FS_CardinalityType
<1> QED
  BY <1>2 DEF Images

-----------------------------------------------------------------------------
(* The steps                                                                 *)

\* A file's data is not what its metadata is (mfu_copy_set_metadata,
\* mfu_flist_file_sync_meta).
LEMMA MetadataOnly ==
    ASSUME NEW s, NEW i, NEW j \in DOMAIN s, "data" \in DOMAIN s[j], NEW m, NEW p
    PROVE  LET t == [s EXCEPT ![i].mtime = m, ![i].perm = p]
           IN  j \in DOMAIN t /\ "data" \in DOMAIN t[j] /\ t[j].data = s[j].data
<1> DEFINE u == [s EXCEPT ![i].mtime = m]
           t == [u EXCEPT ![i].perm = p]
<1>1. j \in DOMAIN u /\ "data" \in DOMAIN u[j] /\ u[j].data = s[j].data
  OBVIOUS
<1>2. j \in DOMAIN t /\ "data" \in DOMAIN t[j] /\ t[j].data = u[j].data
  <2> HIDE DEF u
  <2> QED
    BY <1>1
<1> QED
  BY <1>1, <1>2

\* Metadata written to an inode leaves the data of every inode.
LEMMA MetadataKeepsData ==
    ASSUME NEW f, SetMetadata(f) \/ SetLinkMetadata(f) \/ Refresh(f)
    PROVE  /\ DOMAIN store' = DOMAIN store
           /\ \A i \in DOMAIN store : "data" \in DOMAIN store[i] =>
                 /\ i \in DOMAIN store' /\ "data" \in DOMAIN store'[i]
                 /\ store'[i].data = store[i].data
<1>1. CASE UNCHANGED store
  BY <1>1
<1>2. ASSUME NEW j, NEW m, NEW p, store' = [store EXCEPT ![j].mtime = m, ![j].perm = p]
      PROVE  /\ DOMAIN store' = DOMAIN store
             /\ \A i \in DOMAIN store : "data" \in DOMAIN store[i] =>
                   /\ i \in DOMAIN store' /\ "data" \in DOMAIN store'[i]
                   /\ store'[i].data = store[i].data
  BY <1>2, MetadataOnly
<1>3. ASSUME NEW j, NEW m, NEW p, store' = [store EXCEPT ![j].perm = p, ![j].mtime = m]
      PROVE  /\ DOMAIN store' = DOMAIN store
             /\ \A i \in DOMAIN store : "data" \in DOMAIN store[i] =>
                   /\ i \in DOMAIN store' /\ "data" \in DOMAIN store'[i]
                   /\ store'[i].data = store[i].data
  <2> DEFINE u == [store EXCEPT ![j].perm = p]
  <2>1. /\ DOMAIN u = DOMAIN store
        /\ \A i \in DOMAIN store : "data" \in DOMAIN store[i] =>
              "data" \in DOMAIN u[i] /\ u[i].data = store[i].data
    OBVIOUS
  <2>2. store' = [u EXCEPT ![j].mtime = m]
    BY <1>3
  <2> HIDE DEF u
  <2>3. /\ DOMAIN store' = DOMAIN u
        /\ \A i \in DOMAIN u : "data" \in DOMAIN u[i] =>
              "data" \in DOMAIN store'[i] /\ store'[i].data = u[i].data
    BY <2>2
  <2> QED
    BY <2>1, <2>3
<1>4. \/ UNCHANGED store
      \/ \E j, m, p : store' = [store EXCEPT ![j].mtime = m, ![j].perm = p]
      \/ \E j, m, p : store' = [store EXCEPT ![j].perm = p, ![j].mtime = m]
  <2>1. CASE SetMetadata(f)
    BY <2>1 DEF SetMetadata, Given
  <2>2. CASE SetLinkMetadata(f)
    BY <2>2 DEF SetLinkMetadata, Given
  <2>3. CASE Refresh(f)
    <3> DEFINE j == dirent[f]
               p == IF PermDiffers(f) THEN Source(f).perm ELSE store[j].perm
               u == [store EXCEPT ![j].perm = p]
               m == IF TimesDiffer(f) THEN Source(f).mtime ELSE u[j].mtime
    <3>1. UNCHANGED store \/ store' = [store EXCEPT ![j].perm = p, ![j].mtime = m]
      BY <2>3 DEF Refresh
    <3> HIDE DEF j, p, m
    <3> QED
      BY <3>1
  <2> QED
    BY <2>1, <2>2, <2>3
<1> QED
  BY <1>1, <1>2, <1>3, <1>4

LEMMA StoreKept ==
    ASSUME StoreInv, UNCHANGED scene,
           \A f \in InLink : /\ scene.link[f] \in DOMAIN store'
                             /\ "data" \in DOMAIN store'[scene.link[f]]
                             /\ store'[scene.link[f]].data = store[scene.link[f]].data
    PROVE  StoreInv'
BY DEF StoreInv, InLink, LinkWalked

LEMMA StoreUnchanged ==
    ASSUME StoreInv, UNCHANGED <<scene, store>>
    PROVE  StoreInv'
BY DEF StoreInv, InLink, LinkWalked

LEMMA FailsAdds ==
    ASSUME NEW kind, Fails(kind)
    PROVE  failed' = failed \cup {kind}
BY DEF Fails

\* At the start the destination is as it was found.
LEMMA LinkInvInit ==
    ASSUME ScenesAssumption, LinkInit
    PROVE  LinkInv
<1>1. SceneInv
  BY DEF ScenesAssumption, LinkInit, SceneInv, BeforeSync
<1>2. NamesInv
  BY DEF LinkInit, NamesInv, BeforeSync
<1>3. StoreInv
  BY DEF ScenesAssumption, LinkInit, StoreInv, InLink, LinkWalked
<1> QED
  BY <1>1, <1>2, <1>3 DEF LinkInv

LEMMA CompareStep ==
    ASSUME ScenesAssumption, LinkInv, Compare
    PROVE  LinkInv'
<1>1. /\ step = "compare" /\ step' = "comparelink"
      /\ UNCHANGED <<scene, dirent, store, linkalike, hardlinks, todo, verdict>>
  BY DEF Compare
<1> DEFINE common == InSrc \cap InDst
           sized == {f \in common : SizeOf(Source(f)) = SizeOf(Walked(f))}
<1>2. PICK unread \in SUBSET sized :
         LET differ == (common \ sized) \cup unread
                           \cup {f \in sized : ~Same(f, Walked(f))}
         IN  /\ IF unread = {} THEN UNCHANGED <<rc, failed>>
                ELSE scene.contents /\ Fails("read") /\ rc' = -1
             /\ copies' = (InSrc \ InDst) \cup differ
             /\ unlinks' = ToRemove(differ)
             /\ alike' = common \ differ
  BY DEF Compare
<1> DEFINE differ == (common \ sized) \cup unread
                         \cup {f \in sized : ~Same(f, Walked(f))}
<1>3. /\ copies' = (InSrc \ InDst) \cup differ /\ unlinks' = SetToBag(differ)
      /\ alike' \subseteq InDst
  BY <1>2 DEF ToRemove
<1> HIDE DEF differ, sized
<1>4. failed \subseteq failed'
  BY <1>2, FailsAdds
<1>5. SceneInv'
  BY <1>1, <1>3 DEF LinkInv, SceneInv, InDst
<1>6. ASSUME "remove" \notin failed
      PROVE  NamesInv' /\ StoreInv'
  <2>1. dirent = scene.dst /\ StoreInv
    BY <1>1, <1>6 DEF LinkInv, NamesInv, BeforeSync
  <2>2. ASSUME NEW f \in copies' \cap LinkFiles
        PROVE  dirent'[f] = None \/ Waits(f, unlinks')
    <3>1. CASE f \in differ
      BY <1>3, <3>1 DEF Waits, SetToBag
    <3>2. CASE f \in InSrc \ InDst
      BY <1>1, <2>1, <3>2 DEF InDst
    <3> QED
      BY <1>3, <3>1, <3>2
  <2>3. NamesInv'
    BY <1>1, <2>1, <2>2 DEF NamesInv, BeforeSync
  <2> QED
    BY <1>1, <2>1, <2>3, StoreUnchanged
<1> QED
  BY <1>4, <1>5, <1>6 DEF LinkInv

LEMMA CompareLinkStep ==
    ASSUME ScenesAssumption, LinkInv, CompareLink
    PROVE  LinkInv'
<1>1. /\ step = "comparelink" /\ step' = "lists"
      /\ UNCHANGED <<scene, dirent, store, copies, unlinks, alike, hardlinks, refresh, todo>>
      /\ failed \subseteq failed'
  BY FailsAdds DEF CompareLink
<1> QED
  BY <1>1, StoreUnchanged DEF LinkInv, SceneInv, NamesInv, BeforeSync
LEMMA DivideStep ==
    ASSUME ScenesAssumption, LinkInv, Divide
    PROVE  LinkInv'
<1>1. /\ step = "lists" /\ step' = "sync"
      /\ UNCHANGED <<scene, dirent, store, alike, linkalike, refresh, todo, rc, verdict, failed>>
      /\ copies' = copies \ linkalike
  BY DEF Divide
<1>2. \E index : \E removed \in SUBSET alike : unlinks' = unlinks (+) Images(index, removed)
  <2>1. PICK index : unlinks' = unlinks (+) Images(index,
           {f \in {g \in alike : /\ scene.key[g] \in linkalike
                                 /\ ~(/\ index[g] \in InDst
                                      /\ scene.dst[index[g]] = scene.link[scene.key[g]])} :
               index[f] # NoFile})
    BY Zenon DEF Divide
  <2> QED
    BY <2>1
<1>3. \A removed \in SUBSET alike : IsFiniteSet(removed)
  BY <1>1, FS_Subset DEF ScenesAssumption, LinkInv, SceneInv, BeforeSync
<1>4. ASSUME NEW f, Waits(f, unlinks)
      PROVE  Waits(f, unlinks')
  BY <1>2, <1>3, <1>4, ImagesCount, WaitsInSum
<1>5. SceneInv'
  BY <1>1 DEF LinkInv, SceneInv, BeforeSync
<1>6. ASSUME NamesInv
      PROVE  NamesInv'
  BY <1>1, <1>4, <1>6 DEF NamesInv, BeforeSync
<1> QED
  BY <1>1, <1>5, <1>6, StoreUnchanged DEF LinkInv

LEMMA SyncStep ==
    ASSUME ScenesAssumption, LinkInv, Sync
    PROVE  LinkInv'
<1>1. /\ step = "sync" /\ failed \subseteq failed'
      /\ UNCHANGED <<scene, dirent, store, copies, alike, linkalike, hardlinks, refresh, verdict>>
  BY FailsAdds DEF Sync
<1>2. SceneInv' /\ step' \in {"unlink", "refresh"}
  BY <1>1 DEF LinkInv, SceneInv, BeforeSync, Sync
<1>3. ASSUME NEW fs, unlinks' = unlinks (+) SetToBag(fs), step' = "unlink", todo' = unlinks',
             NamesInv
      PROVE  NamesInv'
  <2>1. ASSUME NEW f, Waits(f, unlinks)
        PROVE  Waits(f, todo')
    BY <1>3, <2>1, WaitsInSum DEF SetToBag
  <2> QED
    BY <1>1, <1>3, <2>1 DEF NamesInv, BeforeSync
<1>4. step' = "refresh" => NamesInv'
  BY DEF NamesInv, BeforeSync
<1>5. NamesInv => NamesInv'
  BY <1>3, <1>4 DEF Sync
<1> QED
  BY <1>1, <1>2, <1>5, StoreUnchanged DEF LinkInv

\* A file of the phase taken, what SceneInv says stays so.
LEMMA SceneStays ==
    ASSUME SceneInv, UNCHANGED <<scene, step, comparison>>, DOMAIN dirent' = DOMAIN dirent
    PROVE  SceneInv'
BY DEF SceneInv, comparison

LEMMA UnlinkStep ==
    ASSUME ScenesAssumption, LinkInv, NEW f \in LinkFiles, Unlink(f)
    PROVE  LinkInv'
<1>1. /\ step = "unlink" /\ todo' = todo (-) SetToBag({f})
      /\ UNCHANGED <<scene, step, comparison, store>>
      /\ failed \subseteq failed'
  BY FailsAdds DEF Unlink, Took, Rest
<1>2. dirent' = [dirent EXCEPT ![f] = None] \/ (UNCHANGED dirent /\ "remove" \in failed')
  BY FailsAdds DEF Unlink
<1>3. SceneInv'
  BY <1>1, <1>2, SceneStays DEF LinkInv
<1>4. ASSUME "remove" \notin failed', NamesInv
      PROVE  NamesInv'
  <2>1. dirent' = [dirent EXCEPT ![f] = None]
    BY <1>2, <1>4
  <2>2. ASSUME NEW g \in copies \cap LinkFiles
        PROVE  dirent'[g] = None \/ Waits(g, todo')
    <3>1. CASE g = f
      BY <2>1, <3>1 DEF LinkInv, SceneInv
    <3>2. CASE g # f
      <4>1. dirent'[g] = dirent[g]
        BY <2>1, <3>2 DEF LinkInv, SceneInv
      <4>2. dirent[g] = None \/ Waits(g, todo)
        BY <1>1, <1>4 DEF NamesInv
      <4> QED
        BY <1>1, <3>2, <4>1, <4>2, OthersWait
    <3> QED
      BY <3>1, <3>2
  <2> QED
    BY <1>1, <2>2 DEF NamesInv, BeforeSync, comparison
<1> QED
  BY <1>1, <1>3, <1>4, StoreUnchanged DEF LinkInv

LEMMA CopyStep ==
    ASSUME ScenesAssumption, LinkInv, NEW f \in LinkFiles, Copy(f)
    PROVE  LinkInv'
<1> DEFINE n == IF Named(f) THEN dirent[f] ELSE <<"new", f>>
<1>1. /\ step = "copy" /\ f \in DOMAIN todo /\ todo' = todo (-) SetToBag({f})
      /\ UNCHANGED <<scene, step, comparison>>
      /\ failed \subseteq failed'
  BY FailsAdds DEF Copy, Took, Rest, BagIn, BagToSet
<1>2. \/ UNCHANGED <<dirent, store>>
      \/ /\ dirent' = [dirent EXCEPT ![f] = n]
         /\ \E file : store' = [store EXCEPT ![n] = file]
  BY DEF Copy
<1>3. SceneInv'
  BY <1>1, <1>2, SceneStays DEF LinkInv
<1>4. ASSUME "remove" \notin failed
      PROVE  NamesInv' /\ StoreInv'
  <2>1. NamesInv /\ StoreInv /\ DOMAIN dirent = LinkFiles /\ scene \in Scenes
    BY <1>4 DEF LinkInv, SceneInv
  <2>2. n = <<"new", f>>
    BY <1>1, <2>1 DEF NamesInv, Named
  <2>3. ASSUME NEW g \in DOMAIN todo' \cap LinkFiles
        PROVE  todo'[g] = 1 /\ dirent'[g] = None
    <3>1. g \in DOMAIN todo /\ todo[g] = 1 /\ dirent[g] = None
      BY <1>1, <2>1, WhatIsLeft DEF NamesInv
    <3>2. g # f /\ todo'[g] = todo[g]
      BY <1>1, <3>1, WhatIsLeft
    <3> HIDE DEF n
    <3> QED
      BY <1>2, <2>1, <3>1, <3>2
  <2>4. NamesInv'
    BY <1>1, <2>3 DEF NamesInv, BeforeSync
  <2>5. ASSUME NEW g \in InLink
        PROVE  scene.link[g] # n
    BY <2>1, <2>2, <2>5 DEF ScenesAssumption, InLink
  <2>6. StoreInv'
    <3> HIDE DEF n
    <3>1. ASSUME NEW g \in InLink
          PROVE  /\ scene.link[g] \in DOMAIN store'
                 /\ store'[scene.link[g]] = store[scene.link[g]]
      BY <1>2, <2>1, <2>5, <3>1 DEF StoreInv
    <3>2. \A g \in InLink : "data" \in DOMAIN store[scene.link[g]]
      BY <2>1 DEF StoreInv
    <3> QED
      BY <1>1, <2>1, <3>1, <3>2, StoreKept
  <2> QED
    BY <2>4, <2>6
<1> QED
  BY <1>1, <1>3, <1>4 DEF LinkInv

LEMMA MetadataStep ==
    ASSUME ScenesAssumption, LinkInv, NEW f \in LinkFiles,
           SetMetadata(f) \/ SetLinkMetadata(f) \/ Refresh(f)
    PROVE  LinkInv'
<1>1. /\ step \in {"metadata", "linkmetadata", "refresh"}
      /\ UNCHANGED <<scene, step, comparison, dirent>>
      /\ failed \subseteq failed'
  BY FailsAdds DEF SetMetadata, SetLinkMetadata, Refresh, Rest
<1>2. SceneInv' /\ NamesInv'
  BY <1>1, SceneStays DEF LinkInv, NamesInv, BeforeSync
<1>3. StoreInv => StoreInv'
  BY <1>1, MetadataKeepsData, StoreKept DEF StoreInv
<1> QED
  BY <1>1, <1>2, <1>3 DEF LinkInv

LEMMA HardlinkStep ==
    ASSUME ScenesAssumption, LinkInv, NEW f \in LinkFiles, Hardlink(f)
    PROVE  LinkInv'
<1>1. /\ step = "link" /\ UNCHANGED <<scene, step, comparison, store>>
      /\ DOMAIN dirent' = DOMAIN dirent
      /\ failed \subseteq failed'
  BY FailsAdds DEF Hardlink, Rest
<1> QED
  BY <1>1, SceneStays, StoreUnchanged DEF LinkInv, NamesInv, BeforeSync

LEMMA NextPhaseStep ==
    ASSUME ScenesAssumption, LinkInv, NextPhase
    PROVE  LinkInv'
<1>1. /\ step \notin BeforeSync \cup {"compare"} /\ step' \notin BeforeSync \cup {"compare", "unlink"}
      /\ step' = "copy" => step = "unlink" /\ todo' = SetToBag(copies)
      /\ todo = EmptyBag /\ UNCHANGED <<scene, dirent, store, comparison, failed>>
  BY DEF NextPhase, Goto, BeforeSync
<1>2. SceneInv'
  BY <1>1 DEF LinkInv, SceneInv
<1>3. ASSUME NamesInv
      PROVE  NamesInv'
  <2>1. ASSUME step' = "copy", NEW f \in DOMAIN todo' \cap LinkFiles
        PROVE  todo'[f] = 1 /\ dirent'[f] = None
    <3>1. f \in copies \cap LinkFiles /\ todo'[f] = 1
      BY <1>1, <2>1 DEF SetToBag
    <3>2. ~Waits(f, todo)
      BY <1>1 DEF Waits, EmptyBag, SetToBag
    <3> QED
      BY <1>1, <1>3, <2>1, <3>1, <3>2 DEF NamesInv
  <2> QED
    BY <1>1, <2>1 DEF NamesInv, BeforeSync
<1> QED
  BY <1>1, <1>2, <1>3, StoreUnchanged DEF LinkInv

-----------------------------------------------------------------------------

LEMMA LinkInvStep ==
    ASSUME ScenesAssumption, LinkInv, [LinkNext]_linkVars
    PROVE  LinkInv'
<1>1. CASE UNCHANGED linkVars
  BY <1>1, StoreUnchanged
     DEF linkVars, LinkInv, SceneInv, NamesInv
<1>2. CASE LinkNext
  BY <1>2, CompareStep, CompareLinkStep, DivideStep, SyncStep, NextPhaseStep, UnlinkStep,
     CopyStep, MetadataStep, HardlinkStep DEF LinkNext
<1> QED
  BY <1>1, <1>2

\* Whatever the trees and the options, as long as no removal has failed: dsync
\* --link-dest writes no data into a file of the third tree, though the destination
\* may share it (dsync_strmap_compare, dsync_sync_files).
THEOREM ThirdTreeKept == ASSUME ScenesAssumption PROVE LinkSpec => []LinkDestKept
<1>1. LinkInit => LinkInv
  BY LinkInvInit
<1>2. LinkInv /\ [LinkNext]_linkVars => LinkInv'
  BY LinkInvStep
<1>3. LinkInv => LinkDestKept
  BY DEF LinkInv, StoreInv, LinkDestKept
<1> QED
  BY <1>1, <1>2, <1>3, PTL DEF LinkSpec

-----------------------------------------------------------------------------
(* What a run that reports success has done                                  *)

New(f) == <<"new", f>>
Divided == {"sync", "unlink", "copy", "metadata", "link", "linkmetadata", "refresh", "end"}
Copied == {"metadata", "link", "linkmetadata", "refresh", "end"}
HasLinks == {"linkmetadata", "refresh", "end"}

\* A run that may still report success, and in which a removal that failed does not
\* make one file's copy write another file.
Succeeds == rc = 0 /\ ("remove" \in failed => InodesApart)

\* What a comparison has shown of a file that it found the same.
LikeSource(f, file) == Source(f).data = file.data \/ LooksDone(f, file)

\* The lists of the two comparisons and of the division.
ComparedInv ==
    /\ step # "compare" =>
          /\ alike \subseteq InSrc \cap InDst
          /\ \A f \in alike : LikeSource(f, Walked(f))
    /\ step \notin {"compare", "comparelink"} =>
          /\ linkalike \subseteq InSrc \cap InLink
          /\ \A f \in linkalike : LikeSource(f, LinkWalked(f))
    /\ step \in {"comparelink", "lists"} =>
          /\ copies = InSrc \ alike
          /\ DOMAIN unlinks = copies \cap InDst
    /\ step \in Divided => copies = InSrc \ (alike \cup linkalike)

\* Some file is to be linked twice, which the second time must fail.
Doomed == \E f \in DOMAIN hardlinks : hardlinks[f] > 1

\* What is removed is copied or linked, unless it is to go, or another file is linked
\* twice.
ListsInv ==
    step \in Divided =>
        /\ DOMAIN hardlinks \subseteq linkalike /\ linkalike \ alike \subseteq DOMAIN hardlinks
        /\ \A f \in DOMAIN hardlinks : hardlinks[f] \in Nat \ {0}
        /\ \A f \in DOMAIN unlinks : \/ f \in copies \cup DOMAIN hardlinks
                                     \/ scene.delete /\ f \notin InSrc
                                     \/ Doomed

\* Nothing is written before the removal.
UntouchedInv ==
    /\ step \in BeforeSync \cup {"compare"} => dirent = scene.dst
    /\ step \in BeforeSync \cup {"compare", "unlink"} => store = scene.store
    /\ DOMAIN store = DOMAIN scene.store
    /\ verdict = "success" => step = "end" /\ rc = 0

Stored(i, data) == i \in DOMAIN store /\ "data" \in DOMAIN store[i] /\ store[i].data = data
IsCopied(f) == Named(f) /\ Stored(dirent[f], Source(f).data)
IsLinked(f) == dirent[f] = scene.link[f]
AsFound(f) == dirent[f] = scene.dst[f] \/ (dirent[f] = None /\ f \in DOMAIN unlinks)

\* The removal takes names away and nothing else.
UnlinkInv ==
    step = "unlink" => /\ DOMAIN todo \subseteq DOMAIN unlinks
                       /\ \A f \in LinkFiles : AsFound(f)

\* The copy gives a file its old inode or a new one.
CopyInv ==
    step = "copy" =>
        /\ \A f \in DOMAIN todo : f \in copies /\ todo[f] = 1
        /\ \A f \in copies : /\ AsFound(f) \/ dirent[f] = New(f)
                             /\ f \in DOMAIN todo \/ IsCopied(f)

\* What is neither copied nor linked has the name, and what was the same the data,
\* that it had.
KeptInv ==
    step \in Copied \cup {"copy"} =>
        /\ \A f \in LinkFiles \ (copies \cup DOMAIN hardlinks) : AsFound(f)
        /\ \A f \in alike : Stored(scene.dst[f], Walked(f).data)
        /\ \A f \in linkalike : Stored(scene.link[f], LinkWalked(f).data)

\* A file is linked the first time only.
LinkedInv ==
    /\ step \in Copied => \A f \in copies : IsCopied(f)
    /\ step = "link" =>
          /\ \A f \in DOMAIN todo : f \in DOMAIN hardlinks /\ todo[f] \in Nat \ {0}
          /\ \A f \in DOMAIN hardlinks :
                \/ f \in DOMAIN todo /\ (IsLinked(f) \/ todo[f] = hardlinks[f])
                \/ f \notin DOMAIN todo /\ IsLinked(f) /\ hardlinks[f] = 1
    /\ step \in HasLinks => \A f \in DOMAIN hardlinks : IsLinked(f) /\ hardlinks[f] = 1

SuccessInv ==
    /\ ComparedInv /\ ListsInv /\ UntouchedInv
    /\ Succeeds => UnlinkInv /\ CopyInv /\ KeptInv /\ LinkedInv

\* Inodes that a run makes: they exist, and each is one file's.
LEMMA NewInodes == \A f, g : New(f) # None /\ (f # g => New(f) # New(g))
BY DEF New, None

\* Bags of lists put together.
LEMMA Together ==
    ASSUME NEW B1, NEW B2
    PROVE  /\ DOMAIN (B1 (+) B2) = DOMAIN B1 \cup DOMAIN B2
           /\ \A e \in DOMAIN (B1 (+) B2) :
                 (B1 (+) B2)[e] = (IF e \in DOMAIN B1 THEN B1[e] ELSE 0)
                                      + (IF e \in DOMAIN B2 THEN B2[e] ELSE 0)
BY DEF (+)

LEMMA ListAsBag ==
    ASSUME NEW S
    PROVE  DOMAIN SetToBag(S) = S /\ \A e \in S : SetToBag(S)[e] = 1
BY DEF SetToBag

\* One is taken from a bag.
LEMMA TakenFrom ==
    ASSUME NEW B, NEW g, \A e \in DOMAIN B : B[e] \in Nat \ {0}
    PROVE  /\ DOMAIN (B (-) SetToBag({g})) = {e \in DOMAIN B : e # g \/ B[e] > 1}
           /\ \A e \in DOMAIN B \ {g} : (B (-) SetToBag({g}))[e] = B[e]
           /\ \A e \in DOMAIN (B (-) SetToBag({g})) : (B (-) SetToBag({g}))[e] \in Nat \ {0}
<1> DEFINE C == [e \in DOMAIN B |-> IF e \in DOMAIN SetToBag({g}) THEN B[e] - SetToBag({g})[e]
                                    ELSE B[e]]
<1>1. B (-) SetToBag({g}) = [e \in {d \in DOMAIN C : C[d] > 0} |-> C[e]]
  BY DEF (-)
<1>2. \A e \in DOMAIN B : C[e] = IF e = g THEN B[e] - 1 ELSE B[e]
  BY ListAsBag
<1>3. DOMAIN C = DOMAIN B
  OBVIOUS
<1> HIDE DEF C
<1> DEFINE D == B (-) SetToBag({g})
<1>4. DOMAIN D = {e \in DOMAIN B : C[e] > 0} /\ \A e \in DOMAIN D : D[e] = C[e]
  BY <1>1, <1>3
<1> HIDE DEF D
<1>5. DOMAIN D = {e \in DOMAIN B : e # g \/ B[e] > 1}
  BY <1>2, <1>4
<1>6. \A e \in DOMAIN D : D[e] = (IF e = g THEN B[e] - 1 ELSE B[e]) /\ D[e] \in Nat \ {0}
  BY <1>2, <1>4, <1>5
<1> QED
  BY <1>5, <1>6 DEF D

\* How often a value occurs, at least once.
LEMMA ImagesPositive ==
    ASSUME NEW fs, IsFiniteSet(fs), NEW g
    PROVE  /\ DOMAIN Images(g, fs) = {g[f] : f \in fs}
           /\ \A e \in DOMAIN Images(g, fs) : Images(g, fs)[e] \in Nat \ {0}
<1>1. DOMAIN Images(g, fs) = {g[f] : f \in fs}
  BY DEF Images
<1>2. ASSUME NEW e \in DOMAIN Images(g, fs)
      PROVE  Images(g, fs)[e] \in Nat \ {0}
  <2>1. IsFiniteSet({f \in fs : g[f] = e}) /\ {f \in fs : g[f] = e} # {}
    BY <1>1, FS_Subset
  <2>2. Cardinality({f \in fs : g[f] = e}) # 0
    BY <2>1, FS_EmptySet
  <2>3. Images(g, fs)[e] = Cardinality({f \in fs : g[f] = e})
    BY DEF Images
  <2>4. Images(g, fs)[e] \in Nat
    BY ImagesCount
  <2> QED
    BY <2>2, <2>3, <2>4
<1> QED
  BY <1>1, <1>2

\* A run that may succeed after a step, might before it.
LEMMA SucceededBefore ==
    ASSUME UNCHANGED scene, rc' \in {rc, -1}, failed \subseteq failed', Succeeds'
    PROVE  Succeeds /\ rc' = rc
BY DEF Succeeds, InodesApart

-----------------------------------------------------------------------------
(* The lists                                                                 *)

LEMMA SuccessInit ==
    ASSUME ScenesAssumption, LinkInit
    PROVE  SuccessInv
BY DEF LinkInit, SuccessInv, ComparedInv, ListsInv, UntouchedInv, UnlinkInv, CopyInv, KeptInv,
       LinkedInv, BeforeSync, Divided, Copied, HasLinks

LEMMA SameIsLike ==
    ASSUME NEW f, NEW file, SizeOf(Source(f)) = SizeOf(file), Same(f, file)
    PROVE  LikeSource(f, file)
BY DEF SizeOf, Same, LikeSource, LooksDone

LEMMA SuccessCompare ==
    ASSUME SuccessInv, Compare
    PROVE  SuccessInv'
<1>1. /\ step = "compare" /\ step' = "comparelink"
      /\ UNCHANGED <<scene, dirent, store, linkalike, hardlinks, todo, verdict>>
  BY DEF Compare
<1> DEFINE common == InSrc \cap InDst
           sized == {f \in common : SizeOf(Source(f)) = SizeOf(Walked(f))}
<1>2. PICK unread \in SUBSET sized :
         LET differ == (common \ sized) \cup unread
                           \cup {f \in sized : ~Same(f, Walked(f))}
         IN  /\ copies' = (InSrc \ InDst) \cup differ
             /\ unlinks' = ToRemove(differ)
             /\ alike' = common \ differ
  BY DEF Compare
<1> DEFINE differ == (common \ sized) \cup unread
                         \cup {f \in sized : ~Same(f, Walked(f))}
<1>3. /\ copies' = (InSrc \ InDst) \cup differ /\ unlinks' = SetToBag(differ)
      /\ alike' = common \ differ
  BY <1>2 DEF ToRemove
<1>4. \A f \in alike' : f \in sized /\ Same(f, Walked(f))
  BY <1>3
<1>5. \A f \in alike' : LikeSource(f, Walked(f))
  BY <1>4, SameIsLike
<1>6. differ \subseteq common
  OBVIOUS
<1> HIDE DEF differ, sized
<1>7. DOMAIN unlinks' = differ
  BY <1>3, ListAsBag
<1>8. ComparedInv'
  <2>1. \A f \in alike' : LikeSource(f, Walked(f))'
    BY <1>1, <1>5 DEF LikeSource, LooksDone, Source, Walked
  <2>2. InSrc' = InSrc /\ InDst' = InDst
    BY <1>1 DEF InSrc, InDst
  <2> QED
    BY <1>1, <1>3, <1>6, <1>7, <2>1, <2>2 DEF ComparedInv, Divided
<1>9. ListsInv' /\ UntouchedInv' /\ UnlinkInv' /\ CopyInv' /\ KeptInv' /\ LinkedInv'
  BY <1>1 DEF SuccessInv, ListsInv, UntouchedInv, UnlinkInv, CopyInv, KeptInv, LinkedInv,
              BeforeSync, Divided, Copied, HasLinks
<1> QED
  BY <1>8, <1>9 DEF SuccessInv

LEMMA SuccessCompareLink ==
    ASSUME SuccessInv, CompareLink
    PROVE  SuccessInv'
<1>1. /\ step = "comparelink" /\ step' = "lists"
      /\ UNCHANGED <<scene, dirent, store, copies, unlinks, alike, hardlinks, todo, verdict>>
  BY DEF CompareLink
<1>2. \A f \in linkalike' : /\ f \in InSrc \cap InLink
                            /\ SizeOf(Source(f)) = SizeOf(LinkWalked(f))
                            /\ Same(f, LinkWalked(f))
  BY DEF CompareLink, LinkSame
<1>3. \A f \in linkalike' : f \in InSrc \cap InLink /\ LikeSource(f, LinkWalked(f))
  BY <1>2, SameIsLike
<1>4. ComparedInv'
  <2>1. \A f \in linkalike' : LikeSource(f, LinkWalked(f))'
    BY <1>1, <1>3 DEF LikeSource, LooksDone, Source, LinkWalked
  <2>2. \A f \in alike' : LikeSource(f, Walked(f))'
    BY <1>1 DEF SuccessInv, ComparedInv, LikeSource, LooksDone, Source, Walked
  <2>3. InSrc' = InSrc /\ InDst' = InDst /\ InLink' = InLink
    BY <1>1 DEF InSrc, InDst, InLink
  <2> QED
    BY <1>1, <1>3, <2>1, <2>2, <2>3 DEF SuccessInv, ComparedInv, Divided
<1>5. ListsInv' /\ UntouchedInv' /\ UnlinkInv' /\ CopyInv' /\ KeptInv' /\ LinkedInv'
  BY <1>1 DEF SuccessInv, ListsInv, UntouchedInv, UnlinkInv, CopyInv, KeptInv, LinkedInv,
              BeforeSync, Divided, Copied, HasLinks
<1> QED
  BY <1>4, <1>5 DEF SuccessInv

LEMMA SuccessDivide ==
    ASSUME ScenesAssumption, LinkInv, SuccessInv, Divide
    PROVE  SuccessInv'
<1>1. /\ step = "lists" /\ step' = "sync"
      /\ UNCHANGED <<scene, dirent, store, alike, linkalike, refresh, todo, rc, verdict, failed>>
  BY DEF Divide
<1> DEFINE k == scene.key
           found == {f \in alike : k[f] \in linkalike}
<1>2. PICK index \in [alike -> LinkFiles \cup {NoFile}] :
         LET linked(f) == index[f] \in InDst /\ scene.dst[index[f]] = scene.link[k[f]]
             replaced == {f \in found : ~linked(f)}
         IN  /\ \A f \in alike :
                   IF f \notin found THEN index[f] = NoFile
                   ELSE IF k[f] \in InDst THEN index[f] = k[f]
                   ELSE index[f] \in InDst \cup {NoFile}
             /\ copies' = copies \ linkalike
             /\ hardlinks' = SetToBag(copies \cap linkalike)
                                 (+) Images(k, replaced)
             /\ unlinks' = unlinks (+) Images(index, {f \in replaced : index[f] # NoFile})
  BY Zenon DEF Divide
<1> DEFINE linked(f) == index[f] \in InDst /\ scene.dst[index[f]] = scene.link[k[f]]
           replaced == {f \in found : ~linked(f)}
           removed == {f \in replaced : index[f] # NoFile}
<1>3. /\ copies' = copies \ linkalike
      /\ hardlinks' = SetToBag(copies \cap linkalike) (+) Images(k, replaced)
      /\ unlinks' = unlinks (+) Images(index, removed)
      /\ removed \subseteq replaced /\ replaced \subseteq alike
      /\ \A f \in replaced : k[f] \in linkalike /\ (k[f] \in InDst => index[f] = k[f])
  BY <1>2
<1>4. IsFiniteSet(replaced) /\ IsFiniteSet(removed)
  <2>1. IsFiniteSet(alike)
    BY <1>1, FS_Subset DEF ScenesAssumption, LinkInv, SceneInv, BeforeSync
  <2> QED
    BY <1>3, <2>1, FS_Subset
<1> HIDE DEF k, found, linked, replaced, removed
<1>5. /\ alike \subseteq InSrc \cap InDst /\ linkalike \subseteq InSrc \cap InLink
      /\ copies = InSrc \ alike /\ DOMAIN unlinks = copies \cap InDst
  BY <1>1 DEF SuccessInv, ComparedInv
<1>6. ComparedInv'
  <2>1. copies' = InSrc \ (alike \cup linkalike)
    BY <1>3, <1>5
  <2>2. /\ InSrc' = InSrc /\ InDst' = InDst /\ InLink' = InLink
        /\ \A f \in alike : LikeSource(f, Walked(f))'
        /\ \A f \in linkalike : LikeSource(f, LinkWalked(f))'
    BY <1>1 DEF SuccessInv, ComparedInv, InSrc, InDst, InLink, LikeSource, LooksDone, Source,
                Walked, LinkWalked
  <2> QED
    BY <1>1, <1>5, <2>1, <2>2 DEF ComparedInv
<1> DEFINE L == SetToBag(copies \cap linkalike)
           R == Images(k, replaced)
<1>7. /\ DOMAIN L = copies \cap linkalike /\ \A e \in DOMAIN L : L[e] = 1
      /\ DOMAIN R = {k[f] : f \in replaced} /\ \A e \in DOMAIN R : R[e] \in Nat \ {0}
  <2>1. DOMAIN L = copies \cap linkalike /\ \A e \in DOMAIN L : L[e] = 1
    BY ListAsBag
  <2>2. DOMAIN R = {k[f] : f \in replaced} /\ \A e \in DOMAIN R : R[e] \in Nat \ {0}
    BY <1>4, ImagesPositive
  <2> QED
    BY <2>1, <2>2
<1>8. hardlinks' = L (+) R
  BY <1>3
<1> HIDE DEF L, R
<1>9. /\ DOMAIN hardlinks' = DOMAIN L \cup DOMAIN R
      /\ \A e \in DOMAIN hardlinks' : hardlinks'[e] = (IF e \in DOMAIN L THEN L[e] ELSE 0)
                                                          + (IF e \in DOMAIN R THEN R[e] ELSE 0)
  <2> DEFINE S == L (+) R
  <2>1. /\ DOMAIN S = DOMAIN L \cup DOMAIN R
        /\ \A e \in DOMAIN S : S[e] = (IF e \in DOMAIN L THEN L[e] ELSE 0)
                                          + (IF e \in DOMAIN R THEN R[e] ELSE 0)
    BY Together
  <2> HIDE DEF S
  <2>2. hardlinks' = S
    BY <1>8 DEF S
  <2> QED
    BY <2>1, <2>2
<1>10. DOMAIN hardlinks' \subseteq linkalike /\ linkalike \ alike \subseteq DOMAIN hardlinks'
  <2>1. DOMAIN R \subseteq linkalike
    BY <1>3, <1>7
  <2>2. DOMAIN hardlinks' \subseteq linkalike
    BY <1>7, <1>9, <2>1
  <2>3. linkalike \ alike \subseteq DOMAIN L
    BY <1>5, <1>7
  <2> QED
    BY <1>9, <2>2, <2>3
<1>11. \A e \in DOMAIN hardlinks' : hardlinks'[e] \in Nat \ {0}
  BY <1>7, <1>9
<1>12. ASSUME NEW f \in DOMAIN unlinks'
       PROVE  f \in copies' \cup DOMAIN hardlinks' \/ Doomed'
  <2>1. f \in DOMAIN unlinks \/ \E h \in removed : f = index[h]
    <3>1. DOMAIN unlinks' = DOMAIN unlinks \cup DOMAIN Images(index, removed)
      BY <1>3, Together
    <3>2. DOMAIN Images(index, removed) = {index[h] : h \in removed}
      BY DEF Images
    <3> QED
      BY <1>12, <3>1, <3>2
  <2>2. CASE f \in DOMAIN unlinks
    BY <1>3, <1>5, <1>7, <1>9, <2>2
  <2>3. CASE \E h \in removed : f = index[h]
    <3>1. PICK h \in removed : f = index[h]
      BY <2>3
    <3>2. k[h] \in DOMAIN R
      BY <1>3, <1>7
    <3>3. CASE k[h] \in InDst
      BY <1>3, <1>9, <3>1, <3>2, <3>3
    <3>4. CASE k[h] \notin InDst
      <4>1. k[h] \in DOMAIN L
        BY <1>3, <1>5, <1>7, <3>4
      <4>2. hardlinks'[k[h]] = 1 + R[k[h]] /\ R[k[h]] \in Nat \ {0}
        BY <1>7, <1>9, <3>2, <4>1
      <4>3. k[h] \in DOMAIN hardlinks' /\ hardlinks'[k[h]] > 1
        BY <1>9, <3>2, <4>2
      <4> QED
        BY <4>3 DEF Doomed
    <3> QED
      BY <3>3, <3>4
  <2> QED
    BY <2>1, <2>2, <2>3
<1>13. ListsInv'
  BY <1>1, <1>10, <1>11, <1>12 DEF ListsInv
<1>14. UntouchedInv' /\ UnlinkInv' /\ CopyInv' /\ KeptInv' /\ LinkedInv'
  BY <1>1 DEF SuccessInv, UntouchedInv, UnlinkInv, CopyInv, KeptInv, LinkedInv, BeforeSync,
              Copied, HasLinks
<1> QED
  BY <1>6, <1>13, <1>14 DEF SuccessInv

\* What was compared stays so while the lists do.
LEMMA ComparedStays ==
    ASSUME ComparedInv, UNCHANGED <<scene, copies, alike, linkalike>>, step \in Divided,
           step' \in Divided
    PROVE  ComparedInv'
BY DEF ComparedInv, Divided, InSrc, InDst, InLink, LikeSource, LooksDone, Source, Walked,
       LinkWalked

LEMMA ListsStay ==
    ASSUME ListsInv, UNCHANGED <<scene, comparison>>, step \in Divided
    PROVE  ListsInv'
BY DEF ListsInv, Doomed, InSrc, comparison

LEMMA SuccessSync ==
    ASSUME SuccessInv, Sync
    PROVE  SuccessInv'
<1>1. /\ step = "sync" /\ step' \in {"unlink", "refresh"}
      /\ UNCHANGED <<scene, dirent, store, copies, alike, linkalike, hardlinks, verdict>>
  BY DEF Sync
<1>2. ComparedInv'
  BY <1>1, ComparedStays DEF SuccessInv, Divided
<1>3. UntouchedInv'
  BY <1>1 DEF SuccessInv, UntouchedInv, BeforeSync
<1>4. CASE rc' = -1 /\ UNCHANGED unlinks
  <2>1. ListsInv'
    BY <1>1, <1>4 DEF SuccessInv, ListsInv, Doomed, Divided, InSrc
  <2> QED
    BY <1>2, <1>3, <1>4, <2>1 DEF SuccessInv, Succeeds
<1>5. CASE /\ step' = "unlink" /\ todo' = unlinks'
           /\ unlinks' = unlinks (+) SetToBag(IF scene.delete THEN InDst \ InSrc ELSE {})
  <2>1. DOMAIN unlinks' = DOMAIN unlinks \cup (IF scene.delete THEN InDst \ InSrc ELSE {})
    <3> DEFINE gone == IF scene.delete THEN InDst \ InSrc ELSE {}
    <3>1. unlinks' = unlinks (+) SetToBag(gone)
      BY <1>5
    <3> HIDE DEF gone
    <3>2. DOMAIN unlinks' = DOMAIN unlinks \cup gone
      BY <3>1, Together, ListAsBag
    <3> QED
      BY <3>2 DEF gone
  <2>2. InSrc' = InSrc /\ (Doomed' <=> Doomed)
    BY <1>1 DEF InSrc, Doomed
  <2>3. ListsInv'
    BY <1>1, <2>1, <2>2 DEF SuccessInv, ListsInv, Divided
  <2>4. UnlinkInv'
    BY <1>1, <1>5 DEF SuccessInv, UntouchedInv, BeforeSync, UnlinkInv, AsFound
  <2>5. CopyInv' /\ KeptInv' /\ LinkedInv'
    BY <1>5 DEF CopyInv, KeptInv, LinkedInv, Copied, HasLinks
  <2> QED
    BY <1>2, <1>3, <2>3, <2>4, <2>5 DEF SuccessInv
<1> QED
  BY <1>4, <1>5 DEF Sync

-----------------------------------------------------------------------------
(* The phases                                                                *)

\* What a file of a phase leaves alone, whatever it is.
LEMMA RestStays ==
    ASSUME SuccessInv, UNCHANGED <<scene, step, comparison, verdict>>, step \in Divided \ {"end"},
           DOMAIN store' = DOMAIN store,
           step # "unlink" \/ UNCHANGED store,
           step # "sync"
    PROVE  ComparedInv' /\ ListsInv' /\ UntouchedInv'
<1>1. ComparedInv' /\ ListsInv'
  BY ComparedStays, ListsStay DEF SuccessInv, comparison
<1>2. UntouchedInv'
  BY DEF SuccessInv, UntouchedInv, BeforeSync, Divided
<1> QED
  BY <1>1, <1>2

LEMMA SuccessUnlink ==
    ASSUME LinkInv, SuccessInv, NEW f \in LinkFiles, Unlink(f)
    PROVE  SuccessInv'
<1>1. /\ step = "unlink" /\ f \in DOMAIN todo /\ todo' = todo (-) SetToBag({f})
      /\ UNCHANGED <<scene, step, comparison, verdict, store, rc>>
      /\ failed \subseteq failed'
      /\ dirent' = [dirent EXCEPT ![f] = None] \/ UNCHANGED dirent
  BY FailsAdds DEF Unlink, Took, Rest, BagIn, BagToSet
<1>2. ComparedInv' /\ ListsInv' /\ UntouchedInv'
  BY <1>1, RestStays DEF Divided
<1>3. ASSUME Succeeds'
      PROVE  UnlinkInv' /\ CopyInv' /\ KeptInv' /\ LinkedInv'
  <2>1. UnlinkInv
    BY <1>1, <1>3, SucceededBefore DEF SuccessInv
  <2>2. DOMAIN todo' \subseteq DOMAIN todo
    BY <1>1, WhatIsLeft
  <2>3. ASSUME NEW g \in LinkFiles
        PROVE  AsFound(g)'
    <3>1. dirent'[g] = dirent[g] \/ (g = f /\ dirent'[g] = None)
      BY <1>1 DEF LinkInv, SceneInv
    <3> QED
      BY <1>1, <2>1, <3>1 DEF UnlinkInv, AsFound, comparison
  <2>4. UnlinkInv'
    BY <1>1, <2>1, <2>2, <2>3 DEF UnlinkInv, comparison
  <2>5. CopyInv' /\ KeptInv' /\ LinkedInv'
    BY <1>1 DEF CopyInv, KeptInv, LinkedInv, Copied, HasLinks
  <2> QED
    BY <2>4, <2>5
<1> QED
  BY <1>2, <1>3 DEF SuccessInv

\* A copy writes one inode: the file's old one, when its removal failed, or a new
\* one.  It is no inode of another file.
LEMMA CopiedTo ==
    ASSUME ScenesAssumption, LinkInv, SuccessInv, Succeeds, step = "copy",
           NEW f \in DOMAIN todo \cap LinkFiles,
           NEW n, n = IF Named(f) THEN dirent[f] ELSE New(f)
    PROVE  /\ n = New(f) \/ (n = scene.dst[f] /\ InodesApart)
           /\ n \in DOMAIN store /\ n # None
           /\ \A g \in LinkFiles \ {f} : n \notin {scene.dst[g], scene.link[g], New(g)}
<1>1. f \in copies /\ (AsFound(f) \/ dirent[f] = New(f)) /\ scene \in Scenes
  BY DEF SuccessInv, CopyInv, LinkInv, SceneInv
<1>2. ~Named(f) \/ InodesApart
  BY DEF LinkInv, NamesInv, Succeeds, Named
<1>3. n = New(f) \/ (n = scene.dst[f] /\ n # None /\ InodesApart)
  BY <1>1, <1>2 DEF AsFound, Named
<1>4. n \in DOMAIN store
  BY <1>1, <1>3 DEF ScenesAssumption, SuccessInv, UntouchedInv, New
<1>5. ASSUME NEW g \in LinkFiles \ {f}
      PROVE  n \notin {scene.dst[g], scene.link[g], New(g)}
  <2>1. CASE n = New(f)
    <3>1. scene.dst[g] # n /\ scene.link[g] # n
      BY <1>1, <2>1, NewInodes DEF ScenesAssumption, New
    <3> QED
      BY <2>1, <3>1, NewInodes
  <2>2. CASE n = scene.dst[f] /\ n # None /\ InodesApart
    <3>1. n # New(g)
      BY <1>1, <2>2 DEF ScenesAssumption, New
    <3> QED
      BY <2>2, <3>1 DEF InodesApart
  <2> QED
    BY <1>3, <2>1, <2>2
<1> QED
  BY <1>3, <1>4, <1>5, NewInodes

\* The data that a copy leaves (mfu_copy_file).
LEMMA FilledData ==
    ASSUME NEW r, "data" \in DOMAIN r, NEW d, NEW m, NEW p
    PROVE  LET t == [r EXCEPT !.data = d, !.mtime = m, !.perm = p]
           IN  "data" \in DOMAIN t /\ t.data = d
OBVIOUS

LEMMA SuccessCopy ==
    ASSUME ScenesAssumption, LinkInv, SuccessInv, NEW f \in LinkFiles, Copy(f)
    PROVE  SuccessInv'
<1>1. /\ step = "copy" /\ f \in DOMAIN todo /\ todo' = todo (-) SetToBag({f})
      /\ UNCHANGED <<scene, step, comparison, verdict>>
      /\ failed \subseteq failed' /\ rc' \in {rc, -1}
      /\ DOMAIN store' = DOMAIN store
  BY FailsAdds DEF Copy, Took, Rest, BagIn, BagToSet
<1>2. ComparedInv' /\ ListsInv' /\ UntouchedInv'
  BY <1>1, RestStays DEF Divided
<1>3. ASSUME Succeeds'
      PROVE  UnlinkInv' /\ CopyInv' /\ KeptInv' /\ LinkedInv'
  <2>1. Succeeds /\ rc' = rc /\ rc = 0
    BY <1>1, <1>3, SucceededBefore DEF Succeeds
  <2>2. CopyInv /\ KeptInv /\ ComparedInv
    BY <2>1 DEF SuccessInv
  <2>3. PICK n : n = IF Named(f) THEN dirent[f] ELSE New(f)
    OBVIOUS
  <2>4. PICK file : /\ dirent' = [dirent EXCEPT ![f] = n]
                    /\ store' = [store EXCEPT ![n] = file]
                    /\ "data" \in DOMAIN Source(f) =>
                          "data" \in DOMAIN file /\ file.data = Source(f).data
    <3> DEFINE file == [Source(f) EXCEPT !.data = Source(f).data, !.mtime = Now,
                            !.perm = IF Named(f) THEN store[n].perm ELSE 0]
    <3>1. dirent' = [dirent EXCEPT ![f] = n] /\ store' = [store EXCEPT ![n] = file]
      BY <2>1, <2>3 DEF Copy, New
    <3>2. "data" \in DOMAIN Source(f) => "data" \in DOMAIN file /\ file.data = Source(f).data
      BY FilledData
    <3> HIDE DEF file
    <3> QED
      BY <3>1, <3>2
  <2>5. /\ n = New(f) \/ (n = scene.dst[f] /\ InodesApart)
        /\ n \in DOMAIN store /\ n # None
        /\ \A g \in LinkFiles \ {f} : n \notin {scene.dst[g], scene.link[g], New(g)}
    BY <1>1, <2>1, <2>3, CopiedTo
  <2>6. /\ f \in copies /\ copies = InSrc \ (alike \cup linkalike)
        /\ alike \subseteq LinkFiles /\ linkalike \subseteq LinkFiles
        /\ copies \subseteq LinkFiles /\ DOMAIN dirent = LinkFiles
        /\ "data" \in DOMAIN Source(f) /\ DOMAIN hardlinks \subseteq linkalike
    BY <1>1, <2>2 DEF CopyInv, ComparedInv, InSrc, InDst, InLink, ScenesAssumption, LinkInv,
                      SceneInv, Divided, SuccessInv, ListsInv, Source
  <2>7. /\ dirent'[f] = n /\ n \in DOMAIN store' /\ store'[n] = file
        /\ "data" \in DOMAIN file /\ file.data = Source(f).data
        /\ \A g \in LinkFiles \ {f} : dirent'[g] = dirent[g]
        /\ \A i \in DOMAIN store \ {n} : i \in DOMAIN store' /\ store'[i] = store[i]
    BY <2>4, <2>5, <2>6
  <2>8. \A e \in DOMAIN todo : todo[e] = 1
    BY <1>1, <2>2 DEF CopyInv
  <2>9. /\ DOMAIN todo' = DOMAIN todo \ {f}
        /\ \A e \in DOMAIN todo' : todo'[e] = todo[e]
    <3>1. \A e \in DOMAIN todo : todo[e] \in Nat \ {0}
      BY <2>8
    <3>2. /\ DOMAIN todo' = {e \in DOMAIN todo : e # f \/ todo[e] > 1}
          /\ \A e \in DOMAIN todo \ {f} : todo'[e] = todo[e]
      BY <1>1, <3>1, TakenFrom
    <3> QED
      BY <2>8, <3>2
  <2>10. UnlinkInv' /\ LinkedInv'
    BY <1>1 DEF UnlinkInv, LinkedInv, Copied, HasLinks
  <2>11. CopyInv'
    <3>1. ASSUME NEW e \in DOMAIN todo' PROVE e \in copies /\ todo'[e] = 1
      BY <1>1, <2>2, <2>8, <2>9 DEF CopyInv
    <3>2. (AsFound(f) \/ dirent[f] = New(f))' /\ IsCopied(f)'
      <4>1. (AsFound(f) \/ dirent[f] = New(f))'
        BY <1>1, <2>5, <2>7 DEF AsFound, comparison
      <4>2. IsCopied(f)'
        BY <1>1, <2>5, <2>7 DEF IsCopied, Named, Stored, Source
      <4> QED
        BY <4>1, <4>2
    <3>3. ASSUME NEW g \in copies \ {f}
          PROVE  (AsFound(g) \/ dirent[g] = New(g))' /\ (g \in DOMAIN todo' \/ IsCopied(g)')
      <4>1. g \in DOMAIN todo \/ IsCopied(g)
        BY <1>1, <2>2 DEF CopyInv
      <4>2. dirent'[g] = dirent[g] /\ g \in LinkFiles
        BY <2>6, <2>7
      <4>3. (AsFound(g) \/ dirent[g] = New(g))'
        BY <1>1, <2>2, <4>2 DEF CopyInv, AsFound, comparison
      <4>4. dirent[g] # n
        BY <1>1, <2>2, <2>5, <4>2 DEF CopyInv, AsFound
      <4>5. IsCopied(g) => IsCopied(g)'
        BY <1>1, <2>7, <4>2, <4>4 DEF IsCopied, Named, Stored, Source
      <4> QED
        BY <2>9, <4>1, <4>3, <4>5
    <3> QED
      BY <1>1, <3>1, <3>2, <3>3 DEF CopyInv, comparison
  <2>12. KeptInv'
    <3>1. ASSUME NEW g \in LinkFiles \ (copies \cup DOMAIN hardlinks)
          PROVE  AsFound(g)'
      <4>1. AsFound(g) /\ g # f
        BY <1>1, <2>2, <2>6 DEF KeptInv
      <4> QED
        BY <1>1, <2>7, <4>1 DEF AsFound, comparison
    <3>2. ASSUME NEW g \in alike
          PROVE  Stored(scene.dst[g], Walked(g).data)'
      <4>1. Stored(scene.dst[g], Walked(g).data) /\ n # scene.dst[g]
        BY <1>1, <2>2, <2>5, <2>6 DEF KeptInv
      <4> QED
        BY <1>1, <2>7, <4>1 DEF Stored, Walked
    <3>3. ASSUME NEW g \in linkalike
          PROVE  Stored(scene.link[g], LinkWalked(g).data)'
      <4>1. Stored(scene.link[g], LinkWalked(g).data) /\ n # scene.link[g]
        BY <1>1, <2>2, <2>5, <2>6 DEF KeptInv
      <4> QED
        BY <1>1, <2>7, <4>1 DEF Stored, LinkWalked
    <3> QED
      BY <1>1, <3>1, <3>2, <3>3 DEF KeptInv, comparison
  <2> QED
    BY <2>10, <2>11, <2>12
<1> QED
  BY <1>2, <1>3 DEF SuccessInv

LEMMA SuccessMetadata ==
    ASSUME SuccessInv, NEW f \in LinkFiles, SetMetadata(f) \/ SetLinkMetadata(f) \/ Refresh(f)
    PROVE  SuccessInv'
<1>1. /\ step \in {"metadata", "linkmetadata", "refresh"}
      /\ UNCHANGED <<scene, step, comparison, verdict, dirent>>
      /\ failed \subseteq failed' /\ rc' \in {rc, -1}
  BY FailsAdds DEF SetMetadata, SetLinkMetadata, Refresh, Rest
<1>2. /\ DOMAIN store' = DOMAIN store
      /\ \A i \in DOMAIN store : "data" \in DOMAIN store[i] =>
            /\ i \in DOMAIN store' /\ "data" \in DOMAIN store'[i]
            /\ store'[i].data = store[i].data
  BY MetadataKeepsData
<1>3. ComparedInv' /\ ListsInv' /\ UntouchedInv'
  BY <1>1, <1>2, RestStays DEF Divided
<1>4. ASSUME NEW i, NEW d, Stored(i, d)
      PROVE  Stored(i, d)'
  BY <1>2, <1>4 DEF Stored
<1>5. ASSUME Succeeds'
      PROVE  UnlinkInv' /\ CopyInv' /\ KeptInv' /\ LinkedInv'
  <2>1. KeptInv /\ LinkedInv
    BY <1>1, <1>5, SucceededBefore DEF SuccessInv
  <2>2. UnlinkInv' /\ CopyInv'
    BY <1>1 DEF UnlinkInv, CopyInv
  <2>3. \A g : /\ AsFound(g) => AsFound(g)'
               /\ IsLinked(g) => IsLinked(g)'
               /\ IsCopied(g) => IsCopied(g)'
               /\ Stored(scene.dst[g], Walked(g).data) => Stored(scene.dst[g], Walked(g).data)'
               /\ Stored(scene.link[g], LinkWalked(g).data) =>
                      Stored(scene.link[g], LinkWalked(g).data)'
    BY <1>1, <1>4 DEF AsFound, IsLinked, IsCopied, Named, Stored, Walked, LinkWalked, Source,
                      comparison
  <2>4. KeptInv'
    BY <1>1, <2>1, <2>3 DEF KeptInv, comparison
  <2>5. LinkedInv'
    BY <1>1, <2>1, <2>3 DEF LinkedInv, comparison
  <2> QED
    BY <2>2, <2>4, <2>5
<1> QED
  BY <1>3, <1>5 DEF SuccessInv

LEMMA SuccessHardlink ==
    ASSUME ScenesAssumption, LinkInv, SuccessInv, NEW f \in LinkFiles, Hardlink(f)
    PROVE  SuccessInv'
<1>1. /\ step = "link" /\ f \in DOMAIN todo /\ todo' = todo (-) SetToBag({f})
      /\ UNCHANGED <<scene, step, comparison, verdict, store>>
      /\ failed \subseteq failed' /\ rc' \in {rc, -1}
  BY FailsAdds DEF Hardlink, Took, Rest, BagIn, BagToSet
<1>2. ComparedInv' /\ ListsInv' /\ UntouchedInv'
  BY <1>1, RestStays DEF Divided
<1>3. ASSUME Succeeds'
      PROVE  UnlinkInv' /\ CopyInv' /\ KeptInv' /\ LinkedInv'
  <2>1. Succeeds /\ rc' = rc /\ rc = 0
    BY <1>1, <1>3, SucceededBefore DEF Succeeds
  <2>2. KeptInv /\ LinkedInv /\ ComparedInv /\ ListsInv
    BY <2>1 DEF SuccessInv
  <2>3. ~Named(f) /\ dirent' = [dirent EXCEPT ![f] = scene.link[f]]
    BY <2>1 DEF Hardlink
  <2>4. /\ f \in DOMAIN hardlinks /\ DOMAIN hardlinks \subseteq linkalike
        /\ scene.link[f] # None /\ copies \cap linkalike = {} /\ copies \subseteq LinkFiles
    BY <1>1, <2>2 DEF LinkedInv, ListsInv, ComparedInv, Divided, InLink, InSrc, LinkInv, SceneInv,
                      ScenesAssumption
  <2>5. dirent'[f] = scene.link[f] /\ \A g \in LinkFiles \ {f} : dirent'[g] = dirent[g]
    BY <2>3 DEF LinkInv, SceneInv
  <2>6. UnlinkInv' /\ CopyInv'
    BY <1>1 DEF UnlinkInv, CopyInv
  <2>7. KeptInv'
    <3>1. ASSUME NEW g \in LinkFiles \ (copies \cup DOMAIN hardlinks)
          PROVE  AsFound(g)'
      <4>1. AsFound(g)
        BY <1>1, <2>2 DEF KeptInv, Copied
      <4>2. dirent'[g] = dirent[g]
        BY <2>4, <2>5
      <4> QED
        BY <1>1, <4>1, <4>2 DEF AsFound, comparison
    <3>2. ASSUME NEW g
          PROVE  /\ Stored(scene.dst[g], Walked(g).data) => Stored(scene.dst[g], Walked(g).data)'
                 /\ Stored(scene.link[g], LinkWalked(g).data) =>
                        Stored(scene.link[g], LinkWalked(g).data)'
      BY <1>1 DEF Stored, Walked, LinkWalked
    <3> QED
      BY <1>1, <2>2, <3>1, <3>2 DEF KeptInv, comparison
  <2>8. /\ DOMAIN todo' = {e \in DOMAIN todo : e # f \/ todo[e] > 1}
        /\ \A e \in DOMAIN todo \ {f} : todo'[e] = todo[e]
        /\ \A e \in DOMAIN todo' : todo'[e] \in Nat \ {0}
    <3>1. \A e \in DOMAIN todo : todo[e] \in Nat \ {0}
      BY <1>1, <2>2 DEF LinkedInv
    <3> QED
      BY <1>1, <3>1, TakenFrom
  <2>9. \A g \in copies : IsCopied(g)'
    BY <1>1, <2>2, <2>4, <2>5 DEF LinkedInv, Copied, IsCopied, Named, Stored, Source
  <2>10. ASSUME NEW g \in DOMAIN hardlinks
         PROVE  \/ g \in DOMAIN todo' /\ (IsLinked(g)' \/ todo'[g] = hardlinks[g])
                \/ g \notin DOMAIN todo' /\ IsLinked(g)' /\ hardlinks[g] = 1
    <3>1. CASE g = f
      <4>1. todo[f] = hardlinks[f]
        BY <1>1, <2>2, <2>3, <2>4 DEF LinkedInv, IsLinked, Named
      <4>2. IsLinked(f)'
        BY <1>1, <2>5 DEF IsLinked
      <4>3. todo[f] \in Nat \ {0}
        BY <1>1, <2>2 DEF LinkedInv
      <4> QED
        BY <1>1, <2>8, <3>1, <4>1, <4>2, <4>3
    <3>2. CASE g # f
      <4>1. g \in LinkFiles
        BY <2>2, <2>4, <1>1 DEF ComparedInv, InLink
      <4>2. IsLinked(g) => IsLinked(g)'
        BY <1>1, <2>5, <3>2, <4>1 DEF IsLinked
      <4>3. g \in DOMAIN todo' <=> g \in DOMAIN todo
        BY <2>8, <3>2
      <4>4. g \in DOMAIN todo => todo'[g] = todo[g]
        BY <2>8, <3>2
      <4>5. \/ g \in DOMAIN todo /\ (IsLinked(g) \/ todo[g] = hardlinks[g])
            \/ g \notin DOMAIN todo /\ IsLinked(g) /\ hardlinks[g] = 1
        BY <1>1, <2>2 DEF LinkedInv
      <4> QED
        BY <4>2, <4>3, <4>4, <4>5
    <3> QED
      BY <3>1, <3>2
  <2>11. \A e \in DOMAIN todo' : e \in DOMAIN hardlinks /\ todo'[e] \in Nat \ {0}
    BY <1>1, <2>2, <2>8 DEF LinkedInv
  <2>12. LinkedInv'
    BY <1>1, <2>9, <2>10, <2>11 DEF LinkedInv, comparison, HasLinks, Copied
  <2> QED
    BY <2>6, <2>7, <2>12
<1> QED
  BY <1>2, <1>3 DEF SuccessInv

LEMMA SuccessNextPhase ==
    ASSUME ScenesAssumption, LinkInv, SuccessInv, NextPhase
    PROVE  SuccessInv'
<1>1. /\ <<step, step'>> \in {<<"unlink", "copy">>, <<"copy", "metadata">>, <<"metadata", "link">>,
                             <<"link", "linkmetadata">>, <<"linkmetadata", "refresh">>,
                             <<"refresh", "end">>}
      /\ DOMAIN todo = {} /\ UNCHANGED <<scene, dirent, store, comparison, rc, failed>>
      /\ step' = "copy" => todo' = SetToBag(copies)
      /\ step' = "link" => todo' = hardlinks
      /\ step' = "end" => verdict' = IF rc = 0 THEN "success" ELSE "failure"
      /\ step' # "end" => verdict' = verdict
  BY ListAsBag DEF NextPhase, Goto, EmptyBag
<1>2. step \in Divided \ {"sync", "end"} /\ step' \in Divided \ {"sync", "unlink"}
  BY <1>1 DEF Divided
<1>3. ComparedInv' /\ ListsInv'
  BY <1>1, <1>2, ComparedStays, ListsStay DEF SuccessInv, comparison
<1>4. UntouchedInv'
  BY <1>1, <1>2 DEF SuccessInv, UntouchedInv, BeforeSync, Divided
<1>5. ASSUME Succeeds'
      PROVE  UnlinkInv' /\ CopyInv' /\ KeptInv' /\ LinkedInv'
  <2>1. /\ UnlinkInv /\ CopyInv /\ KeptInv /\ LinkedInv
        /\ ComparedInv /\ ListsInv /\ UntouchedInv
    BY <1>1, <1>5, SucceededBefore DEF SuccessInv
  <2>2. \A g : /\ AsFound(g)' <=> AsFound(g)
               /\ IsCopied(g)' <=> IsCopied(g)
               /\ IsLinked(g)' <=> IsLinked(g)
               /\ Stored(scene.dst[g], Walked(g).data)' <=> Stored(scene.dst[g], Walked(g).data)
               /\ Stored(scene.link[g], LinkWalked(g).data)' <=>
                      Stored(scene.link[g], LinkWalked(g).data)
    BY <1>1 DEF AsFound, IsCopied, IsLinked, Named, Stored, Source, Walked, LinkWalked, comparison
  <2>3. UnlinkInv'
    BY <1>2 DEF UnlinkInv
  <2>4. CASE step = "unlink"
    <3>1. step' = "copy" /\ todo' = SetToBag(copies)
      BY <1>1, <2>4
    <3>2. \A g \in LinkFiles : AsFound(g)
      BY <2>1, <2>4 DEF UnlinkInv
    <3>3. /\ copies \subseteq LinkFiles
          /\ alike \subseteq InDst /\ linkalike \subseteq InLink /\ store = scene.store
          /\ scene \in Scenes
      BY <2>1, <2>4 DEF ComparedInv, UntouchedInv, Divided, InSrc, LinkInv, SceneInv,
                        ScenesAssumption
    <3>4. CopyInv'
      BY <1>1, <2>2, <3>1, <3>2, <3>3, ListAsBag DEF CopyInv, comparison
    <3>5. /\ \A g \in alike : Stored(scene.dst[g], Walked(g).data)
          /\ \A g \in linkalike : Stored(scene.link[g], LinkWalked(g).data)
      BY <3>3 DEF ScenesAssumption, InDst, InLink, Stored, Walked, LinkWalked
    <3>6. KeptInv'
      BY <1>1, <2>2, <3>2, <3>5 DEF KeptInv, comparison
    <3>7. LinkedInv'
      BY <3>1 DEF LinkedInv, Copied, HasLinks
    <3> QED
      BY <2>3, <3>4, <3>6, <3>7
  <2>5. CASE step # "unlink"
    <3>1. CopyInv'
      BY <1>1, <2>5 DEF CopyInv
    <3>2. step \in Copied \cup {"copy"}
      BY <1>1, <2>5 DEF Copied
    <3>3. KeptInv'
      BY <1>1, <2>1, <2>2, <3>2 DEF KeptInv, comparison
    <3>4. \A g \in copies : IsCopied(g)
      BY <1>1, <2>1, <2>5 DEF CopyInv, LinkedInv, Copied
    <3>5. step' = "link" => \A e \in DOMAIN hardlinks : hardlinks[e] \in Nat \ {0}
      BY <1>2, <2>1 DEF ListsInv
    <3>6. step' \in HasLinks => \A g \in DOMAIN hardlinks : IsLinked(g) /\ hardlinks[g] = 1
      BY <1>1, <2>1, <2>5 DEF LinkedInv, HasLinks
    <3>7. LinkedInv'
      BY <1>1, <2>2, <3>4, <3>5, <3>6 DEF LinkedInv, comparison
    <3> QED
      BY <2>3, <3>1, <3>3, <3>7
  <2> QED
    BY <2>4, <2>5
<1> QED
  BY <1>3, <1>4, <1>5 DEF SuccessInv

\* A run that ended well, with SuccessInv, has done what it was to do.
LEMMA SuccessMeansLinked ==
    ASSUME ScenesAssumption, SceneInv, SuccessInv, verdict = "success",
           "remove" \in failed => InodesApart
    PROVE  Linked
<1>1. /\ step = "end" /\ ComparedInv /\ ListsInv /\ KeptInv /\ LinkedInv
  BY DEF SuccessInv, UntouchedInv, Succeeds
<1>2. /\ copies = InSrc \ (alike \cup linkalike)
      /\ alike \subseteq InSrc \cap InDst /\ linkalike \subseteq InSrc \cap InLink
      /\ DOMAIN hardlinks \subseteq linkalike /\ linkalike \ alike \subseteq DOMAIN hardlinks
      /\ InSrc \subseteq LinkFiles /\ ~Doomed
      /\ \A f \in DOMAIN unlinks : \/ f \in copies \cup DOMAIN hardlinks
                                   \/ scene.delete /\ f \notin InSrc
  <2>1. ~Doomed
    BY <1>1 DEF LinkedInv, HasLinks, Doomed
  <2> QED
    BY <1>1, <2>1 DEF ComparedInv, ListsInv, Divided, SceneInv, ScenesAssumption, InSrc
<1>3. ASSUME NEW f \in DOMAIN hardlinks
      PROVE  /\ Named(f) /\ dirent[f] = scene.link[f]
             /\ \/ store[dirent[f]].data = Source(f).data
                \/ f \in InLink /\ LooksDone(f, LinkWalked(f))
  <2>1. dirent[f] = scene.link[f] /\ scene.link[f] # None /\ f \in InLink
    BY <1>1, <1>2 DEF LinkedInv, HasLinks, IsLinked, InLink
  <2>2. Stored(scene.link[f], LinkWalked(f).data) /\ LikeSource(f, LinkWalked(f))
    BY <1>1, <1>2 DEF KeptInv, Copied, ComparedInv
  <2> QED
    BY <2>1, <2>2 DEF Named, Stored, LikeSource
<1>4. ASSUME NEW f \in InDst \ (copies \cup DOMAIN hardlinks), f \in InSrc \/ ~scene.delete
      PROVE  Named(f) /\ dirent[f] = scene.dst[f]
  <2>1. AsFound(f)
    BY <1>1, <1>4 DEF KeptInv, Copied, InDst
  <2>2. f \notin DOMAIN unlinks /\ scene.dst[f] # None
    BY <1>2, <1>4 DEF InDst
  <2> QED
    BY <2>1, <2>2 DEF AsFound, Named
<1>5. ASSUME NEW f \in InSrc
      PROVE  /\ Named(f)
             /\ \/ store[dirent[f]].data = Source(f).data
                \/ f \in InDst /\ dirent[f] = scene.dst[f] /\ LooksDone(f, Walked(f))
                \/ f \in InLink /\ dirent[f] = scene.link[f] /\ LooksDone(f, LinkWalked(f))
             /\ f \in linkalike /\ f \notin alike => dirent[f] = scene.link[f]
  <2>1. CASE f \in copies
    BY <1>1, <1>2, <2>1 DEF LinkedInv, Copied, IsCopied, Stored
  <2>2. CASE f \in DOMAIN hardlinks
    BY <1>3, <2>2
  <2>3. CASE f \in alike \ DOMAIN hardlinks
    <3>1. Named(f) /\ dirent[f] = scene.dst[f] /\ f \in InDst
      BY <1>2, <1>4, <2>3
    <3>2. Stored(scene.dst[f], Walked(f).data) /\ LikeSource(f, Walked(f))
      BY <1>1, <2>3 DEF KeptInv, Copied, ComparedInv
    <3> QED
      BY <2>3, <3>1, <3>2 DEF Stored, LikeSource
  <2> QED
    BY <1>2, <2>1, <2>2, <2>3
<1>6. ~scene.delete => \A f \in InDst \ InSrc : Named(f)
  BY <1>2, <1>4
<1> QED
  BY <1>5, <1>6 DEF Linked

-----------------------------------------------------------------------------

\* Whatever the trees, the options, the keys and the failures: a run of dsync
\* --link-dest that reports success has left every file of the source at the
\* destination, linked where the third tree has it, and has taken nothing that was
\* to stay; unless a removal failed while two files of the destination, or one and
\* another file's in the third tree, were the same inode: the copy in place of the
\* first then writes the second (dsync_generate_real_lists, dsync_sync_files).
THEOREM SuccessIsLinked == ASSUME ScenesAssumption PROVE LinkSpec => []Linked
<1>1. LinkInit => LinkInv /\ SuccessInv
  BY LinkInvInit, SuccessInit
<1>2. LinkInv /\ SuccessInv /\ [LinkNext]_linkVars => LinkInv' /\ SuccessInv'
  <2>1. ASSUME SuccessInv, UNCHANGED linkVars
        PROVE  SuccessInv'
    BY <2>1 DEF linkVars, SuccessInv, ComparedInv, ListsInv, UntouchedInv, UnlinkInv, CopyInv, KeptInv,
                LinkedInv, Succeeds, InodesApart, Doomed, AsFound, IsCopied, IsLinked, Named, Stored,
                LikeSource, LooksDone, Source, Walked, LinkWalked, InSrc, InDst, InLink
  <2>2. ASSUME LinkInv, SuccessInv, LinkNext
        PROVE  SuccessInv'
    BY <2>2, SuccessCompare, SuccessCompareLink, SuccessDivide, SuccessSync, SuccessNextPhase,
       SuccessUnlink, SuccessCopy, SuccessMetadata, SuccessHardlink DEF LinkNext
  <2> QED
    BY <2>1, <2>2, LinkInvStep
<1>3. LinkInv /\ SuccessInv => Linked
  <2>1. CASE verdict = "success" /\ ("remove" \in failed => InodesApart)
    BY <2>1, SuccessMeansLinked DEF LinkInv
  <2>2. CASE ~(verdict = "success" /\ ("remove" \in failed => InodesApart))
    BY <2>2 DEF Linked
  <2> QED
    BY <2>1, <2>2
<1> QED
  BY <1>1, <1>2, <1>3, PTL DEF LinkSpec

-----------------------------------------------------------------------------
(* Modes: mfu_flist_chmod                                                    *)

\* What a chain of steps makes of a start.
IsChain(f, n, base, turns) ==
    f = [k \in 0 .. n |-> IF k = 0 THEN base ELSE turns[k][f[k - 1]]]

LEMMA ChainExists ==
    ASSUME NEW S, NEW n \in Nat, NEW base \in S, NEW turns \in [1 .. n -> [S -> S]]
    PROVE  \E f \in [0 .. n -> S] : IsChain(f, n, base, turns)
<1> DEFINE P(m) == \E f \in [0 .. m -> S] : IsChain(f, m, base, turns)
           T == {m \in 0 .. n : ~P(m)}
<1>1. P(0)
  <2> DEFINE f == [k \in 0 .. 0 |-> base]
  <2>1. f \in [0 .. 0 -> S] /\ IsChain(f, 0, base, turns)
    BY DEF IsChain
  <2> QED
    BY <2>1
<1>2. ASSUME NEW m \in 1 .. n, P(m - 1)
      PROVE  P(m)
  <2>1. PICK f \in [0 .. m - 1 -> S] : IsChain(f, m - 1, base, turns)
    BY <1>2
  <2> DEFINE g == [k \in 0 .. m |-> IF k = m THEN turns[m][f[m - 1]] ELSE f[k]]
  <2>2. g \in [0 .. m -> S]
    BY <2>1
  <2>3. ASSUME NEW k \in 0 .. m
        PROVE  g[k] = IF k = 0 THEN base ELSE turns[k][g[k - 1]]
    <3>1. CASE k = m
      BY <3>1
    <3>2. CASE k # m
      <4>1. k \in 0 .. m - 1 /\ (k # 0 => k - 1 \in 0 .. m - 1 /\ k - 1 # m)
        BY <3>2
      <4>2. f[k] = IF k = 0 THEN base ELSE turns[k][f[k - 1]]
        BY <2>1, <4>1 DEF IsChain
      <4>3. k # 0 => g[k - 1] = f[k - 1]
        BY <4>1
      <4> QED
        BY <3>2, <4>1, <4>2, <4>3
    <3> QED
      BY <3>1, <3>2
  <2>4. IsChain(g, m, base, turns)
    BY <2>2, <2>3 DEF IsChain
  <2> QED
    BY <2>2, <2>4
<1>3. T = {}
  <2> SUFFICES ASSUME T # {}
               PROVE  FALSE
    OBVIOUS
  <2>0. T \in SUBSET Nat
    OBVIOUS
  <2> HIDE DEF T
  <2>1. PICK x \in T : \A y \in T : x <= y
    BY <2>0, LeastNumber
  <2> USE DEF T
  <2>2. x # 0 /\ x \in 1 .. n
    <3> HIDE DEF P
    <3> QED
      BY <1>1, <2>1
  <2>3. x - 1 \in 0 .. n /\ x - 1 \notin T
    BY <2>1, <2>2
  <2> QED
    BY <1>2, <2>1, <2>2, <2>3
<1> QED
  BY <1>3

Follows(g, n, base, turns, S) ==
    g[0] = base /\ \A k \in 1 .. n : g[k - 1] \in S => g[k] = turns[k][g[k - 1]]

LEMMA ChainIsOne ==
    ASSUME NEW S, NEW n \in Nat, NEW base, NEW turns, NEW f \in [0 .. n -> S], IsChain(f, n, base, turns),
           NEW g, Follows(g, n, base, turns, S)
    PROVE  g[n] = f[n]
<1> DEFINE T == {k \in 0 .. n : f[k] # g[k]}
<1>1. \A k \in 0 .. n : f[k] = IF k = 0 THEN base ELSE turns[k][f[k - 1]]
  BY DEF IsChain
<1>2. T = {}
  <2> SUFFICES ASSUME T # {}
               PROVE  FALSE
    OBVIOUS
  <2>0. T \in SUBSET Nat
    OBVIOUS
  <2> HIDE DEF T
  <2>1. PICK x \in T : \A y \in T : x <= y
    BY <2>0, LeastNumber
  <2> USE DEF T
  <2>2. x \in 1 .. n
    BY <1>1, <2>1 DEF Follows
  <2>3. x - 1 \in 0 .. n /\ x - 1 \notin T
    BY <2>1, <2>2
  <2>4. g[x - 1] = f[x - 1] /\ f[x - 1] \in S
    BY <2>3
  <2> QED
    BY <1>1, <2>1, <2>2, <2>4 DEF Follows
<1> QED
  BY <1>2

-----------------------------------------------------------------------------
(* Modes                                                                     *)

LEMMA TurnSays ==
    ASSUME NEW p \in JobParts, p.op # "=", NEW c \in Classes, NEW mode \in SUBSET Bits,
           NEW big \in BOOLEAN, NEW b \in Bits
    PROVE  /\ b \in Turn(p, mode, {c} \X ((p.what \ {"X"}) \cup IF big THEN {"x"} ELSE {})) <=>
                 IF b[1] = c /\ (b[2] \in p.what \/ (b[2] = "x" /\ big)) THEN p.op = "+" ELSE b \in mode
           /\ Turn(p, mode, {c} \X ((p.what \ {"X"}) \cup IF big THEN {"x"} ELSE {})) \subseteq Bits
<1> DEFINE R == (p.what \ {"X"}) \cup IF big THEN {"x"} ELSE {}
<1>1. R \subseteq Perms
  BY DEF Perms, JobParts
<1>2. {c} \X R \subseteq Bits
  BY <1>1 DEF Bits
<1>3. b \in {c} \X R <=> b[1] = c /\ (b[2] \in p.what \/ (b[2] = "x" /\ big))
  <2>1. CASE b = STICKY
    BY <2>1 DEF STICKY, Classes
  <2>2. CASE b \in Classes \X Perms
    <3>1. b[2] # "X" /\ b = <<b[1], b[2]>>
      BY <2>2 DEF Perms
    <3>2. b[2] \in R <=> b[2] \in p.what \/ (b[2] = "x" /\ big)
      BY <3>1
    <3> HIDE DEF R
    <3> QED
      BY <3>1, <3>2
  <2> QED
    BY <2>1, <2>2 DEF Bits
<1> HIDE DEF R
<1>4. p.op = "+" \/ p.op = "-"
  BY DEF JobParts
<1>5. b \in Turn(p, mode, {c} \X R) <=>
         IF b[1] = c /\ (b[2] \in p.what \/ (b[2] = "x" /\ big)) THEN p.op = "+" ELSE b \in mode
  BY <1>3, <1>4 DEF Turn
<1>6. Turn(p, mode, {c} \X R) \subseteq Bits
  BY <1>2 DEF Turn
<1> QED
  BY <1>5, <1>6 DEF R

\* What a part with + or - makes of a bit of a class.
Told(b, c, p, all, mode) ==
    IF b[1] = c /\ c \in Targets(p) /\ (b[2] \in p.what \/ (b[2] = "x" /\ "X" \in p.what /\ all))
    THEN p.op = "+" ELSE b \in mode

LEMMA ClassSays ==
    ASSUME NEW p \in JobParts, p.op # "=", NEW dir \in BOOLEAN, NEW mode \in SUBSET Bits,
           NEW c \in Classes
    PROVE  /\ ForUser(p, dir, mode) \in SUBSET Bits /\ ForClass(c, p, dir, mode) \in SUBSET Bits
           /\ \A b \in Bits :
                 /\ b \in ForUser(p, dir, mode) <=> Told(b, "u", p, dir, mode)
                 /\ b \in ForClass(c, p, dir, mode)
                       <=> Told(b, c, p, p.op = "-" \/ dir \/ <<"u", "x">> \in mode, mode)
<1> DEFINE all == p.op = "-" \/ dir \/ <<"u", "x">> \in mode
           forU == "X" \in p.what /\ dir
           forC == "X" \in p.what /\ all
<1>1. p.what \in SUBSET (Perms \cup {"X"}) /\ "u" \in Classes /\ all \in BOOLEAN
      /\ forU \in BOOLEAN /\ forC \in BOOLEAN
  BY DEF JobParts, Classes
<1>3. ASSUME NEW b \in Bits
      PROVE  /\ ForUser(p, dir, mode) \subseteq Bits
             /\ b \in ForUser(p, dir, mode) <=> Told(b, "u", p, dir, mode)
  <2>1. CASE "u" \notin Targets(p)
    BY <2>1 DEF ForUser, Told
  <2>2. CASE "u" \in Targets(p)
    <3>1. /\ b \in Turn(p, mode, {"u"} \X ((p.what \ {"X"}) \cup IF forU THEN {"x"} ELSE {})) <=>
                IF b[1] = "u" /\ (b[2] \in p.what \/ (b[2] = "x" /\ forU)) THEN p.op = "+" ELSE b \in mode
          /\ Turn(p, mode, {"u"} \X ((p.what \ {"X"}) \cup IF forU THEN {"x"} ELSE {})) \subseteq Bits
      <4> HIDE DEF forU
      <4>1. \A v \in Classes :
               /\ b \in Turn(p, mode, {v} \X ((p.what \ {"X"}) \cup IF forU THEN {"x"} ELSE {})) <=>
                     IF b[1] = v /\ (b[2] \in p.what \/ (b[2] = "x" /\ forU)) THEN p.op = "+" ELSE b \in mode
               /\ Turn(p, mode, {v} \X ((p.what \ {"X"}) \cup IF forU THEN {"x"} ELSE {})) \subseteq Bits
        BY <1>1, TurnSays
      <4> QED
        BY <1>1, <4>1
    <3>2. ForUser(p, dir, mode) = Turn(p, mode, {"u"} \X ((p.what \ {"X"}) \cup IF forU THEN {"x"} ELSE {}))
      BY <2>2 DEF ForUser
    <3> HIDE DEF forU
    <3>3. Told(b, "u", p, dir, mode) <=>
             IF b[1] = "u" /\ (b[2] \in p.what \/ (b[2] = "x" /\ forU)) THEN p.op = "+" ELSE b \in mode
      BY <2>2 DEF Told, forU
    <3> QED
      BY <3>1, <3>2, <3>3
  <2> QED
    BY <2>1, <2>2
<1>4. ASSUME NEW b \in Bits
      PROVE  /\ ForClass(c, p, dir, mode) \subseteq Bits
             /\ b \in ForClass(c, p, dir, mode) <=> Told(b, c, p, all, mode)
  <2>1. CASE c \notin Targets(p)
    BY <2>1 DEF ForClass, Told
  <2>2. CASE c \in Targets(p)
    <3>1. /\ b \in Turn(p, mode, {c} \X ((p.what \ {"X"}) \cup IF forC THEN {"x"} ELSE {})) <=>
                IF b[1] = c /\ (b[2] \in p.what \/ (b[2] = "x" /\ forC)) THEN p.op = "+" ELSE b \in mode
          /\ Turn(p, mode, {c} \X ((p.what \ {"X"}) \cup IF forC THEN {"x"} ELSE {})) \subseteq Bits
      <4> HIDE DEF forC
      <4> QED
        BY <1>1, TurnSays
    <3>2. ForClass(c, p, dir, mode) = Turn(p, mode, {c} \X ((p.what \ {"X"}) \cup IF forC THEN {"x"} ELSE {}))
      BY <2>2 DEF ForClass
    <3> HIDE DEF forC, all
    <3>3. Told(b, c, p, all, mode) <=>
             IF b[1] = c /\ (b[2] \in p.what \/ (b[2] = "x" /\ forC)) THEN p.op = "+" ELSE b \in mode
      BY <2>2 DEF Told, forC
    <3> QED
      BY <3>1, <3>2, <3>3
  <2> QED
    BY <2>1, <2>2
<1>5. STICKY \in Bits
  BY DEF Bits
<1> QED
  BY <1>3, <1>4, <1>5

\* What a part makes of a mode is what it says of each bit.
LEMMA PartSays ==
    ASSUME NEW p \in JobParts, NEW dir \in BOOLEAN, NEW mode \in SUBSET Bits,
           p.op = "=" => p.source \in Classes
    PROVE  AfterPart(p, dir, mode) = {b \in Bits : SaidOn(b, p, dir, mode)}
<1> DEFINE ux == <<"u", "x">>
<1>1. /\ p.who \subseteq Classes \cup {"a"} /\ p.op \in {"+", "-", "="}
      /\ p.what \subseteq Perms \cup {"X"}
  BY DEF JobParts
<1>2. /\ Targets(p) \subseteq Classes
      /\ AssumeAll(p) => Targets(p) = Classes
  BY <1>1 DEF Targets, AssumeAll, Classes
<1> HIDE DEF ux
<1>3. CASE p.op = "="
  <2> DEFINE kept == {b \in mode : b[1] \notin Targets(p)}
             given == Targets(p) \X {q \in Perms : <<p.source, q>> \in mode}
  <2>1. \A b \in Bits : b \in Assigned(p, mode) <=> SaidOn(b, p, dir, mode)
    <3> SUFFICES ASSUME NEW b \in Bits
                 PROVE  b \in Assigned(p, mode) <=> SaidOn(b, p, dir, mode)
      OBVIOUS
    <3>1. SaidOn(b, p, dir, mode)
             <=> IF b[1] \notin Targets(p) THEN b \in mode ELSE <<p.source, b[2]>> \in mode
      BY <1>3 DEF SaidOn
    <3>2. b \in given <=> b[1] \in Targets(p) /\ <<p.source, b[2]>> \in mode
      <4>1. CASE b = STICKY
        <5>1. b[1] \notin Targets(p)
          BY <1>2, <4>1 DEF STICKY, Classes
        <5>2. b \notin given
          BY <5>1
        <5> QED
          BY <5>1, <5>2
      <4>2. CASE b \in Classes \X Perms
        BY <4>2
      <4> QED
        BY <4>1, <4>2 DEF Bits
    <3> QED
      BY <3>1, <3>2 DEF Assigned
  <2>2. given \subseteq Bits
    BY <1>2 DEF Bits
  <2>3. Assigned(p, mode) \subseteq Bits
    BY <2>2 DEF Assigned
  <2> QED
    BY <1>3, <2>1, <2>3 DEF AfterPart
<1>4. CASE p.op # "="
  <2> DEFINE one == ForUser(p, dir, mode)
             two == ForClass("g", p, dir, one)
             new == ForClass("o", p, dir, two)
             user == IF "u" \in Targets(p) /\ "x" \in p.what THEN p.op = "+" ELSE <<"u", "x">> \in mode
  <2>1. p.op = "+" \/ p.op = "-"
    BY <1>1, <1>4
  <2>2. "g" \in Classes /\ "o" \in Classes /\ <<"u", "x">> \in Bits
    BY DEF Classes, Bits, Perms
  <2>3. /\ one \in SUBSET Bits
        /\ \A b \in Bits : b \in one <=> Told(b, "u", p, dir, mode)
    BY <1>4, <2>2, ClassSays
  <2> HIDE DEF one
  <2>4. /\ two \in SUBSET Bits
        /\ \A b \in Bits : b \in two <=>
                 Told(b, "g", p, p.op = "-" \/ dir \/ <<"u", "x">> \in one, one)
    BY <1>4, <2>2, <2>3, ClassSays
  <2> HIDE DEF two
  <2>5. /\ new \in SUBSET Bits
        /\ \A b \in Bits : b \in new <=>
                 Told(b, "o", p, p.op = "-" \/ dir \/ <<"u", "x">> \in two, two)
    BY <1>4, <2>2, <2>4, ClassSays
  <2> HIDE DEF new
  <2>6. <<"u", "x">> \in two <=> <<"u", "x">> \in one
    BY <2>2, <2>4 DEF Told
  <2>7. dir \/ (<<"u", "x">> \in one <=> user)
    BY <2>2, <2>3 DEF Told
  <2>8. ASSUME NEW b \in Bits
        PROVE  b \in new <=> IF b[1] \notin Targets(p) THEN b \in mode
                             ELSE IF \/ b[2] \in p.what
                                     \/ /\ b[2] = "x" /\ "X" \in p.what
                                        /\ dir \/ (b[1] # "u" /\ (p.op = "-" \/ user))
                                  THEN p.op = "+" ELSE b \in mode
    <3> HIDE DEF user
    <3>1. /\ b \in one <=> Told(b, "u", p, dir, mode)
          /\ b \in two <=> Told(b, "g", p, p.op = "-" \/ dir \/ <<"u", "x">> \in one, one)
          /\ b \in new <=> Told(b, "o", p, p.op = "-" \/ dir \/ <<"u", "x">> \in two, two)
      BY <2>3, <2>4, <2>5
    <3>2. CASE b[1] = "u"
      BY <3>1, <3>2 DEF Told
    <3>3. CASE b[1] = "g"
      BY <2>1, <2>7, <3>1, <3>3 DEF Told
    <3>4. CASE b[1] = "o"
      BY <2>1, <2>6, <2>7, <3>1, <3>4 DEF Told
    <3>5. CASE b[1] \notin Classes
      BY <1>2, <3>1, <3>5 DEF Told, Classes
    <3> QED
      BY <3>2, <3>3, <3>4, <3>5 DEF Classes
  <2>9. ASSUME NEW b \in Bits
        PROVE  b \in Symbolic(p, dir, mode) <=> SaidOn(b, p, dir, mode)
    <3>1. SaidOn(b, p, dir, mode) <=>
             IF b[1] \notin Targets(p) THEN b \in mode
             ELSE IF AssumeAll(p) /\ b \in job.umask THEN b \in mode
             ELSE IF \/ b[2] \in p.what
                     \/ /\ b[2] = "x" /\ "X" \in p.what
                        /\ dir \/ (b[1] # "u" /\ (p.op = "-" \/ user))
                  THEN p.op = "+" ELSE b \in mode
      BY <1>4 DEF SaidOn
    <3>2. Symbolic(p, dir, mode) =
             IF AssumeAll(p) THEN (new \ job.umask) \cup (mode \cap job.umask) ELSE new
      BY DEF Symbolic, new, two, one
    <3> HIDE DEF user
    <3>3. b \in Symbolic(p, dir, mode) <=>
             IF AssumeAll(p) /\ b \in job.umask THEN b \in mode ELSE b \in new
      BY <3>2
    <3> QED
      BY <2>8, <3>1, <3>3
  <2>10. Symbolic(p, dir, mode) \subseteq Bits
    <3>1. Symbolic(p, dir, mode) =
             IF AssumeAll(p) THEN (new \ job.umask) \cup (mode \cap job.umask) ELSE new
      BY DEF Symbolic, new, two, one
    <3> QED
      BY <2>5, <3>1
  <2> QED
    BY <1>4, <2>9, <2>10 DEF AfterPart
<1> QED
  BY <1>3, <1>4

LEMMA WantedIsMade ==
    ASSUME ModesAssumption, job \in Jobs, NEW dir \in BOOLEAN, NEW mode \in SUBSET Bits
    PROVE  LET on[k \in 0 .. Len(job.parts)] ==
                   IF k = 0 THEN mode
                   ELSE {b \in Bits : SaidOn(b, job.parts[k], dir, on[k - 1])}
           IN  /\ AfterParts(dir, mode) = on[Len(job.parts)]
               /\ AfterParts(dir, mode) \in SUBSET Bits
<1> DEFINE n == Len(job.parts)
           turns == [k \in 1 .. n |-> [m \in SUBSET Bits |-> AfterPart(job.parts[k], dir, m)]]
           IsAfter(g) == g = [k \in 0 .. n |-> IF k = 0 THEN mode
                                               ELSE AfterPart(job.parts[k], dir, g[k - 1])]
           IsOn(g) == g = [k \in 0 .. n |-> IF k = 0 THEN mode
                                            ELSE {b \in Bits : SaidOn(b, job.parts[k], dir, g[k - 1])}]
           after == CHOOSE g : IsAfter(g)
           on == CHOOSE g : IsOn(g)
<1>1. job.parts \in Seq(JobParts)
  BY DEF ModesAssumption
<1>2. n \in Nat /\ DOMAIN job.parts = 1 .. n
  BY <1>1, LenProperties
<1>3. \A k \in 1 .. n : /\ job.parts[k] \in JobParts
                        /\ job.parts[k].op = "=" => job.parts[k].source \in Classes
  BY <1>1, <1>2, ElementOfSeq DEF ModesAssumption
<1> HIDE DEF n
<1>4. \A k \in 1 .. n : \A m \in SUBSET Bits :
          AfterPart(job.parts[k], dir, m) = {b \in Bits : SaidOn(b, job.parts[k], dir, m)}
  <2> SUFFICES ASSUME NEW k \in 1 .. n, NEW m \in SUBSET Bits
               PROVE  AfterPart(job.parts[k], dir, m) = {b \in Bits : SaidOn(b, job.parts[k], dir, m)}
    OBVIOUS
  <2>1. PICK p : p = job.parts[k]
    OBVIOUS
  <2>2. job.parts[k] \in JobParts
        /\ (job.parts[k].op = "=" => job.parts[k].source \in Classes)
    BY <1>3
  <2>3. AfterPart(p, dir, m) = {b \in Bits : SaidOn(b, p, dir, m)}
    BY <2>1, <2>2, PartSays
  <2> QED
    BY <2>1, <2>3
<1>5. \A k \in 1 .. n : \A m \in SUBSET Bits :
          /\ turns[k][m] = AfterPart(job.parts[k], dir, m)
          /\ AfterPart(job.parts[k], dir, m) \in SUBSET Bits
  <2> SUFFICES ASSUME NEW k \in 1 .. n, NEW m \in SUBSET Bits
               PROVE  AfterPart(job.parts[k], dir, m) \in SUBSET Bits
    OBVIOUS
  <2> QED
    BY <1>4
<1>6. turns \in [1 .. n -> [SUBSET Bits -> SUBSET Bits]]
  BY <1>5
<1> HIDE DEF turns
<1>7. PICK f \in [0 .. n -> SUBSET Bits] : IsChain(f, n, mode, turns)
  BY <1>2, <1>6, ChainExists
<1>8. \A k \in 0 .. n : f[k] = IF k = 0 THEN mode ELSE turns[k][f[k - 1]]
  BY <1>7 DEF IsChain
<1>9. \A k \in 1 .. n : k - 1 \in 0 .. n /\ f[k - 1] \in SUBSET Bits
  BY <1>2
<1>10. IsAfter(f)
  BY <1>5, <1>8, <1>9
<1>11. IsOn(f)
  <2>1. ASSUME NEW k \in 0 .. n
        PROVE  f[k] = IF k = 0 THEN mode ELSE {b \in Bits : SaidOn(b, job.parts[k], dir, f[k - 1])}
    <3>1. CASE k = 0
      BY <1>8, <3>1
    <3>2. CASE k # 0
      <4>1. k \in 1 .. n
        BY <1>2, <3>2
      <4>2. PICK m \in SUBSET Bits : m = f[k - 1]
        BY <1>9, <4>1
      <4>3. f[k] = AfterPart(job.parts[k], dir, m)
        BY <1>5, <1>8, <3>2, <4>1, <4>2
      <4>4. f[k] = {b \in Bits : SaidOn(b, job.parts[k], dir, m)}
        BY <1>4, <4>1, <4>3
      <4> QED
        BY <3>2, <4>2, <4>4
    <3> QED
      BY <3>1, <3>2
  <2> QED
    BY <2>1
<1>12. IsAfter(after)
  BY <1>10
<1>13. IsOn(on)
  BY <1>11
<1> HIDE DEF after, on
<1>14. after[n] = f[n]
  <2>1. after[0] = mode
    BY <1>2, <1>12
  <2>2. \A k \in 1 .. n : after[k - 1] \in SUBSET Bits => after[k] = turns[k][after[k - 1]]
    <3> SUFFICES ASSUME NEW k \in 1 .. n, after[k - 1] \in SUBSET Bits
                 PROVE  after[k] = turns[k][after[k - 1]]
      OBVIOUS
    <3>1. after[k] = AfterPart(job.parts[k], dir, after[k - 1])
      BY <1>2, <1>12
    <3> QED
      BY <1>5, <3>1
  <2>3. Follows(after, n, mode, turns, SUBSET Bits)
    BY <2>1, <2>2 DEF Follows
  <2> QED
    BY <1>2, <1>7, <2>3, ChainIsOne
<1>15. on[n] = f[n]
  <2>1. on[0] = mode
    BY <1>2, <1>13
  <2>2. \A k \in 1 .. n : on[k - 1] \in SUBSET Bits => on[k] = turns[k][on[k - 1]]
    <3> SUFFICES ASSUME NEW k \in 1 .. n, on[k - 1] \in SUBSET Bits
                 PROVE  on[k] = turns[k][on[k - 1]]
      OBVIOUS
    <3>1. on[k] = {b \in Bits : SaidOn(b, job.parts[k], dir, on[k - 1])}
      <4>1. k \in 0 .. n /\ k # 0
        BY <1>2
      <4>2. on = [l \in 0 .. n |-> IF l = 0 THEN mode
                                   ELSE {b \in Bits : SaidOn(b, job.parts[l], dir, on[l - 1])}]
        BY <1>13
      <4>3. on[k] = IF k = 0 THEN mode ELSE {b \in Bits : SaidOn(b, job.parts[k], dir, on[k - 1])}
        BY <4>1, <4>2
      <4> QED
        BY <4>1, <4>3
    <3> QED
      BY <1>4, <1>5, <3>1
  <2>3. Follows(on, n, mode, turns, SUBSET Bits)
    BY <2>1, <2>2 DEF Follows
  <2> QED
    BY <1>2, <1>7, <2>3, ChainIsOne
<1> QED
  <2>1. f[n] \in SUBSET Bits
    BY <1>2
  <2>2. AfterParts(dir, mode) = after[n]
    BY DEF AfterParts, after, n
  <2> QED
    BY <1>14, <1>15, <2>1, <2>2 DEF on, n

-----------------------------------------------------------------------------
(* The changes                                                               *)

ModeTypes ==
    /\ job \in Jobs
    /\ known \in [Listed -> [uid : Int, gid : Int, mode : SUBSET Bits]]
    /\ inodes \in [Listed -> [uid : Int, gid : Int, mode : SUBSET Bits]]
    /\ stats \in [{"chown", "chmod"} -> [{"done", "failed", "skipped"} -> Nat]]
    /\ level \in Int /\ owned \subseteq waiting
    /\ waiting \subseteq {i \in Listed : LevelOf(i) = level}

\* Items that are not done have the modes the walk has left, and only a process with
\* all rights changes owners.
ToCome(i) == LevelOf(i) < level \/ i \in waiting
LevelsInv ==
    /\ \A i \in Listed : LevelOf(i) <= Deepest
    /\ \A i \in Listed : ToCome(i) =>
          inodes[i].mode = IF Opened(i) THEN known[i].mode \cup DirRx ELSE known[i].mode
    /\ ~job.root => \A i \in Listed : inodes[i].uid = known[i].uid

\* Of the items that are done each one that is wrong has a failure of its own.
WrongDone == {i \in Listed : Mine(i) /\ Types[i] # "link" /\ ~ToCome(i) /\ ~ModeRight(i)}
AllOpen == \A i \in Listed : Mine(i) /\ (IsDir(i) => <<"u", "x">> \in known[i].mode)
FailuresInv ==
    /\ job.modes => Cardinality(WrongDone) <= stats["chmod"]["failed"]
    /\ AllOpen => /\ stats["chmod"]["failed"] = 0
                  /\ job.uid = NONE => stats["chown"]["failed"] = 0
ModeInv == ModeTypes /\ LevelsInv /\ FailuresInv

LEMMA ModeInitInv == ASSUME ModesAssumption, ModeInit PROVE ModeInv
<1>1. PICK m \in Modes, o \in Owners :
          known = [i \in Listed |-> [uid |-> o[i], gid |-> 0, mode |-> m[i]]]
  BY DEF ModeInit
<1>2. m \in [Listed -> SUBSET Bits] /\ o \in [Listed -> Int]
  BY DEF ModesAssumption
<1>3. known \in [Listed -> [uid : Int, gid : Int, mode : SUBSET Bits]]
  BY <1>1, <1>2
<1>4. DirRx \subseteq Bits
  BY DEF DirRx, Bits, Classes, Perms
<1>5. \A i \in Listed :
         /\ inodes[i] \in [uid : Int, gid : Int, mode : SUBSET Bits]
         /\ inodes[i].uid = known[i].uid
         /\ inodes[i].mode = IF Opened(i) THEN known[i].mode \cup DirRx ELSE known[i].mode
  <2> SUFFICES ASSUME NEW i \in Listed
               PROVE  /\ inodes[i] \in [uid : Int, gid : Int, mode : SUBSET Bits]
                      /\ inodes[i].uid = known[i].uid
                      /\ inodes[i].mode = IF Opened(i) THEN known[i].mode \cup DirRx ELSE known[i].mode
    OBVIOUS
  <2>1. inodes[i] = IF Opened(i) THEN [known[i] EXCEPT !.mode = @ \cup DirRx] ELSE known[i]
    BY DEF ModeInit
  <2>2. known[i] \in [uid : Int, gid : Int, mode : SUBSET Bits]
    BY <1>3
  <2> QED
    BY <1>4, <2>1, <2>2
<1>6. DOMAIN inodes = Listed /\ inodes = [i \in Listed |-> inodes[i]]
  BY DEF ModeInit
<1>7. inodes \in [Listed -> [uid : Int, gid : Int, mode : SUBSET Bits]]
  BY <1>5, <1>6
<1>8. Deepest \in Nat /\ \A i \in Listed : LevelOf(i) <= Deepest
  <2> DEFINE S == {DepthOf[i] : i \in Listed}
  <2>1. S \in SUBSET Nat /\ S # {} /\ IsFiniteSet(S)
    <3>1. IsFiniteSet(S)
      BY FiniteImage DEF ModesAssumption
    <3> QED
      BY <3>1 DEF ModesAssumption
  <2> HIDE DEF S
  <2>2. \E x \in S : \A y \in S : y <= x
    BY <2>1, GreatestNumber
  <2> USE DEF S
  <2>3. \E d \in S : \A i \in Listed : DepthOf[i] <= d
    BY <2>2
  <2>4. Deepest \in S /\ \A i \in Listed : DepthOf[i] <= Deepest
    BY <2>3 DEF Deepest
  <2> QED
    BY <2>1, <2>4 DEF LevelOf
<1>9. stats \in [{"chown", "chmod"} -> [{"done", "failed", "skipped"} -> Nat]]
      /\ stats["chmod"]["failed"] = 0 /\ stats["chown"]["failed"] = 0
  BY DEF ModeInit, NoStats
<1>10. ModeTypes
  BY <1>3, <1>7, <1>8, <1>9 DEF ModeTypes, ModeInit
<1>11. LevelsInv
  BY <1>5, <1>8 DEF LevelsInv
<1>12. FailuresInv
  <2>1. ASSUME NEW i \in Listed
        PROVE  ToCome(i)
    <3>1. LevelOf(i) \in Int /\ LevelOf(i) <= Deepest /\ Deepest \in Int
      BY <1>8 DEF ModesAssumption, LevelOf
    <3>2. level = Deepest /\ waiting = {j \in Listed : LevelOf(j) = Deepest}
      BY DEF ModeInit
    <3> QED
      BY <3>1, <3>2 DEF ToCome
  <2>2. WrongDone = {}
    BY <2>1 DEF WrongDone
  <2> QED
    BY <1>9, <2>2, FS_EmptySet DEF FailuresInv
<1> QED
  BY <1>10, <1>11, <1>12 DEF ModeInv

\* What is asked for stays, and what depends on nothing else.
LEMMA SameAsked ==
    ASSUME UNCHANGED <<job, known>>
    PROVE  /\ AllOpen' <=> AllOpen
           /\ \A i \in Listed : /\ Opened(i)' <=> Opened(i)
                                /\ Mine(i)' <=> Mine(i)
                                /\ ModeWanted(i)' = ModeWanted(i)
<1>1. \A i \in Listed : Mine(i)' <=> Mine(i)
  BY DEF Mine
<1>2. AllOpen' <=> AllOpen
  BY <1>1 DEF AllOpen, IsDir
<1>3. NeedDirRx' <=> NeedDirRx
  BY DEF NeedDirRx, Turned, Targets, AssumeAll, DirRx
<1>4. \A i \in Listed : Opened(i)' <=> Opened(i)
  BY <1>1, <1>3 DEF Opened, IsDir
<1>5. \A i \in Listed : ModeWanted(i)' = ModeWanted(i)
  BY DEF ModeWanted, SaidOn, Targets, AssumeAll, IsDir
<1> QED
  BY <1>1, <1>2, <1>4, <1>5

\* No directory above an item that is yet to come has been shut.
LEMMA OpenAbove ==
    ASSUME ModesAssumption, ModeTypes, LevelsInv, AllOpen, NEW i \in Listed, LevelOf(i) = level
    PROVE  Reachable(i)
<1> SUFFICES ASSUME ~job.root, NEW d \in Within[i]
             PROVE  <<ClassOf(d), "x">> \in inodes[d].mode
  BY DEF Reachable
<1>1. d \in Listed /\ Types[d] = "dir" /\ DepthOf[d] < DepthOf[i]
  BY DEF ModesAssumption
<1>2. ToCome(d)
  BY <1>1 DEF ToCome, LevelOf
<1>3. known[d].mode \subseteq inodes[d].mode
  BY <1>1, <1>2 DEF LevelsInv
<1>4. ClassOf(d) = "u"
  BY <1>1 DEF ClassOf, AllOpen, Mine, LevelsInv
<1> QED
  BY <1>1, <1>3, <1>4 DEF AllOpen, IsDir

LEMMA OwnerStep ==
    ASSUME ModesAssumption, ModeInv, NEW i \in Listed, ChangeOwner(i)
    PROVE  ModeInv'
<1>1. ModeTypes /\ LevelsInv /\ FailuresInv
  BY DEF ModeInv
<1>2. UNCHANGED <<job, known, level, waiting>> /\ owned' \subseteq waiting
  BY <1>1 DEF ChangeOwner, ModeTypes
<1>3. /\ AllOpen' <=> AllOpen
      /\ \A j \in Listed : /\ Opened(j)' <=> Opened(j)
                           /\ Mine(j)' <=> Mine(j)
                           /\ ModeWanted(j)' = ModeWanted(j)
  BY <1>2, SameAsked
<1>4. job.uid \in Int /\ job.gid \in Int
  BY <1>1 DEF ModeTypes, ModesAssumption
<1>5. /\ inodes' \in [Listed -> [uid : Int, gid : Int, mode : SUBSET Bits]]
      /\ \A j \in Listed : inodes'[j].mode = inodes[j].mode
  <2>1. CASE UNCHANGED inodes
    BY <1>1, <2>1 DEF ModeTypes
  <2>2. CASE inodes' = [inodes EXCEPT ![i].uid = IF job.uid = NONE THEN @ ELSE job.uid,
                                      ![i].gid = IF job.gid = NONE THEN @ ELSE job.gid]
    BY <1>1, <1>4, <2>2 DEF ModeTypes
  <2> QED
    BY <2>1, <2>2 DEF ChangeOwner
<1>6. ~job.root => \A j \in Listed : inodes'[j].uid = inodes[j].uid
  <2>1. CASE UNCHANGED inodes
    BY <2>1
  <2>2. CASE /\ MayChown(i)
             /\ inodes' = [inodes EXCEPT ![i].uid = IF job.uid = NONE THEN @ ELSE job.uid,
                                         ![i].gid = IF job.gid = NONE THEN @ ELSE job.gid]
    BY <1>1, <2>2 DEF ModeTypes, MayChown
  <2> QED
    BY <2>1, <2>2 DEF ChangeOwner
<1>7. /\ stats' \in [{"chown", "chmod"} -> [{"done", "failed", "skipped"} -> Nat]]
      /\ stats'["chmod"]["failed"] = stats["chmod"]["failed"]
      /\ stats'["chown"]["failed"] # stats["chown"]["failed"] => ~(Reachable(i) /\ MayChown(i))
  <2>1. CASE UNCHANGED stats
    BY <1>1, <2>1 DEF ModeTypes
  <2>2. CASE \E w \in {"done", "skipped"} : Count("chown", w)
    BY <1>1, <2>2 DEF ModeTypes, Count
  <2>3. CASE Count("chown", "failed") /\ ~(Reachable(i) /\ MayChown(i))
    BY <1>1, <2>3 DEF ModeTypes, Count
  <2> QED
    BY <2>1, <2>2, <2>3 DEF ChangeOwner
<1>8. \A j \in Listed : ToCome(j)' <=> ToCome(j)
  BY <1>2 DEF ToCome, LevelOf
<1>9. ModeTypes'
  BY <1>1, <1>2, <1>5, <1>7 DEF ModeTypes, LevelOf
<1>10. LevelsInv'
  <2>1. \A j \in Listed : ToCome(j)' =>
           inodes'[j].mode = IF Opened(j)' THEN known'[j].mode \cup DirRx ELSE known'[j].mode
    <3> SUFFICES ASSUME NEW j \in Listed, ToCome(j)'
                 PROVE  inodes'[j].mode = IF Opened(j)' THEN known'[j].mode \cup DirRx ELSE known'[j].mode
      OBVIOUS
    <3>1. inodes[j].mode = IF Opened(j) THEN known[j].mode \cup DirRx ELSE known[j].mode
      BY <1>1, <1>8 DEF LevelsInv
    <3>2. Opened(j)' <=> Opened(j)
      BY <1>3
    <3>3. inodes'[j].mode = inodes[j].mode /\ known'[j] = known[j]
      BY <1>2, <1>5
    <3> QED
      BY <3>1, <3>2, <3>3
  <2> QED
    BY <1>1, <1>2, <1>6, <2>1 DEF LevelsInv, LevelOf, Deepest
<1>11. FailuresInv'
  <2>1. \A j \in Listed : ModeRight(j)' <=> ModeRight(j)
    <3> SUFFICES ASSUME NEW j \in Listed
                 PROVE  ModeRight(j)' <=> ModeRight(j)
      OBVIOUS
    <3>1. inodes'[j].mode = inodes[j].mode /\ known'[j] = known[j]
      BY <1>2, <1>5
    <3>2. (Opened(j)' <=> Opened(j)) /\ ModeWanted(j)' = ModeWanted(j)
      BY <1>3
    <3> QED
      BY <3>1, <3>2 DEF ModeRight
  <2>2. WrongDone' = WrongDone
    <3>1. ASSUME NEW j \in Listed
          PROVE  j \in WrongDone' <=> j \in WrongDone
      <4>1. (Mine(j)' <=> Mine(j)) /\ (ToCome(j)' <=> ToCome(j)) /\ (ModeRight(j)' <=> ModeRight(j))
        BY <1>3, <1>8, <2>1
      <4> QED
        BY <4>1 DEF WrongDone
    <3> QED
      BY <3>1 DEF WrongDone
  <2>3. ASSUME AllOpen, job.uid = NONE
        PROVE  Reachable(i) /\ MayChown(i)
    <3>1. LevelOf(i) = level
      BY <1>1 DEF ChangeOwner, ModeTypes
    <3> QED
      BY <1>1, <2>3, <3>1, OpenAbove DEF MayChown, LevelsInv, AllOpen, Mine
  <2> QED
    BY <1>1, <1>2, <1>3, <1>7, <2>2, <2>3 DEF FailuresInv
<1> QED
  BY <1>9, <1>10, <1>11 DEF ModeInv

\* The mode that a change computes is the one asked for.
LEMMA NewIsWanted ==
    ASSUME ModesAssumption, ModeTypes, job.modes, NEW i \in Listed
    PROVE  NewMode(i) = ModeWanted(i) /\ NewMode(i) \in SUBSET Bits
<1>1. job \in Jobs /\ (job.octal \/ job.detail) /\ job.bits \in SUBSET Bits
  BY DEF ModeTypes, ModesAssumption
<1>2. known[i].mode \in SUBSET Bits /\ IsDir(i) \in BOOLEAN
  BY DEF ModeTypes, IsDir
<1>3. CASE job.octal
  BY <1>1, <1>3 DEF NewMode, SetModebits, ModeWanted
<1>4. CASE ~job.octal
  <2>1. NewMode(i) = AfterParts(IsDir(i), known[i].mode)
    BY <1>1, <1>4 DEF NewMode, SetModebits
  <2>2. AfterParts(IsDir(i), known[i].mode) = ModeWanted(i)
    BY <1>1, <1>2, <1>4, WantedIsMade DEF ModeWanted
  <2>3. AfterParts(IsDir(i), known[i].mode) \in SUBSET Bits
    BY <1>1, <1>2, WantedIsMade
  <2> QED
    BY <2>1, <2>2, <2>3
<1> QED
  BY <1>3, <1>4

\* An item that is left alone is right as it is.
LEMMA SkippedIsRight ==
    ASSUME ModesAssumption, ModeTypes, LevelsInv, job.modes, NEW i \in Listed, ToCome(i),
           Mine(i), Types[i] # "link", ~ChmodChanges(i)
    PROVE  ModeRight(i)
<1>1. NewMode(i) = known[i].mode
  BY DEF ChmodChanges, Mine
<1>2. ModeWanted(i) = known[i].mode
  BY <1>1, NewIsWanted
<1>3. inodes[i].mode = IF Opened(i) THEN known[i].mode \cup DirRx ELSE known[i].mode
  BY DEF LevelsInv
<1> QED
  BY <1>2, <1>3 DEF ModeRight

LEMMA ModeStep ==
    ASSUME ModesAssumption, ModeInv, NEW i \in Listed, ChangeMode(i)
    PROVE  ModeInv'
<1>1. ModeTypes /\ LevelsInv /\ FailuresInv
  BY DEF ModeInv
<1>2. /\ UNCHANGED <<job, known, level>> /\ waiting' = waiting \ {i}
      /\ owned' \subseteq waiting' /\ i \in waiting /\ LevelOf(i) = level
  BY <1>1 DEF ChangeMode, ModeTypes
<1>3. /\ AllOpen' <=> AllOpen
      /\ \A j \in Listed : /\ Opened(j)' <=> Opened(j)
                           /\ Mine(j)' <=> Mine(j)
                           /\ ModeWanted(j)' = ModeWanted(j)
  BY <1>2, SameAsked
<1>4. \A j \in Listed : ToCome(j)' <=> ToCome(j) /\ j # i
  BY <1>2 DEF ToCome, LevelOf, ModesAssumption
<1>5. /\ inodes' \in [Listed -> [uid : Int, gid : Int, mode : SUBSET Bits]]
      /\ \A j \in Listed : /\ inodes'[j].uid = inodes[j].uid
                           /\ j # i => inodes'[j] = inodes[j]
      /\ stats' \in [{"chown", "chmod"} -> [{"done", "failed", "skipped"} -> Nat]]
      /\ stats'["chown"]["failed"] = stats["chown"]["failed"]
      /\ \/ /\ stats'["chmod"]["failed"] = stats["chmod"]["failed"]
            /\ job.modes /\ Mine(i) /\ Types[i] # "link" =>
                  \/ inodes'[i] = inodes[i] /\ ModeRight(i)
                  \/ inodes'[i].mode = ModeWanted(i)
         \/ /\ stats'["chmod"]["failed"] = stats["chmod"]["failed"] + 1
            /\ ~(Reachable(i) /\ MayChmod(i))
  <2>1. CASE ~job.modes /\ UNCHANGED <<inodes, stats>>
    BY <1>1, <2>1 DEF ModeTypes
  <2>2. CASE job.modes /\ ~ChmodChanges(i) /\ Count("chmod", "skipped") /\ UNCHANGED inodes
    <3>1. Mine(i) /\ Types[i] # "link" => ModeRight(i)
      BY <1>1, <1>2, <2>2, SkippedIsRight DEF ToCome
    <3> QED
      BY <1>1, <2>2, <3>1 DEF ModeTypes, Count
  <2>3. CASE ~(Reachable(i) /\ MayChmod(i)) /\ Count("chmod", "failed") /\ UNCHANGED inodes
    BY <1>1, <2>3 DEF ModeTypes, Count
  <2>4. CASE job.modes /\ Count("chmod", "done") /\ inodes' = [inodes EXCEPT ![i].mode = NewMode(i)]
    <3>1. PICK m \in SUBSET Bits : m = NewMode(i) /\ m = ModeWanted(i)
      BY <1>1, <2>4, NewIsWanted
    <3>2. inodes' = [inodes EXCEPT ![i].mode = m]
      BY <2>4, <3>1
    <3>3. /\ inodes' \in [Listed -> [uid : Int, gid : Int, mode : SUBSET Bits]]
          /\ \A j \in Listed : /\ inodes'[j].uid = inodes[j].uid
                               /\ j # i => inodes'[j] = inodes[j]
          /\ inodes'[i].mode = m
      BY <1>1, <3>2 DEF ModeTypes
    <3>4. /\ stats' \in [{"chown", "chmod"} -> [{"done", "failed", "skipped"} -> Nat]]
          /\ stats'["chown"]["failed"] = stats["chown"]["failed"]
          /\ stats'["chmod"]["failed"] = stats["chmod"]["failed"]
      BY <1>1, <2>4 DEF ModeTypes, Count
    <3> QED
      BY <3>1, <3>3, <3>4
  <2> QED
    BY <2>1, <2>2, <2>3, <2>4 DEF ChangeMode
<1>6. ModeTypes'
  BY <1>1, <1>2, <1>5 DEF ModeTypes, LevelOf
<1>7. LevelsInv'
  <2>1. ASSUME NEW j \in Listed, ToCome(j)'
        PROVE  inodes'[j].mode = IF Opened(j)' THEN known'[j].mode \cup DirRx ELSE known'[j].mode
    <3>1. j # i /\ ToCome(j)
      BY <1>4, <2>1
    <3>2. inodes[j].mode = IF Opened(j) THEN known[j].mode \cup DirRx ELSE known[j].mode
      BY <1>1, <3>1 DEF LevelsInv
    <3>3. (Opened(j)' <=> Opened(j)) /\ inodes'[j] = inodes[j] /\ known'[j] = known[j]
      BY <1>2, <1>3, <1>5, <3>1
    <3> QED
      BY <3>2, <3>3
  <2>2. ~job'.root => \A j \in Listed : inodes'[j].uid = known'[j].uid
    BY <1>1, <1>2, <1>5 DEF LevelsInv
  <2> QED
    BY <1>1, <1>2, <2>1, <2>2 DEF LevelsInv, LevelOf, Deepest
<1>8. ASSUME NEW j \in Listed, j # i
      PROVE  ModeRight(j)' <=> ModeRight(j)
  <2>1. inodes'[j] = inodes[j] /\ known'[j] = known[j]
    BY <1>2, <1>5, <1>8
  <2>2. (Opened(j)' <=> Opened(j)) /\ ModeWanted(j)' = ModeWanted(j)
    BY <1>3
  <2> QED
    BY <2>1, <2>2 DEF ModeRight
<1>9. /\ IsFiniteSet(WrongDone) /\ Cardinality(WrongDone) \in Nat
      /\ WrongDone' \subseteq WrongDone \cup {i}
  <2>1. ASSUME NEW j \in Listed, j # i, j \in WrongDone'
        PROVE  j \in WrongDone
    <3>1. (Mine(j)' <=> Mine(j)) /\ (ToCome(j)' <=> ToCome(j)) /\ (ModeRight(j)' <=> ModeRight(j))
      BY <1>3, <1>4, <1>8, <2>1
    <3> QED
      BY <2>1, <3>1 DEF WrongDone
  <2>2. WrongDone' \subseteq Listed /\ WrongDone \subseteq Listed
    BY DEF WrongDone
  <2> QED
    BY <2>1, <2>2, FS_Subset, FS_CardinalityType DEF ModesAssumption
<1>10. FailuresInv'
  <2>1. AllOpen => Reachable(i) /\ MayChmod(i)
    BY <1>1, <1>2, OpenAbove DEF MayChmod, LevelsInv, AllOpen, Mine
  <2>2. CASE /\ stats'["chmod"]["failed"] = stats["chmod"]["failed"]
             /\ job.modes /\ Mine(i) /\ Types[i] # "link" =>
                   \/ inodes'[i] = inodes[i] /\ ModeRight(i)
                   \/ inodes'[i].mode = ModeWanted(i)
    <3>1. ASSUME job.modes, i \in WrongDone'
          PROVE  FALSE
      <4>1. Mine(i) /\ Types[i] # "link" /\ ~ModeRight(i)'
        BY <1>3, <3>1 DEF WrongDone
      <4>2. (Opened(i)' <=> Opened(i)) /\ ModeWanted(i)' = ModeWanted(i) /\ known'[i] = known[i]
        BY <1>2, <1>3
      <4> QED
        BY <2>2, <3>1, <4>1, <4>2 DEF ModeRight
    <3>2. job.modes => WrongDone' \subseteq WrongDone
      BY <1>9, <3>1
    <3>3. job.modes => Cardinality(WrongDone') <= Cardinality(WrongDone) /\ Cardinality(WrongDone') \in Nat
      BY <1>9, <3>2, FS_Subset, FS_CardinalityType
    <3>4. stats["chmod"]["failed"] \in Nat
      BY <1>1 DEF ModeTypes
    <3> QED
      BY <1>1, <1>2, <1>3, <1>5, <1>9, <2>2, <3>3, <3>4 DEF FailuresInv
  <2>3. CASE /\ stats'["chmod"]["failed"] = stats["chmod"]["failed"] + 1
             /\ ~(Reachable(i) /\ MayChmod(i))
    <3>1. /\ Cardinality(WrongDone') <= Cardinality(WrongDone) + 1
          /\ Cardinality(WrongDone') \in Nat
      <4> DEFINE W == WrongDone \cup {i}
      <4>1. IsFiniteSet(W) /\ Cardinality(W) <= Cardinality(WrongDone) + 1 /\ Cardinality(W) \in Nat
        BY <1>9, FS_AddElement, FS_CardinalityType
      <4>2. IsFiniteSet(WrongDone') /\ Cardinality(WrongDone') <= Cardinality(W)
            /\ Cardinality(WrongDone') \in Nat
        <5> HIDE DEF W
        <5>1. PICK V : V = WrongDone'
          OBVIOUS
        <5>2. V \in SUBSET W
          BY <1>9, <5>1 DEF W
        <5>3. IsFiniteSet(V) /\ Cardinality(V) <= Cardinality(W) /\ Cardinality(V) \in Nat
          BY <4>1, <5>2, FS_Subset, FS_CardinalityType
        <5> QED
          BY <5>1, <5>3
      <4> HIDE DEF W
      <4> QED
        BY <1>9, <4>1, <4>2
    <3>2. stats["chmod"]["failed"] \in Nat
      BY <1>1 DEF ModeTypes
    <3> QED
      BY <1>1, <1>2, <1>3, <1>9, <2>1, <2>3, <3>1, <3>2 DEF FailuresInv
  <2> QED
    BY <1>5, <2>2, <2>3
<1> QED
  BY <1>6, <1>7, <1>10 DEF ModeInv

LEMMA QuietStep ==
    ASSUME ModeInv, UNCHANGED <<job, known, inodes, stats>>, ModeTypes',
           \A i \in Listed : ToCome(i)' <=> ToCome(i)
    PROVE  ModeInv'
<1>1. ModeTypes /\ LevelsInv /\ FailuresInv
  BY DEF ModeInv
<1>2. UNCHANGED <<job, known, inodes, stats>>
  OBVIOUS
<1>3. \A i \in Listed : ToCome(i)' <=> ToCome(i)
  OBVIOUS
<1>5. /\ AllOpen' <=> AllOpen
      /\ \A j \in Listed : /\ Opened(j)' <=> Opened(j)
                           /\ Mine(j)' <=> Mine(j)
                           /\ ModeWanted(j)' = ModeWanted(j)
  BY <1>2, SameAsked
<1>6. \A i \in Listed : ModeRight(i)' <=> ModeRight(i)
  <2> SUFFICES ASSUME NEW i \in Listed
               PROVE  ModeRight(i)' <=> ModeRight(i)
    OBVIOUS
  <2>1. (Opened(i)' <=> Opened(i)) /\ ModeWanted(i)' = ModeWanted(i)
    BY <1>5
  <2> QED
    BY <1>2, <2>1 DEF ModeRight
<1>7. LevelsInv'
  <2>1. ASSUME NEW j \in Listed, ToCome(j)'
        PROVE  inodes'[j].mode = IF Opened(j)' THEN known'[j].mode \cup DirRx ELSE known'[j].mode
    <3>1. inodes[j].mode = IF Opened(j) THEN known[j].mode \cup DirRx ELSE known[j].mode
      BY <1>1, <1>3, <2>1 DEF LevelsInv
    <3>2. Opened(j)' <=> Opened(j)
      BY <1>5
    <3> QED
      BY <1>2, <3>1, <3>2
  <2> QED
    BY <1>1, <1>2, <2>1 DEF LevelsInv, LevelOf, Deepest
<1>8. WrongDone' = WrongDone
  <2>1. ASSUME NEW j \in Listed
        PROVE  j \in WrongDone' <=> j \in WrongDone
    <3>1. (Mine(j)' <=> Mine(j)) /\ (ToCome(j)' <=> ToCome(j)) /\ (ModeRight(j)' <=> ModeRight(j))
      BY <1>3, <1>5, <1>6
    <3> QED
      BY <3>1 DEF WrongDone
  <2> QED
    BY <2>1 DEF WrongDone
<1>9. FailuresInv'
  BY <1>1, <1>2, <1>5, <1>8 DEF FailuresInv
<1> QED
  BY <1>7, <1>9 DEF ModeInv

LEMMA NextLevelStep == ASSUME ModesAssumption, ModeInv, NextLevel PROVE ModeInv'
<1>1. ModeTypes
  BY DEF ModeInv
<1>2. /\ UNCHANGED <<job, known, inodes, owned, stats>> /\ level' = level - 1 /\ waiting = {}
      /\ waiting' = {i \in Listed : LevelOf(i) = level - 1}
  BY DEF NextLevel
<1>3. \A i \in Listed : ToCome(i)' <=> ToCome(i)
  <2> SUFFICES ASSUME NEW i \in Listed
               PROVE  ToCome(i)' <=> ToCome(i)
    OBVIOUS
  <2>1. DepthOf[i] \in Int /\ level \in Int
    BY <1>1 DEF ModeTypes, ModesAssumption
  <2> QED
    BY <1>2, <2>1 DEF ToCome, LevelOf
<1>4. ModeTypes'
  BY <1>1, <1>2 DEF ModeTypes, LevelOf
<1> QED
  BY <1>2, <1>3, <1>4, QuietStep

LEMMA ModeInvStep == ASSUME ModesAssumption PROVE ModeInv /\ [ModeNext]_modeVars => ModeInv'
<1> SUFFICES ASSUME ModeInv, [ModeNext]_modeVars
             PROVE  ModeInv'
  OBVIOUS
<1>1. CASE UNCHANGED modeVars
  <2>1. UNCHANGED <<job, known, inodes, stats>>
    BY <1>1 DEF modeVars
  <2>2. ModeTypes'
    BY <1>1 DEF modeVars, ModeInv, ModeTypes, LevelOf
  <2>3. \A i \in Listed : ToCome(i)' <=> ToCome(i)
    BY <1>1 DEF modeVars, ToCome, LevelOf
  <2> QED
    BY <2>1, <2>2, <2>3, QuietStep
<1>2. ASSUME NEW i \in Listed, ChangeOwner(i)
      PROVE  ModeInv'
  BY <1>2, OwnerStep
<1>3. ASSUME NEW i \in Listed, ChangeMode(i)
      PROVE  ModeInv'
  BY <1>3, ModeStep
<1>4. CASE NextLevel
  BY <1>4, NextLevelStep
<1> QED
  BY <1>1, <1>2, <1>3, <1>4 DEF ModeNext

\* mfu_flist_chmod, for any items, modes, owners and arguments: every item of the
\* process's own ends with the mode asked for, as it is told bit by bit, or a failure
\* of its own is counted, but for directories that had the mode before the walk opened
\* them; and none fails because a directory above it was changed first.
THEOREM ModesAreChanged == ASSUME ModesAssumption PROVE ModeSpec => []Changed
<1>1. ModeInit => ModeInv
  BY ModeInitInv
<1>2. ModeInv /\ [ModeNext]_modeVars => ModeInv'
  BY ModeInvStep
<1>3. ModeInv => Changed
  <2> SUFFICES ASSUME ModeInv, level = 0
               PROVE  /\ job.modes => Cardinality({i \in Listed : Mine(i) /\ Types[i] # "link" /\ ~ModeRight(i)})
                                        <= stats["chmod"]["failed"]
                      /\ AllOpen => /\ stats["chmod"]["failed"] = 0
                                    /\ job.uid = NONE => stats["chown"]["failed"] = 0
    BY DEF Changed, AllOpen
  <2>1. \A i \in Listed : ~ToCome(i)
    <3> SUFFICES ASSUME NEW i \in Listed
                 PROVE  ~ToCome(i)
      OBVIOUS
    <3>1. DepthOf[i] \in Nat /\ DepthOf[i] # 0
      BY DEF ModesAssumption
    <3> QED
      BY <3>1 DEF ToCome, LevelOf, ModeInv, ModeTypes
  <2>2. WrongDone = {i \in Listed : Mine(i) /\ Types[i] # "link" /\ ~ModeRight(i)}
    BY <2>1 DEF WrongDone
  <2> QED
    BY <2>2 DEF ModeInv, FailuresInv
<1> QED
  BY <1>1, <1>2, <1>3, PTL DEF ModeSpec

-----------------------------------------------------------------------------
(* Paths: mfu_path, mfu_param_path                                           *)
(* Arguments keep their meaning when they are made absolute and simple, and  *)
(* items get the names that cp gives them.  What is simplified and popped is *)
(* a chain of steps over the components; it is compared with where these     *)
(* lead, component by component.                                             *)

LEMMA PartOf ==
    ASSUME PathsAssumption, NEW s \in Seq(Components), NEW m \in Nat \ {0}, NEW n \in Nat, n <= Len(s), m <= n + 1
    PROVE  /\ SubSeq(s, m, n) \in Seq(Components) /\ Len(SubSeq(s, m, n)) = n - m + 1
           /\ \A i \in 1 .. n - m + 1 : SubSeq(s, m, n)[i] = s[m + i - 1]
<1>1. \A i \in m .. n : s[i] \in Components
  BY LenProperties, ElementOfSeq
<1>2. m \in Int /\ n \in Int
  OBVIOUS
<1>3. /\ SubSeq(s, m, n) \in Seq(Components)
      /\ Len(SubSeq(s, m, n)) = IF m <= n THEN n - m + 1 ELSE 0
      /\ \A i \in 1 .. n - m + 1 : SubSeq(s, m, n)[i] = s[m + i - 1]
  BY <1>1, <1>2, SubSeqProperties
<1>4. m <= n \/ n - m + 1 = 0
  OBVIOUS
<1> QED
  BY <1>3, <1>4

\* Where a path may lead: names from the root.
Places == {p \in Seq(Components) : \A k \in 1 .. Len(p) : p[k] \notin Special}

LEMMA EnterPlaces ==
    ASSUME PathsAssumption, NEW p \in Places, NEW c \in Components
    PROVE  Enter(p, c) \in Places
<1>1. p \in Seq(Components) /\ Len(p) \in Nat /\ \A k \in 1 .. Len(p) : p[k] \notin Special
  BY LenProperties DEF Places
<1>2. CASE c \in {"", "."}
  BY <1>2 DEF Enter
<1>3. CASE c = ".."
  <2>1. CASE p = <<>>
    BY <1>3, <2>1 DEF Enter
  <2>2. CASE p # <<>>
    <3>1. Len(p) \in Nat \ {0}
      BY <1>1, <2>2, EmptySeq
    <3>2. PICK q : q = SubSeq(p, 1, Len(p) - 1)
      OBVIOUS
    <3>3. q \in Seq(Components) /\ Len(q) = Len(p) - 1 /\ \A k \in 1 .. Len(p) - 1 : q[k] = p[k]
      <4>1. 1 \in Nat \ {0} /\ Len(p) - 1 \in Nat /\ Len(p) - 1 <= Len(p) /\ 1 <= Len(p) - 1 + 1
        BY <3>1
      <4>2. \A i \in 1 .. (Len(p) - 1) - 1 + 1 : q[i] = p[1 + i - 1]
        BY <1>1, <3>2, <4>1, PartOf
      <4>3. q \in Seq(Components) /\ Len(q) = (Len(p) - 1) - 1 + 1
        BY <1>1, <3>2, <4>1, PartOf
      <4> QED
        BY <3>1, <4>2, <4>3
    <3>4. q \in Places
      BY <1>1, <3>1, <3>3 DEF Places
    <3> QED
      BY <1>3, <2>2, <3>2, <3>4 DEF Enter
  <2> QED
    BY <2>1, <2>2
<1>4. CASE c \notin Special
  <2>1. Append(p, c) \in Seq(Components) /\ Len(Append(p, c)) = Len(p) + 1
    BY <1>1, AppendProperties
  <2>2. \A k \in 1 .. Len(p) + 1 : Append(p, c)[k] \notin Special
    <3> SUFFICES ASSUME NEW k \in 1 .. Len(p) + 1
                 PROVE  Append(p, c)[k] \notin Special
      OBVIOUS
    <3>1. CASE k \in 1 .. Len(p)
      BY <1>1, <3>1, AppendProperties
    <3>2. CASE k = Len(p) + 1
      <4>1. Append(p, c)[Len(p) + 1] = c
        BY <1>1, AppendProperties
      <4> QED
        BY <1>4, <3>2, <4>1
    <3>3. k \in 1 .. Len(p) \/ k = Len(p) + 1
      BY <1>1
    <3> QED
      BY <3>1, <3>2, <3>3
  <2>3. Enter(p, c) = Append(p, c)
    BY <1>4 DEF Enter, Special
  <2> QED
    BY <2>1, <2>2, <2>3 DEF Places
<1> QED
  BY <1>2, <1>3, <1>4 DEF Special

Entering(s) == [k \in 1 .. Len(s) |-> [p \in Places |-> Enter(p, s[k])]]

LEMMA FromSays ==
    ASSUME PathsAssumption, NEW l \in Places, NEW s \in Seq(Components)
    PROVE  \E f \in [0 .. Len(s) -> Places] :
              IsChain(f, Len(s), l, Entering(s)) /\ From(l, s) = f[Len(s)]
<1> DEFINE n == Len(s)
           IsAt(g) == g = [k \in 0 .. n |-> IF k = 0 THEN l ELSE Enter(g[k - 1], s[k])]
           at == CHOOSE g : IsAt(g)
<1>1. n \in Nat /\ \A k \in 1 .. n : s[k] \in Components
  BY LenProperties, ElementOfSeq
<1>2. \A k \in 1 .. n : \A p \in Places : Entering(s)[k][p] = Enter(p, s[k])
  BY DEF Entering
<1>3. Entering(s) \in [1 .. n -> [Places -> Places]]
  BY <1>1, EnterPlaces DEF Entering
<1> HIDE DEF n
<1>4. PICK f \in [0 .. n -> Places] : IsChain(f, n, l, Entering(s))
  BY <1>1, <1>3, ChainExists
<1>5. IsAt(f)
  <2>1. \A k \in 0 .. n : f[k] = IF k = 0 THEN l ELSE Entering(s)[k][f[k - 1]]
    BY <1>4 DEF IsChain
  <2>2. \A k \in 1 .. n : k - 1 \in 0 .. n /\ f[k - 1] \in Places
    BY <1>1
  <2> QED
    BY <1>2, <2>1, <2>2
<1>6. IsAt(at)
  BY <1>5
<1> HIDE DEF at
<1>7. at[n] = f[n]
  <2>1. at[0] = l
    BY <1>1, <1>6
  <2>2. \A k \in 1 .. n : at[k - 1] \in Places => at[k] = Entering(s)[k][at[k - 1]]
    <3> SUFFICES ASSUME NEW k \in 1 .. n, at[k - 1] \in Places
                 PROVE  at[k] = Entering(s)[k][at[k - 1]]
      OBVIOUS
    <3>1. at[k] = Enter(at[k - 1], s[k])
      BY <1>1, <1>6
    <3> QED
      BY <1>2, <3>1
  <2>3. Follows(at, n, l, Entering(s), Places)
    BY <2>1, <2>2 DEF Follows
  <2> QED
    BY <1>1, <1>4, <2>3, ChainIsOne
<1>8. From(l, s) = at[n]
  BY DEF From, at, n
<1> QED
  BY <1>4, <1>7, <1>8 DEF n

\* Whoever enters component by component gets where the path leads.
LEMMA FromFollows ==
    ASSUME PathsAssumption, NEW l \in Places, NEW s \in Seq(Components), NEW g, g[0] = l,
           \A k \in 1 .. Len(s) : g[k - 1] \in Places => g[k] = Enter(g[k - 1], s[k])
    PROVE  From(l, s) = g[Len(s)] /\ From(l, s) \in Places
<1>1. PICK f \in [0 .. Len(s) -> Places] :
              IsChain(f, Len(s), l, Entering(s)) /\ From(l, s) = f[Len(s)]
  BY FromSays
<1>2. Len(s) \in Nat
  BY LenProperties
<1>3. \A k \in 1 .. Len(s) : g[k - 1] \in Places => g[k] = Entering(s)[k][g[k - 1]]
  BY DEF Entering
<1>4. Follows(g, Len(s), l, Entering(s), Places)
  BY <1>3 DEF Follows
<1>5. g[Len(s)] = f[Len(s)]
  BY <1>1, <1>2, <1>4, ChainIsOne
<1> QED
  BY <1>1, <1>2, <1>5

\* The places on the way, from the start.
LEMMA FromGoes ==
    ASSUME PathsAssumption, NEW l \in Places, NEW s \in Seq(Components)
    PROVE  \E a \in [0 .. Len(s) -> Places] :
              /\ a[0] = l /\ From(l, s) = a[Len(s)]
              /\ \A k \in 1 .. Len(s) : a[k] = Enter(a[k - 1], s[k])
<1>1. PICK f \in [0 .. Len(s) -> Places] :
              IsChain(f, Len(s), l, Entering(s)) /\ From(l, s) = f[Len(s)]
  BY FromSays
<1>2. Len(s) \in Nat
  BY LenProperties
<1>3. \A k \in 0 .. Len(s) : f[k] = IF k = 0 THEN l ELSE Entering(s)[k][f[k - 1]]
  BY <1>1 DEF IsChain
<1>4. f[0] = l
  BY <1>2, <1>3
<1>5. \A k \in 1 .. Len(s) : f[k] = Enter(f[k - 1], s[k])
  <2> SUFFICES ASSUME NEW k \in 1 .. Len(s)
               PROVE  f[k] = Enter(f[k - 1], s[k])
    OBVIOUS
  <2>1. k \in 0 .. Len(s) /\ k # 0 /\ k - 1 \in 0 .. Len(s) /\ f[k - 1] \in Places
    BY <1>2
  <2>2. f[k] = Entering(s)[k][f[k - 1]]
    BY <1>3, <2>1
  <2> QED
    BY <2>1, <2>2 DEF Entering
<1> QED
  BY <1>1, <1>4, <1>5

LEMMA FromJoined ==
    ASSUME PathsAssumption, NEW l \in Places, NEW s \in Seq(Components), NEW t \in Seq(Components)
    PROVE  From(l, s \o t) = From(From(l, s), t)
<1> DEFINE m == Len(s)
           n == Len(t)
<1>1. /\ m \in Nat /\ n \in Nat /\ s \o t \in Seq(Components) /\ Len(s \o t) = m + n
      /\ \A i \in 1 .. m + n : (s \o t)[i] = IF i <= m THEN s[i] ELSE t[i - m]
  BY LenProperties, ConcatProperties
<1>2. PICK a \in [0 .. m -> Places] : /\ a[0] = l /\ From(l, s) = a[m]
                                      /\ \A k \in 1 .. m : a[k] = Enter(a[k - 1], s[k])
  BY FromGoes
<1>3. a[m] \in Places
  BY <1>1
<1>4. PICK b \in [0 .. n -> Places] : /\ b[0] = a[m] /\ From(a[m], t) = b[n]
                                      /\ \A k \in 1 .. n : b[k] = Enter(b[k - 1], t[k])
  BY <1>3, FromGoes
<1> HIDE DEF m, n
<1> DEFINE g == [k \in 0 .. m + n |-> IF k <= m THEN a[k] ELSE b[k - m]]
<1>5. g[0] = l /\ g[m + n] = b[n]
  <2>1. CASE n = 0
    BY <1>1, <1>2, <1>4, <2>1
  <2>2. CASE n # 0
    BY <1>1, <1>2, <2>2
  <2> QED
    BY <2>1, <2>2
<1>6. ASSUME NEW k \in 1 .. m + n
      PROVE  g[k] = Enter(g[k - 1], (s \o t)[k])
  <2>1. CASE k <= m
    <3>1. k \in 1 .. m /\ g[k] = a[k] /\ g[k - 1] = a[k - 1] /\ (s \o t)[k] = s[k]
      BY <1>1, <2>1
    <3> QED
      BY <1>2, <3>1
  <2>2. CASE k = m + 1
    <3>0. /\ 1 \in 1 .. n /\ k \in 0 .. m + n /\ k - 1 \in 0 .. m + n /\ ~(k <= m) /\ k - 1 <= m
          /\ k - m = 1 /\ k - 1 = m /\ 1 - 1 = 0
      BY <1>1, <2>2
    <3>1. g[k] = b[1] /\ g[k - 1] = a[m] /\ (s \o t)[k] = t[1]
      BY <1>1, <3>0
    <3>2. b[1] = Enter(b[0], t[1])
      BY <1>4, <3>0
    <3> QED
      BY <1>4, <3>0, <3>1, <3>2
  <2>3. CASE k > m + 1
    <3>0. /\ k - m \in 1 .. n /\ k \in 0 .. m + n /\ k - 1 \in 0 .. m + n /\ ~(k <= m)
          /\ ~(k - 1 <= m) /\ (k - 1) - m = (k - m) - 1
      BY <1>1, <2>3
    <3>1. g[k] = b[k - m] /\ g[k - 1] = b[(k - m) - 1] /\ (s \o t)[k] = t[k - m]
      BY <1>1, <3>0
    <3> QED
      BY <1>4, <3>0, <3>1
  <2>4. k <= m \/ k = m + 1 \/ k > m + 1
    BY <1>1
  <2> HIDE DEF g
  <2> QED
    BY <2>1, <2>2, <2>3, <2>4
<1>7. From(l, s \o t) = g[m + n]
  <2>1. \A k \in 1 .. Len(s \o t) : g[k - 1] \in Places => g[k] = Enter(g[k - 1], (s \o t)[k])
    BY <1>1, <1>6
  <2>2. g[0] = l /\ g[Len(s \o t)] = g[m + n]
    BY <1>1, <1>5
  <2> HIDE DEF g
  <2> QED
    BY <1>1, <2>1, <2>2, FromFollows
<1> QED
  BY <1>2, <1>4, <1>5, <1>7

\* Names lead on.
LEMMA FromNames ==
    ASSUME PathsAssumption, NEW l \in Places, NEW s \in Places
    PROVE  From(l, s) = l \o s /\ l \o s \in Places
<1> DEFINE n == Len(s)
           g == [k \in 0 .. n |-> l \o SubSeq(s, 1, k)]
<1>1. /\ l \in Seq(Components) /\ s \in Seq(Components) /\ n \in Nat /\ Len(l) \in Nat
      /\ \A k \in 1 .. n : s[k] \in Components /\ s[k] \notin Special
  BY LenProperties, ElementOfSeq DEF Places
<1>2. g[0] = l
  <2>1. SubSeq(s, 1, 0) = <<>>
    BY SubSeqEmpty
  <2> QED
    BY <1>1, <2>1, ConcatEmptySeq
<1>3. ASSUME NEW k \in 1 .. n
      PROVE  g[k] = Enter(g[k - 1], s[k])
  <2>1. SubSeq(s, 1, k) = Append(SubSeq(s, 1, k - 1), s[k])
    <3>1. 1 \in 1 .. n /\ k \in 1 .. n
      BY <1>1
    <3> QED
      BY <1>1, <3>1, SubSeqRecursiveSecond
  <2>2. SubSeq(s, 1, k - 1) \in Seq(Components)
    BY <1>1, PartOf
  <2>3. l \o Append(SubSeq(s, 1, k - 1), s[k]) = Append(l \o SubSeq(s, 1, k - 1), s[k])
    <3>1. PICK u \in Seq(Components) : u = SubSeq(s, 1, k - 1)
      BY <2>2
    <3>2. s[k] \in Components
      BY <1>1
    <3>3. l \o u \in Seq(Components)
      BY <1>1, ConcatProperties
    <3>4. Append(u, s[k]) = u \o <<s[k]>> /\ Append(l \o u, s[k]) = (l \o u) \o <<s[k]>>
      BY <3>2, <3>3, AppendIsConcat
    <3>5. <<s[k]>> \in Seq(Components)
      BY <3>2
    <3>6. (l \o u) \o <<s[k]>> = l \o (u \o <<s[k]>>)
      <4>1. PICK x \in Seq(Components) : x = <<s[k]>>
        BY <3>5
      <4>2. l \in Seq(Components)
        BY <1>1
      <4>3. (l \o u) \o x = l \o (u \o x)
        BY <4>2, ConcatAssociative
      <4> QED
        BY <4>1, <4>3
    <3> QED
      BY <3>1, <3>4, <3>6
  <2>4. Enter(g[k - 1], s[k]) = Append(g[k - 1], s[k])
    BY <1>1 DEF Enter, Special
  <2>5. k - 1 \in 0 .. n /\ k \in 0 .. n
    BY <1>1
  <2> QED
    BY <2>1, <2>3, <2>4, <2>5
<1>4. g[n] = l \o s
  BY <1>1, SubSeqFull
<1>5. \A k \in 1 .. Len(s) : g[k - 1] \in Places => g[k] = Enter(g[k - 1], s[k])
  BY <1>3
<1>6. g[Len(s)] = l \o s
  BY <1>4
<1> HIDE DEF g
<1>7. From(l, s) = g[Len(s)] /\ From(l, s) \in Places
  BY <1>1, <1>2, <1>5, FromFollows
<1> QED
  BY <1>6, <1>7

LEMMA Twice == ASSUME NEW x PROVE <<x>> = Append(<<>>, x) /\ <<x, x>> = Append(<<x>>, x)
  OBVIOUS

LEMMA Alone ==
    ASSUME NEW S, NEW x \in S
    PROVE  <<x>> \in Seq(S) /\ Len(<<x>>) = 1 /\ <<x>>[1] = x
  OBVIOUS

LEMMA Repeated ==
    ASSUME NEW S, NEW x \in S, NEW n \in Nat
    PROVE  [i \in 1 .. n |-> x] \in Seq(S) /\ Len([i \in 1 .. n |-> x]) = n
  OBVIOUS

LEMMA PlacesAre ==
    ASSUME PathsAssumption
    PROVE  /\ <<>> \in Places /\ Places \subseteq Seq(Components)
           /\ Root \in Seq(Components) /\ <<"", "">> \in Seq(Components) /\ Len(Root) = 1 /\ Root[1] = ""
<1>1. <<>> \in Seq(Components) /\ Len(<<>>) = 0
  BY EmptySeq
<1>2. <<>> \in Places
  BY <1>1 DEF Places
<1>3. "" \in Components
  BY DEF PathsAssumption, Special
<1>5. Root \in Seq(Components) /\ Len(Root) = 1 /\ Root[1] = ""
  BY <1>3, Alone DEF Root
<1>6. <<"", "">> = Append(Root, "")
  BY Twice DEF Root
<1>7. <<"", "">> \in Seq(Components)
  BY <1>3, <1>5, <1>6, AppendProperties
<1> QED
  BY <1>2, <1>5, <1>7 DEF Places

\* A path from the root leads from there.
LEMMA FromRoot ==
    ASSUME PathsAssumption, NEW l \in Places, NEW s \in Seq(Components)
    PROVE  From(l, Root \o s) = From(l, s)
<1> DEFINE g == [k \in 0 .. 1 |-> l]
<1>1. Root \in Seq(Components) /\ Len(Root) = 1 /\ Root[1] = ""
  BY PlacesAre
<1>2. \A k \in 1 .. Len(Root) : g[k - 1] \in Places => g[k] = Enter(g[k - 1], Root[k])
  <2>1. Enter(l, "") = l
    BY DEF Enter
  <2>2. g[0] = l /\ g[1] = l
    OBVIOUS
  <2>3. \A k \in 1 .. 1 : k = 1 /\ k - 1 = 0
    OBVIOUS
  <2> HIDE DEF g
  <2> QED
    BY <1>1, <2>1, <2>2, <2>3
<1>3. g[0] = l /\ g[1] = l
  OBVIOUS
<1> HIDE DEF g
<1>4. From(l, Root) = l
  BY <1>1, <1>2, <1>3, FromFollows
<1> QED
  BY <1>1, <1>4, FromJoined

LEMMA FromRooted ==
    ASSUME PathsAssumption, NEW p \in Places
    PROVE  From(<<>>, Root \o p) = p /\ From(<<>>, Strdup(Root \o p)) = p
<1>1. <<>> \in Places /\ p \in Seq(Components) /\ Root \in Seq(Components)
  BY PlacesAre
<1>2. From(<<>>, Root \o p) = p
  <2>1. From(<<>>, Root \o p) = From(<<>>, p)
    BY <1>1, FromRoot
  <2>2. From(<<>>, p) = <<>> \o p
    BY <1>1, FromNames
  <2>3. <<>> \o p = p
    BY <1>1, ConcatEmptySeq
  <2> QED
    BY <2>1, <2>2, <2>3
<1>3. CASE Root \o p # Root
  BY <1>2, <1>3 DEF Strdup
<1>4. CASE Root \o p = Root
  <2>1. p = <<>>
    BY <1>1, <1>4, ConcatEqualIffEmpty
  <2>2. <<"", "">> = Root \o Root /\ Root = Root \o <<>>
    <3>0. "" \in Components
      BY DEF PathsAssumption, Special
    <3>1. Append(Root, "") = Root \o <<"">>
      BY <1>1, <3>0, AppendIsConcat
    <3>2. Append(Root, "") = <<"", "">>
      BY Twice DEF Root
    <3> QED
      BY <1>1, <3>1, <3>2, ConcatEmptySeq DEF Root
  <2>3. From(<<>>, <<"", "">>) = From(<<>>, Root)
    BY <1>1, <2>2, FromRoot
  <2>4. From(<<>>, Root) = p
    BY <1>2, <1>4
  <2> QED
    BY <1>2, <1>4, <2>3, <2>4 DEF Strdup
<1> QED
  BY <1>2, <1>3, <1>4

\* ".." as often as n leads n up.
LEMMA FromUp ==
    ASSUME PathsAssumption, NEW p \in Places, NEW n \in 0 .. Len(p)
    PROVE  From(p, [i \in 1 .. n |-> ".."]) = SubSeq(p, 1, Len(p) - n)
<1> DEFINE ups == [i \in 1 .. n |-> ".."]
           g == [k \in 0 .. n |-> SubSeq(p, 1, Len(p) - k)]
<1>1. p \in Seq(Components) /\ Len(p) \in Nat /\ n \in Nat
  BY LenProperties DEF Places
<1>2. ups \in Seq(Components) /\ Len(ups) = n
  <2>1. ".." \in Components
    BY DEF PathsAssumption, Special
  <2> QED
    BY <1>1, <2>1, Repeated
<1>3. g[0] = p
  BY <1>1, SubSeqFull
<1>4. ASSUME NEW k \in 1 .. n
      PROVE  g[k] = Enter(g[k - 1], ups[k])
  <2>1. /\ 1 \in Nat \ {0} /\ Len(p) - (k - 1) \in Nat /\ Len(p) - (k - 1) <= Len(p)
        /\ 1 <= Len(p) - (k - 1) + 1
    BY <1>1
  <2>2. PICK q : q = SubSeq(p, 1, Len(p) - (k - 1))
    OBVIOUS
  <2>3. Len(q) = (Len(p) - (k - 1)) - 1 + 1
    BY <1>1, <2>1, <2>2, PartOf
  <2>4. Len(q) = Len(p) - k + 1 /\ Len(q) # 0 /\ Len(q) - 1 = Len(p) - k
    BY <1>1, <2>3
  <2>5. q # <<>>
    BY <2>4
  <2>6. Enter(q, "..") = SubSeq(q, 1, Len(p) - k)
    BY <2>4, <2>5 DEF Enter
  <2>7. SubSeq(q, 1, Len(p) - k) = SubSeq(p, 1, Len(p) - k)
    <3>1. q \in Seq(Components)
      BY <1>1, <2>1, <2>2, PartOf
    <3>2. \A i \in 1 .. Len(p) - k : q[i] = p[i]
      <4>1. \A i \in 1 .. (Len(p) - (k - 1)) - 1 + 1 : q[i] = p[1 + i - 1]
        BY <1>1, <2>1, <2>2, PartOf
      <4> QED
        BY <1>1, <4>1
    <3>3. /\ 1 \in Nat \ {0} /\ Len(p) - k \in Nat /\ Len(p) - k <= Len(p)
          /\ Len(p) - k <= Len(q) /\ 1 <= Len(p) - k + 1
      BY <1>1, <2>4
    <3>4. PICK u : u = SubSeq(q, 1, Len(p) - k)
      OBVIOUS
    <3>5. PICK v : v = SubSeq(p, 1, Len(p) - k)
      OBVIOUS
    <3>6. /\ u \in Seq(Components) /\ Len(u) = (Len(p) - k) - 1 + 1
          /\ \A i \in 1 .. (Len(p) - k) - 1 + 1 : u[i] = q[1 + i - 1]
      BY <3>1, <3>3, <3>4, PartOf
    <3>7. /\ v \in Seq(Components) /\ Len(v) = (Len(p) - k) - 1 + 1
          /\ \A i \in 1 .. (Len(p) - k) - 1 + 1 : v[i] = p[1 + i - 1]
      BY <1>1, <3>3, <3>5, PartOf
    <3>8. \A i \in 1 .. Len(u) : u[i] = v[i]
      BY <1>1, <3>2, <3>6, <3>7
    <3> QED
      BY <3>4, <3>5, <3>6, <3>7, <3>8, SeqEqual
  <2>8. k - 1 \in 0 .. n /\ k \in 0 .. n
    BY <1>1
  <2>9. g[k - 1] = q /\ g[k] = SubSeq(p, 1, Len(p) - k) /\ ups[k] = ".."
    BY <2>2, <2>8
  <2> QED
    BY <2>6, <2>7, <2>9
<1>5. \A k \in 1 .. Len(ups) : g[k - 1] \in Places => g[k] = Enter(g[k - 1], ups[k])
  BY <1>2, <1>4
<1>6. g[n] = SubSeq(p, 1, Len(p) - n)
  BY <1>1
<1> HIDE DEF g, ups
<1>7. From(p, ups) = g[Len(ups)]
  BY <1>2, <1>3, <1>5, FromFollows
<1> QED
  BY <1>2, <1>6, <1>7 DEF ups

\* Induction, over a set.
LEMMA AllNumbers ==
    ASSUME NEW n \in Nat, NEW T, 0 \in T, \A k \in 1 .. n : k - 1 \in T => k \in T
    PROVE  \A k \in 0 .. n : k \in T
<1> DEFINE U == {k \in 0 .. n : k \notin T}
<1> SUFFICES ASSUME U # {}
             PROVE  FALSE
  OBVIOUS
<1>1. U \in SUBSET Nat
  OBVIOUS
<1> HIDE DEF U
<1>2. PICK x \in U : \A y \in U : x <= y
  BY <1>1, LeastNumber
<1> USE DEF U
<1>3. x \in 1 .. n
  BY <1>2
<1>4. x - 1 \in 0 .. n /\ x - 1 \notin U
  BY <1>2, <1>3
<1> QED
  BY <1>2, <1>3, <1>4

LEMMA DirnameIs ==
    ASSUME NEW p \in Seq(Components), p # <<>>
    PROVE  Dirname(p) = SubSeq(p, 1, Len(p) - 1) /\ Dirname(p) \in Seq(Components)
<1>1. Len(p) \in Nat \ {0}
  BY LenProperties, EmptySeq
<1>2. 0 % Len(p) = 0
  BY <1>1
<1>3. ~(Len(p) - 1 < 0 \/ 0 + (Len(p) - 1) > Len(p)) /\ 0 + 1 = 1 /\ 0 + (Len(p) - 1) = Len(p) - 1
  BY <1>1
<1>4. Dirname(p) = SubSeq(p, 1, Len(p) - 1)
  BY <1>2, <1>3 DEF Dirname, Slice
<1>5. SubSeq(p, 1, Len(p) - 1) \in Seq(Components)
  <2>1. 1 \in Nat \ {0} /\ Len(p) - 1 \in Nat /\ Len(p) - 1 <= Len(p) /\ 1 <= Len(p) - 1 + 1
    BY <1>1
  <2> QED
    BY <2>1, PartOf
<1> QED
  BY <1>4, <1>5

LEMMA PopTypes ==
    ASSUME NEW p \in Seq(Components), NEW c \in Components
    PROVE  Pop(p, c) \in Seq(Components)
  BY DirnameIs, AppendProperties DEF Pop

\* The lists of components, as a set with a name of its own for the provers.
Lists == Seq(Components)

Popping(s) == [k \in 1 .. Len(s) |-> [p \in Lists |-> Pop(p, s[k])]]

LEMMA PoppedSays ==
    ASSUME NEW s \in Seq(Components)
    PROVE  \E f \in [0 .. Len(s) -> Lists] :
              IsChain(f, Len(s), NULL, Popping(s)) /\ Popped(s) = f[Len(s)]
<1> DEFINE n == Len(s)
           IsPopped(g) == g = [k \in 0 .. n |-> IF k = 0 THEN <<>> ELSE Pop(g[k - 1], s[k])]
           popped == CHOOSE g : IsPopped(g)
<1>1. n \in Nat /\ \A k \in 1 .. n : s[k] \in Components
  BY LenProperties, ElementOfSeq
<1>2. \A k \in 1 .. n : \A p \in Lists : Popping(s)[k][p] = Pop(p, s[k])
  BY DEF Popping
<1>3. Popping(s) \in [1 .. n -> [Lists -> Lists]]
  BY <1>1, PopTypes DEF Popping, Lists
<1>0. NULL = <<>> /\ NULL \in Lists
  BY EmptySeq DEF NULL, Lists
<1> HIDE DEF n
<1>4. PICK f \in [0 .. n -> Lists] : IsChain(f, n, NULL, Popping(s))
  BY <1>0, <1>1, <1>3, ChainExists
<1>5. IsPopped(f)
  <2>1. \A k \in 0 .. n : f[k] = IF k = 0 THEN NULL ELSE Popping(s)[k][f[k - 1]]
    BY <1>4 DEF IsChain
  <2>2. \A k \in 1 .. n : k - 1 \in 0 .. n /\ f[k - 1] \in Lists
    BY <1>1
  <2> QED
    BY <1>0, <1>2, <2>1, <2>2
<1>6. IsPopped(popped)
  BY <1>5
<1> HIDE DEF popped
<1>7. popped[n] = f[n]
  <2>1. popped[0] = NULL
    BY <1>0, <1>1, <1>6
  <2>2. \A k \in 1 .. n : popped[k - 1] \in Lists => popped[k] = Popping(s)[k][popped[k - 1]]
    <3> SUFFICES ASSUME NEW k \in 1 .. n, popped[k - 1] \in Lists
                 PROVE  popped[k] = Popping(s)[k][popped[k - 1]]
      OBVIOUS
    <3>1. popped[k] = Pop(popped[k - 1], s[k])
      BY <1>1, <1>6
    <3> QED
      BY <1>2, <3>1
  <2>3. Follows(popped, n, NULL, Popping(s), Lists)
    BY <2>1, <2>2 DEF Follows
  <2> QED
    BY <1>1, <1>4, <2>3, ChainIsOne
<1>8. Popped(s) = popped[n]
  BY DEF Popped, popped, n
<1> QED
  BY <1>4, <1>7, <1>8 DEF n

\* Component after component.
LEMMA PoppedOn ==
    ASSUME NEW s \in Seq(Components), NEW c \in Components
    PROVE  /\ Popped(Append(s, c)) = Pop(Popped(s), c)
           /\ Popped(s) \in Seq(Components)
<1> DEFINE n == Len(s)
<1>1. n \in Nat
  BY LenProperties
<1>2. PICK t : t = Append(s, c)
  OBVIOUS
<1>3. t \in Seq(Components) /\ Len(t) = n + 1 /\ (\A i \in 1 .. n : t[i] = s[i]) /\ t[n + 1] = c
  BY <1>2, AppendProperties
<1>4. PICK f \in [0 .. n -> Lists] : IsChain(f, n, NULL, Popping(s)) /\ Popped(s) = f[n]
  BY PoppedSays
<1>5. PICK g \in [0 .. n + 1 -> Lists] :
          IsChain(g, n + 1, NULL, Popping(t)) /\ Popped(t) = g[n + 1]
  BY <1>3, PoppedSays
<1> HIDE DEF n
<1>6. \A k \in 0 .. n + 1 : g[k] = IF k = 0 THEN NULL ELSE Popping(t)[k][g[k - 1]]
  BY <1>5 DEF IsChain
<1>7. ASSUME NEW k \in 1 .. n + 1
      PROVE  g[k] = Pop(g[k - 1], t[k])
  <2>1. k \in 0 .. n + 1 /\ k # 0 /\ k - 1 \in 0 .. n + 1 /\ g[k - 1] \in Lists
    BY <1>1
  <2>2. g[k] = Popping(t)[k][g[k - 1]]
    BY <1>6, <2>1
  <2> QED
    BY <1>3, <2>1, <2>2 DEF Popping
<1>8. \A k \in 1 .. n : g[k - 1] \in Lists => g[k] = Popping(s)[k][g[k - 1]]
  <2> SUFFICES ASSUME NEW k \in 1 .. n, g[k - 1] \in Lists
               PROVE  g[k] = Popping(s)[k][g[k - 1]]
    OBVIOUS
  <2>1. g[k] = Pop(g[k - 1], s[k])
    BY <1>1, <1>3, <1>7
  <2> QED
    BY <2>1 DEF Popping, n
<1>9. Follows(g, n, NULL, Popping(s), Lists)
  BY <1>1, <1>6, <1>8 DEF Follows
<1>10. g[n] = f[n]
  BY <1>1, <1>4, <1>9, ChainIsOne
<1>11. n + 1 \in 1 .. n + 1 /\ n + 1 - 1 = n /\ n \in 0 .. n
  BY <1>1
<1>12. g[n + 1] = Pop(g[n], c)
  BY <1>3, <1>7, <1>11
<1> QED
  BY <1>2, <1>4, <1>5, <1>10, <1>11, <1>12 DEF Lists

Keeping(s) ==
    [k \in 1 .. Len(s) |->
        [p \in Lists |-> IF Kept(s, k) THEN Append(p, s[k]) ELSE p]]

LEMMA SimpleSays ==
    ASSUME NEW s \in Seq(Components)
    PROVE  \E f \in [0 .. Len(s) -> Lists] :
              /\ f[0] = <<>> /\ Simple(s) = f[Len(s)]
              /\ \A k \in 1 .. Len(s) :
                    f[k] = IF Kept(s, k) THEN Append(f[k - 1], s[k]) ELSE f[k - 1]
<1> DEFINE n == Len(s)
           IsKept(g) == g = [i \in 0 .. n |->
                               IF i = 0 THEN <<>>
                               ELSE IF Kept(s, i) THEN Append(g[i - 1], s[i]) ELSE g[i - 1]]
           kept == CHOOSE g : IsKept(g)
<1>1. n \in Nat /\ \A k \in 1 .. n : s[k] \in Components
  BY LenProperties, ElementOfSeq
<1>2. \A k \in 1 .. n : \A p \in Lists :
         Keeping(s)[k][p] = IF Kept(s, k) THEN Append(p, s[k]) ELSE p
  BY DEF Keeping
<1>3. Keeping(s) \in [1 .. n -> [Lists -> Lists]]
  BY <1>1, AppendProperties DEF Keeping, Lists
<1>0. NULL = <<>> /\ NULL \in Lists
  BY EmptySeq DEF NULL, Lists
<1> HIDE DEF n
<1>4. PICK f \in [0 .. n -> Lists] : IsChain(f, n, NULL, Keeping(s))
  BY <1>0, <1>1, <1>3, ChainExists
<1>5. \A k \in 0 .. n : f[k] = IF k = 0 THEN NULL ELSE Keeping(s)[k][f[k - 1]]
  BY <1>4 DEF IsChain
<1>6. \A k \in 1 .. n : k - 1 \in 0 .. n /\ f[k - 1] \in Lists
  BY <1>1
<1>7. \A k \in 1 .. n : f[k] = IF Kept(s, k) THEN Append(f[k - 1], s[k]) ELSE f[k - 1]
  <2> SUFFICES ASSUME NEW k \in 1 .. n
               PROVE  f[k] = IF Kept(s, k) THEN Append(f[k - 1], s[k]) ELSE f[k - 1]
    OBVIOUS
  <2>1. k \in 0 .. n /\ k # 0
    BY <1>1
  <2>2. f[k] = Keeping(s)[k][f[k - 1]]
    BY <1>5, <2>1
  <2> QED
    BY <1>2, <1>6, <2>2
<1>8. IsKept(f)
  <2>1. ASSUME NEW i \in 0 .. n
        PROVE  f[i] = IF i = 0 THEN <<>>
                      ELSE IF Kept(s, i) THEN Append(f[i - 1], s[i]) ELSE f[i - 1]
    <3>1. CASE i = 0
      BY <1>0, <1>5, <3>1
    <3>2. CASE i # 0
      <4>1. i \in 1 .. n
        BY <1>1, <3>2
      <4>2. f[i] = IF Kept(s, i) THEN Append(f[i - 1], s[i]) ELSE f[i - 1]
        BY <1>7, <4>1
      <4> QED
        BY <3>2, <4>2, Zenon
    <3> QED
      BY <3>1, <3>2
  <2> QED
    BY <2>1
<1>9. IsKept(kept)
  BY <1>8
<1> HIDE DEF kept
<1>10. kept[n] = f[n]
  <2>1. kept[0] = NULL
    BY <1>0, <1>1, <1>9
  <2>2. \A k \in 1 .. n : kept[k - 1] \in Lists => kept[k] = Keeping(s)[k][kept[k - 1]]
    <3> SUFFICES ASSUME NEW k \in 1 .. n, kept[k - 1] \in Lists
                 PROVE  kept[k] = Keeping(s)[k][kept[k - 1]]
      OBVIOUS
    <3>1. kept[k] = IF Kept(s, k) THEN Append(kept[k - 1], s[k]) ELSE kept[k - 1]
      <4>1. k \in 0 .. n /\ k # 0
        BY <1>1
      <4> QED
        BY <1>9, <4>1
    <3> QED
      BY <1>2, <3>1
  <2>3. Follows(kept, n, NULL, Keeping(s), Lists)
    BY <2>1, <2>2 DEF Follows
  <2> QED
    BY <1>1, <1>4, <2>3, ChainIsOne
<1>11. Simple(s) = kept[n]
  BY DEF Simple, kept, n
<1>12. f[0] = <<>>
  BY <1>0, <1>1, <1>5
<1> QED
  BY <1>7, <1>10, <1>11, <1>12 DEF n

\* Components that lead nowhere.
Stays == {"", "."}

\* A step on a path from the root is a step from place to place.
LEMMA PopEnters ==
    ASSUME PathsAssumption, NEW p \in Places, NEW c \in Components, c \notin Stays
    PROVE  Pop(Root \o p, c) = Root \o Enter(p, c)
<1>1. /\ p \in Seq(Components) /\ Root \in Seq(Components) /\ Len(Root) = 1
      /\ Len(p) \in Nat /\ \A k \in 1 .. Len(p) : p[k] \notin Special
  BY PlacesAre, LenProperties DEF Places
<1>2. PICK q : q = Root \o p
  OBVIOUS
<1>3. /\ q \in Seq(Components) /\ Len(q) = 1 + Len(p)
      /\ \A i \in 1 .. 1 + Len(p) : q[i] = IF i <= 1 THEN Root[i] ELSE p[i - 1]
  <2>1. /\ q \in Seq(Components) /\ Len(q) = Len(Root) + Len(p)
        /\ \A i \in 1 .. Len(Root) + Len(p) :
              q[i] = IF i <= Len(Root) THEN Root[i] ELSE p[i - Len(Root)]
    BY <1>1, <1>2, ConcatProperties
  <2> QED
    BY <1>1, <2>1
<1>4. q # <<>>
  BY <1>1, <1>3, EmptySeq
<1>5. Last(q) = q[1 + Len(p)]
  BY <1>3 DEF Last
<1>6. CASE c # ".."
  <2>1. Pop(q, c) = Append(q, c)
    BY <1>6 DEF Pop
  <2>2. Enter(p, c) = Append(p, c)
    BY <1>6 DEF Enter, Stays
  <2>3. Append(q, c) = q \o <<c>> /\ Append(p, c) = p \o <<c>>
    BY <1>1, <1>3, AppendIsConcat
  <2>4. (Root \o p) \o <<c>> = Root \o (p \o <<c>>)
    BY <1>1, Alone, ConcatAssociative
  <2> QED
    BY <1>2, <2>1, <2>2, <2>3, <2>4
<1>7. CASE c = ".." /\ p = <<>>
  <2>0. Root[1] = ""
    BY PlacesAre
  <2>1. q[1 + Len(p)] = Root[1]
    <3>1. Len(p) = 0 /\ 1 + Len(p) = 1 /\ 1 \in 1 .. 1 + Len(p)
      BY <1>1, <1>7, EmptySeq
    <3> QED
      BY <1>1, <1>3, <3>1
  <2>2. Pop(q, c) = q
    BY <1>4, <1>5, <1>7, <2>0, <2>1 DEF Pop
  <2>3. Enter(p, c) = p
    BY <1>7 DEF Enter
  <2> QED
    BY <1>2, <2>2, <2>3
<1>8. CASE c = ".." /\ p # <<>>
  <2>1. Len(p) \in Nat \ {0}
    BY <1>1, <1>8, EmptySeq
  <2>2. q[1 + Len(p)] = p[Len(p)] /\ p[Len(p)] \notin Special
    <3>1. 1 + Len(p) \in 1 .. 1 + Len(p) /\ ~(1 + Len(p) <= 1) /\ 1 + Len(p) - 1 = Len(p) /\ Len(p) \in 1 .. Len(p)
      BY <2>1
    <3> QED
      BY <1>1, <1>3, <3>1
  <2>3. Pop(q, c) = Dirname(q)
    BY <1>4, <1>5, <1>8, <2>2 DEF Pop, Special
  <2>4. Dirname(q) = SubSeq(q, 1, Len(p))
    <3>1. Len(q) - 1 = Len(p)
      BY <1>1, <1>3
    <3> QED
      BY <1>3, <1>4, <3>1, DirnameIs
  <2>5. Enter(p, c) = SubSeq(p, 1, Len(p) - 1)
    BY <1>8 DEF Enter
  <2>6. PICK u : u = SubSeq(q, 1, Len(p))
    OBVIOUS
  <2>7. PICK v : v = SubSeq(p, 1, Len(p) - 1)
    OBVIOUS
  <2>8. u \in Seq(Components) /\ Len(u) = Len(p) /\ \A i \in 1 .. Len(p) : u[i] = q[i]
    <3>1. 1 \in Nat \ {0} /\ Len(p) \in Nat /\ Len(p) <= Len(q) /\ 1 <= Len(p) + 1
      BY <1>1, <1>3
    <3>2. /\ u \in Seq(Components) /\ Len(u) = Len(p) - 1 + 1
          /\ \A i \in 1 .. Len(p) - 1 + 1 : u[i] = q[1 + i - 1]
      BY <1>3, <2>6, <3>1, PartOf
    <3> QED
      BY <1>1, <3>2
  <2>9. v \in Seq(Components) /\ Len(v) = Len(p) - 1 /\ \A i \in 1 .. Len(p) - 1 : v[i] = p[i]
    <3>1. 1 \in Nat \ {0} /\ Len(p) - 1 \in Nat /\ Len(p) - 1 <= Len(p) /\ 1 <= Len(p) - 1 + 1
      BY <2>1
    <3>2. /\ v \in Seq(Components) /\ Len(v) = (Len(p) - 1) - 1 + 1
          /\ \A i \in 1 .. (Len(p) - 1) - 1 + 1 : v[i] = p[1 + i - 1]
      BY <1>1, <2>7, <3>1, PartOf
    <3> QED
      BY <2>1, <3>2
  <2>10. PICK w : w = Root \o v
    OBVIOUS
  <2>11. /\ w \in Seq(Components) /\ Len(w) = 1 + Len(v)
         /\ \A i \in 1 .. 1 + Len(v) : w[i] = IF i <= 1 THEN Root[i] ELSE v[i - 1]
    <3>1. /\ w \in Seq(Components) /\ Len(w) = Len(Root) + Len(v)
          /\ \A i \in 1 .. Len(Root) + Len(v) :
                w[i] = IF i <= Len(Root) THEN Root[i] ELSE v[i - Len(Root)]
      BY <1>1, <2>9, <2>10, ConcatProperties
    <3> QED
      BY <1>1, <3>1
  <2>12. ASSUME NEW i \in 1 .. Len(u)
         PROVE  u[i] = w[i]
    <3>1. i \in 1 .. Len(p) /\ i \in 1 .. 1 + Len(p) /\ i \in 1 .. 1 + Len(v)
      BY <2>1, <2>8, <2>9
    <3>2. CASE i <= 1
      BY <1>3, <2>8, <2>11, <3>1, <3>2
    <3>3. CASE ~(i <= 1)
      <4>1. i - 1 \in 1 .. Len(p) - 1
        BY <2>1, <3>1, <3>3
      <4> QED
        BY <1>3, <2>8, <2>9, <2>11, <3>1, <3>3, <4>1
    <3> QED
      BY <3>2, <3>3
  <2>13. u = w
    <3>1. Len(u) = Len(w)
      BY <2>1, <2>8, <2>9, <2>11
    <3> QED
      BY <2>8, <2>11, <2>12, <3>1, SeqEqual
  <2> QED
    BY <1>2, <2>3, <2>4, <2>5, <2>6, <2>7, <2>10, <2>13
<1> QED
  BY <1>6, <1>7, <1>8

\* mfu_path_reduce keeps where an absolute path leads, in one form.
LEMMA ReducedIs ==
    ASSUME PathsAssumption, NEW s \in Seq(Components), IsAbsolute(s)
    PROVE  ReducePath(s) = Root \o From(<<>>, s) /\ From(<<>>, s) \in Places
<1> DEFINE n == Len(s)
<1>0. s # <<>> /\ s[1] = ""
  BY DEF IsAbsolute
<1>1. n \in Nat \ {0} /\ \A k \in 1 .. n : s[k] \in Components
  <2>1. s # <<>>
    BY <1>0
  <2> QED
    BY <2>1, LenProperties, ElementOfSeq, EmptySeq
<1>2. <<>> \in Places /\ Root \in Seq(Components)
  BY PlacesAre
<1>3. PICK a \in [0 .. n -> Places] : /\ a[0] = <<>> /\ From(<<>>, s) = a[n]
                                      /\ \A k \in 1 .. n : a[k] = Enter(a[k - 1], s[k])
  BY <1>2, FromGoes
<1>4. PICK f \in [0 .. n -> Lists] :
         /\ f[0] = <<>> /\ Simple(s) = f[n]
         /\ \A k \in 1 .. n : f[k] = IF Kept(s, k) THEN Append(f[k - 1], s[k]) ELSE f[k - 1]
  BY SimpleSays
<1> HIDE DEF n
<1> DEFINE T == {k \in 0 .. n : k # 0 => Popped(f[k]) = Root \o a[k]}
<1>5. 0 \in T
  BY <1>1
<1>6. ASSUME NEW k \in 1 .. n, k - 1 \in T
      PROVE  Popped(f[k]) = Root \o a[k]
  <2>1. k - 1 \in 0 .. n /\ k \in 0 .. n /\ f[k - 1] \in Seq(Components) /\ a[k - 1] \in Places
    BY <1>1 DEF Lists
  <2>2. CASE k = 1
    <3>1. f[0] = <<>> /\ a[0] = <<>> /\ k - 1 = 0
      BY <1>3, <1>4, <2>2
    <3>2. Kept(s, 1)
      BY <1>0 DEF Kept
    <3>3. f[k] = Append(<<>>, "")
      <4>1. f[k] = Append(f[k - 1], s[k])
        BY <1>4, <2>2, <3>2
      <4> QED
        BY <1>0, <2>2, <3>1, <4>1
    <3>4. "" \in Components
      BY DEF PathsAssumption, Special
    <3>5. Popped(f[k]) = Pop(Popped(<<>>), "")
      BY <3>3, <3>4, PoppedOn, EmptySeq
    <3>6. Pop(Popped(<<>>), "") = Append(Popped(<<>>), "")
      BY DEF Pop
    <3>7. Popped(<<>>) = <<>>
      <4>1. PICK g \in [0 .. Len(NULL) -> Lists] :
                IsChain(g, Len(NULL), NULL, Popping(NULL)) /\ Popped(NULL) = g[Len(NULL)]
        BY PoppedSays, EmptySeq DEF NULL
      <4>2. Len(NULL) = 0
        BY EmptySeq DEF NULL
      <4>3. g[0] = NULL
        BY <4>1, <4>2 DEF IsChain
      <4> QED
        BY <4>1, <4>2, <4>3 DEF NULL
    <3>8. a[k] = <<>>
      <4>1. a[1] = Enter(<<>>, "")
        <5>1. a[k] = Enter(a[k - 1], s[k])
          BY <1>3
        <5> QED
          BY <1>0, <2>2, <3>1, <5>1
      <4> QED
        BY <2>2, <4>1 DEF Enter
    <3>9. Append(<<>>, "") = Root
      BY Twice DEF Root
    <3> QED
      BY <1>2, <3>5, <3>6, <3>7, <3>8, <3>9, ConcatEmptySeq
  <2>3. CASE k # 1 /\ Kept(s, k)
    <3>1. s[k] \in Components /\ s[k] \notin Stays
      BY <1>1, <2>3 DEF Kept, Stays
    <3>2. f[k] = Append(f[k - 1], s[k])
      BY <1>4, <2>3
    <3>3. Popped(f[k]) = Pop(Popped(f[k - 1]), s[k])
      BY <2>1, <3>1, <3>2, PoppedOn
    <3>4. Popped(f[k - 1]) = Root \o a[k - 1]
      BY <1>6, <2>3
    <3>5. a[k] = Enter(a[k - 1], s[k])
      BY <1>3
    <3>6. Pop(Root \o a[k - 1], s[k]) = Root \o Enter(a[k - 1], s[k])
      BY <2>1, <3>1, PopEnters
    <3> QED
      BY <3>3, <3>4, <3>5, <3>6
  <2>4. CASE ~Kept(s, k)
    <3>1. k # 1
      <4>1. Kept(s, 1)
        BY <1>0 DEF Kept
      <4> QED
        BY <2>4, <4>1
    <3>2. f[k] = f[k - 1]
      BY <1>4, <2>4
    <3>3. Popped(f[k - 1]) = Root \o a[k - 1]
      BY <1>6, <3>1
    <3>4. s[k] \in {"", "."}
      BY <2>4 DEF Kept
    <3>5. a[k] = Enter(a[k - 1], s[k])
      BY <1>3
    <3>6. Enter(a[k - 1], s[k]) = a[k - 1]
      BY <3>4 DEF Enter
    <3> QED
      BY <3>2, <3>3, <3>5, <3>6
  <2> QED
    BY <2>2, <2>3, <2>4
<1>7. \A k \in 0 .. n : k \in T
  <2>1. \A k \in 1 .. n : k - 1 \in T => k \in T
    <3> SUFFICES ASSUME NEW k \in 1 .. n, k - 1 \in T
                 PROVE  k \in T
      OBVIOUS
    <3>1. Popped(f[k]) = Root \o a[k]
      BY <1>6
    <3>2. k \in 0 .. n
      BY <1>1
    <3> QED
      BY <3>1, <3>2
  <2> HIDE DEF T
  <2> QED
    BY <1>1, <1>5, <2>1, AllNumbers
<1>8. Popped(f[n]) = Root \o a[n] /\ a[n] \in Places
  BY <1>1, <1>7
<1> QED
  BY <1>3, <1>4, <1>8 DEF ReducePath

\* What combining comes to.
LEMMA Combined ==
    ASSUME NEW p \in Seq(Components), NEW q \in Seq(Components)
    PROVE  Prepend(p, q) = q \o p /\ AppendPath(p, q) = p \o q
<1>1. Len(p) \in Nat /\ 0 + 1 = 1 /\ Len(p) + 1 > Len(p) /\ 0 < 1 /\ 1 \in Int /\ 0 \in Int
      /\ Len(p) + 1 \in Int
  BY LenProperties
<1>2. SubSeq(p, 1, 0) = <<>> /\ SubSeq(p, Len(p) + 1, Len(p)) = <<>>
  BY <1>1, SubSeqEmpty
<1>3. SubSeq(p, 1, Len(p)) = p
  BY SubSeqFull
<1>4. <<>> \o q = q /\ (p \o q) \in Seq(Components) /\ (p \o q) \o <<>> = p \o q
  BY ConcatEmptySeq, ConcatProperties
<1>5. Prepend(p, q) = (SubSeq(p, 1, 0) \o q) \o SubSeq(p, 0 + 1, Len(p))
  BY DEF Prepend, Insert
<1>6. AppendPath(p, q) = (SubSeq(p, 1, Len(p)) \o q) \o SubSeq(p, Len(p) + 1, Len(p))
  BY DEF AppendPath, Insert
<1> QED
  BY <1>1, <1>2, <1>3, <1>4, <1>5, <1>6

LEMMA RootedIs ==
    ASSUME PathsAssumption, NEW p \in Places
    PROVE  /\ Root \o p \in Seq(Components) /\ Len(Root \o p) = Len(p) + 1 /\ Len(p) \in Nat
           /\ \A k \in 1 .. Len(p) : (Root \o p)[k + 1] = p[k]
           /\ (Root \o p)[1] = Root[1] /\ IsAbsolute(Root \o p)
<1>1. p \in Seq(Components) /\ Root \in Seq(Components) /\ Len(Root) = 1 /\ Len(p) \in Nat
  BY PlacesAre, LenProperties DEF Places
<1>2. /\ Root \o p \in Seq(Components) /\ Len(Root \o p) = Len(Root) + Len(p)
      /\ \A i \in 1 .. Len(Root) + Len(p) :
            (Root \o p)[i] = IF i <= Len(Root) THEN Root[i] ELSE p[i - Len(Root)]
  BY <1>1, ConcatProperties
<1>3. PICK q : q = Root \o p
  OBVIOUS
<1>4. /\ q \in Seq(Components) /\ Len(q) = 1 + Len(p)
      /\ \A i \in 1 .. 1 + Len(p) : q[i] = IF i <= 1 THEN Root[i] ELSE p[i - 1]
  BY <1>1, <1>2, <1>3
<1>5. q[1] = Root[1] /\ q # <<>>
  BY <1>1, <1>4, EmptySeq
<1>6. \A k \in 1 .. Len(p) : q[k + 1] = p[k]
  <2> SUFFICES ASSUME NEW k \in 1 .. Len(p)
               PROVE  q[k + 1] = p[k]
    OBVIOUS
  <2>1. k + 1 \in 1 .. 1 + Len(p) /\ ~(k + 1 <= 1) /\ (k + 1) - 1 = k
    BY <1>1
  <2> QED
    BY <1>4, <2>1
<1>7. IsAbsolute(q)
  BY <1>5, PlacesAre DEF IsAbsolute
<1>8. Len(q) = Len(p) + 1
  BY <1>1, <1>4
<1> QED
  BY <1>1, <1>3, <1>4, <1>5, <1>6, <1>7, <1>8

\* The strings that arguments become.
LEMMA StringIs ==
    ASSUME PathsAssumption, NEW p \in Places
    PROVE  /\ Strdup(Root \o p) \in Seq(Components) /\ IsAbsolute(Strdup(Root \o p))
           /\ Location(Strdup(Root \o p)) = p
<1>1. CASE Root \o p # Root
  <2>1. Strdup(Root \o p) = Root \o p
    BY <1>1 DEF Strdup
  <2> QED
    BY <2>1, RootedIs, FromRooted DEF Location
<1>2. CASE Root \o p = Root
  <2>1. Strdup(Root \o p) = <<"", "">>
    BY <1>2 DEF Strdup
  <2>2. IsAbsolute(<<"", "">>)
    BY DEF IsAbsolute
  <2> QED
    BY <2>1, <2>2, PlacesAre, FromRooted DEF Location
<1> QED
  BY <1>1, <1>2

LEMMA AbsReduceIs ==
    ASSUME PathsAssumption, argv \in CommandArgs, NEW s \in Seq(Components), s # <<>>
    PROVE  AbsReduce(s) = Root \o Location(s) /\ Location(s) \in Places
<1>1. argv.cwd \in Seq(Components) /\ IsAbsolute(argv.cwd)
  BY DEF PathsAssumption, IsAbsolute
<1>2. CASE IsAbsolute(s)
  BY <1>2, ReducedIs DEF AbsReduce, Location
<1>3. CASE ~IsAbsolute(s)
  <2>1. PICK c : c = argv.cwd
    OBVIOUS
  <2>2. c \in Seq(Components) /\ IsAbsolute(c)
    BY <1>1, <2>1
  <2>3. Prepend(s, c) = c \o s /\ c \o s \in Seq(Components)
    BY <2>2, Combined, ConcatProperties
  <2>4. IsAbsolute(c \o s)
    <3>1. c # <<>> /\ Len(c) \in Nat \ {0} /\ Len(s) \in Nat
      BY <2>2, LenProperties, EmptySeq DEF IsAbsolute
    <3>2. PICK r : r = c \o s
      OBVIOUS
    <3>3. Len(r) = Len(c) + Len(s) /\ r \in Seq(Components) /\ r[1] = c[1]
      <4>1. /\ r \in Seq(Components) /\ Len(r) = Len(c) + Len(s)
            /\ \A i \in 1 .. Len(c) + Len(s) : r[i] = IF i <= Len(c) THEN c[i] ELSE s[i - Len(c)]
        BY <2>2, <3>2, ConcatProperties
      <4>2. 1 \in 1 .. Len(c) + Len(s) /\ 1 <= Len(c)
        BY <3>1
      <4> QED
        BY <4>1, <4>2
    <3>4. r # <<>>
      BY <3>1, <3>3, EmptySeq
    <3> QED
      BY <2>2, <3>2, <3>3, <3>4 DEF IsAbsolute
  <2>5. From(<<>>, c \o s) = From(From(<<>>, c), s)
    BY <2>2, PlacesAre, FromJoined
  <2>6. ReducePath(c \o s) = Root \o From(<<>>, c \o s) /\ From(<<>>, c \o s) \in Places
    BY <2>3, <2>4, ReducedIs
  <2>7. Location(s) = From(From(<<>>, c), s)
    BY <1>3, <2>1 DEF Location
  <2>8. AbsReduce(s) = ReducePath(c \o s)
    BY <1>3, <2>1, <2>3 DEF AbsReduce, FromStr
  <2> QED
    BY <2>5, <2>6, <2>7, <2>8
<1> QED
  BY <1>2, <1>3

LEMMA SharedIs ==
    ASSUME PathsAssumption, NEW p \in Places, NEW q \in Places
    PROVE  \E m \in Nat : /\ Shared(Root \o p, Root \o q) = m + 1 /\ m <= Len(p) /\ m <= Len(q)
                          /\ \A k \in 1 .. m : p[k] = q[k]
                          /\ m < Len(p) /\ m < Len(q) => p[m + 1] # q[m + 1]
<1>1. PICK a : a = Root \o p
  OBVIOUS
<1>2. PICK b : b = Root \o q
  OBVIOUS
<1>3. /\ Len(a) = Len(p) + 1 /\ Len(p) \in Nat /\ a[1] = Root[1]
      /\ \A k \in 1 .. Len(p) : a[k + 1] = p[k]
  BY <1>1, RootedIs
<1>4. /\ Len(b) = Len(q) + 1 /\ Len(q) \in Nat /\ b[1] = Root[1]
      /\ \A k \in 1 .. Len(q) : b[k + 1] = q[k]
  BY <1>2, RootedIs
<1> DEFINE both == {n \in 0 .. Len(a) : n <= Len(b) /\ \A k \in 1 .. n : a[k] = b[k]}
<1>5. 1 \in both
  BY <1>3, <1>4
<1>6. both \in SUBSET Nat /\ IsFiniteSet(both)
  <2>1. IsFiniteSet(0 .. Len(a))
    BY <1>3, FS_Interval
  <2>2. both \subseteq 0 .. Len(a)
    OBVIOUS
  <2> HIDE DEF both
  <2>3. 0 .. Len(a) \subseteq Nat
    BY <1>3
  <2> QED
    BY <2>1, <2>2, <2>3, FS_Subset
<1>7. Shared(a, b) = CHOOSE n \in both : \A m \in both : m <= n
  BY DEF Shared
<1>8. \E n \in both : \A m \in both : m <= n
  <2> HIDE DEF both
  <2> QED
    BY <1>5, <1>6, GreatestNumber
<1>9. PICK n : n = Shared(a, b)
  OBVIOUS
<1>10. n \in both /\ \A m \in both : m <= n
  <2> HIDE DEF both
  <2> QED
    BY <1>7, <1>8, <1>9
<1>11. n \in Nat \ {0} /\ n <= Len(a) /\ n <= Len(b) /\ \A k \in 1 .. n : a[k] = b[k]
  BY <1>3, <1>5, <1>10
<1>12. n < Len(a) /\ n < Len(b) => a[n + 1] # b[n + 1]
  <2> SUFFICES ASSUME n < Len(a), n < Len(b), a[n + 1] = b[n + 1]
               PROVE  FALSE
    OBVIOUS
  <2>1. \A k \in 1 .. n + 1 : a[k] = b[k]
    <3>1. \A k \in 1 .. n + 1 : k \in 1 .. n \/ k = n + 1
      BY <1>11
    <3> QED
      BY <1>11, <3>1
  <2>2. n + 1 \in 0 .. Len(a) /\ n + 1 <= Len(b) /\ ~(n + 1 <= n)
    BY <1>3, <1>4, <1>11
  <2>3. n + 1 \in both
    BY <2>1, <2>2
  <2> QED
    BY <1>10, <2>2, <2>3
<1>13. PICK m \in Nat : n = m + 1
  <2>1. n - 1 \in Nat /\ n = (n - 1) + 1
    BY <1>11
  <2> QED
    BY <2>1
<1>14. m <= Len(p) /\ m <= Len(q)
  BY <1>3, <1>4, <1>11, <1>13
<1>15. \A k \in 1 .. m : p[k] = q[k]
  <2> SUFFICES ASSUME NEW k \in 1 .. m
               PROVE  p[k] = q[k]
    OBVIOUS
  <2>1. k \in 1 .. Len(p) /\ k \in 1 .. Len(q) /\ k + 1 \in 1 .. n
    BY <1>3, <1>4, <1>13, <1>14
  <2> QED
    BY <1>3, <1>4, <1>11, <2>1
<1>16. m < Len(p) /\ m < Len(q) => p[m + 1] # q[m + 1]
  <2> SUFFICES ASSUME m < Len(p), m < Len(q)
               PROVE  p[m + 1] # q[m + 1]
    OBVIOUS
  <2>1. m + 1 \in 1 .. Len(p) /\ m + 1 \in 1 .. Len(q) /\ n < Len(a) /\ n < Len(b)
    BY <1>3, <1>4, <1>13
  <2>2. a[n + 1] = p[m + 1] /\ b[n + 1] = q[m + 1]
    BY <1>3, <1>4, <1>13, <2>1
  <2> QED
    BY <1>12, <2>1, <2>2
<1> QED
  BY <1>1, <1>2, <1>9, <1>13, <1>14, <1>15, <1>16

LEMMA WithinIs ==
    ASSUME NEW p \in Places, NEW q \in Places
    PROVE  /\ IsWithin(p, q) <=> Len(q) <= Len(p) /\ \A k \in 1 .. Len(q) : p[k] = q[k]
           /\ p = q <=> Len(q) = Len(p) /\ \A k \in 1 .. Len(q) : p[k] = q[k]
<1>1. p \in Seq(Components) /\ q \in Seq(Components) /\ Len(p) \in Nat /\ Len(q) \in Nat
  BY LenProperties DEF Places
<1>2. ASSUME Len(q) <= Len(p)
      PROVE  SubSeq(p, 1, Len(q)) = q <=> \A k \in 1 .. Len(q) : p[k] = q[k]
  <2>1. PICK u : u = SubSeq(p, 1, Len(q))
    OBVIOUS
  <2>2. /\ u \in Seq(Components) /\ Len(u) = Len(q) - 1 + 1
        /\ \A i \in 1 .. Len(q) - 1 + 1 : u[i] = p[1 + i - 1]
    <3>1. 1 \in Nat \ {0} /\ 1 <= Len(q) + 1
      BY <1>1
    <3> QED
      BY <1>1, <1>2, <2>1, <3>1, PartOf
  <2>3. Len(u) = Len(q) /\ \A i \in 1 .. Len(q) : u[i] = p[i]
    BY <1>1, <2>2
  <2>4. u = q <=> \A k \in 1 .. Len(q) : u[k] = q[k]
    BY <1>1, <2>2, <2>3, SeqEqual
  <2> QED
    BY <2>1, <2>3, <2>4
<1>3. p = q <=> Len(q) = Len(p) /\ \A k \in 1 .. Len(q) : p[k] = q[k]
  BY <1>1, SeqEqual
<1> QED
  BY <1>2, <1>3 DEF IsWithin

\* mfu_path_cmp tells how two places lie.
LEMMA CmpIs ==
    ASSUME PathsAssumption, NEW p \in Places, NEW q \in Places
    PROVE  Cmp(Root \o p, Root \o q) = IF p = q THEN "EQUAL"
                                       ELSE IF IsWithin(p, q) THEN "SRC_CHILD"
                                       ELSE IF IsWithin(q, p) THEN "DEST_CHILD"
                                       ELSE "DIFF"
<1>1. PICK m \in Nat : /\ Shared(Root \o p, Root \o q) = m + 1 /\ m <= Len(p) /\ m <= Len(q)
                       /\ \A k \in 1 .. m : p[k] = q[k]
                       /\ m < Len(p) /\ m < Len(q) => p[m + 1] # q[m + 1]
  BY SharedIs
<1>2. /\ Len(Root \o p) = Len(p) + 1 /\ Len(Root \o q) = Len(q) + 1
      /\ Len(p) \in Nat /\ Len(q) \in Nat
  BY RootedIs
<1>3. /\ p = q <=> m = Len(p) /\ m = Len(q)
      /\ IsWithin(p, q) <=> m = Len(q)
      /\ IsWithin(q, p) <=> m = Len(p)
  <2>1. ASSUME m < Len(p), m < Len(q)
        PROVE  ~IsWithin(p, q) /\ ~IsWithin(q, p) /\ p # q
    <3>1. m + 1 \in 1 .. Len(p) /\ m + 1 \in 1 .. Len(q)
      BY <1>2, <2>1
    <3> QED
      BY <1>1, <2>1, <3>1, WithinIs
  <2>2. IsWithin(p, q) => m = Len(q)
    <3>1. Len(q) <= Len(p) /\ m # Len(q) => m < Len(p) /\ m < Len(q)
      BY <1>1, <1>2
    <3> QED
      BY <2>1, <3>1, WithinIs
  <2>3. IsWithin(q, p) => m = Len(p)
    <3>1. Len(p) <= Len(q) /\ m # Len(p) => m < Len(p) /\ m < Len(q)
      BY <1>1, <1>2
    <3> QED
      BY <2>1, <3>1, WithinIs
  <2>4. m = Len(q) => IsWithin(p, q)
    BY <1>1, WithinIs
  <2>5. m = Len(p) => IsWithin(q, p)
    BY <1>1, WithinIs
  <2>6. p = q => m = Len(p) /\ m = Len(q)
    <3>1. p = q => IsWithin(p, q) /\ IsWithin(q, p)
      BY <1>2, WithinIs
    <3> QED
      BY <2>2, <2>3, <3>1
  <2>7. m = Len(p) /\ m = Len(q) => p = q
    BY <1>1, WithinIs
  <2> QED
    BY <2>2, <2>3, <2>4, <2>5, <2>6, <2>7
<1>4. /\ m + 1 < Len(Root \o p) <=> m # Len(p)
      /\ m + 1 < Len(Root \o q) <=> m # Len(q)
  BY <1>1, <1>2
<1> QED
  BY <1>1, <1>3, <1>4 DEF Cmp

\* A sequence is its first elements and the rest.
LEMMA TwoParts ==
    ASSUME PathsAssumption, NEW s \in Seq(Components), NEW m \in 0 .. Len(s)
    PROVE  SubSeq(s, 1, m) \o SubSeq(s, m + 1, Len(s)) = s
<1>1. Len(s) \in Nat
  BY LenProperties
<1>2. 1 \in 1 .. Len(s) + 1 /\ m \in 1 - 1 .. Len(s) /\ Len(s) \in m .. Len(s)
  BY <1>1
<1>3. SubSeq(s, 1, m) \o SubSeq(s, m + 1, Len(s)) = SubSeq(s, 1, Len(s))
  BY <1>2, ConcatAdjacentSubSeq
<1> QED
  BY <1>3, SubSeqFull

\* What follows the first part of two that are joined.
LEMMA Dropped ==
    ASSUME PathsAssumption, NEW s \in Seq(Components), NEW t \in Seq(Components), NEW m \in 0 .. Len(t)
    PROVE  SubSeq(s \o t, Len(s) + m + 1, Len(s) + Len(t)) = SubSeq(t, m + 1, Len(t))
<1>1. PICK u : u = s \o t
  OBVIOUS
<1>2. /\ Len(s) \in Nat /\ Len(t) \in Nat /\ u \in Seq(Components) /\ Len(u) = Len(s) + Len(t)
      /\ \A i \in 1 .. Len(s) + Len(t) : u[i] = IF i <= Len(s) THEN s[i] ELSE t[i - Len(s)]
  BY <1>1, LenProperties, ConcatProperties
<1>3. PICK a \in Nat : a = Len(s)
  BY <1>2
<1>4. PICK b \in Nat : b = Len(t)
  BY <1>2
<1>5. PICK v : v = SubSeq(u, a + m + 1, a + b)
  OBVIOUS
<1>6. PICK w : w = SubSeq(t, m + 1, b)
  OBVIOUS
<1>7. /\ v \in Seq(Components) /\ Len(v) = (a + b) - (a + m + 1) + 1
      /\ \A i \in 1 .. (a + b) - (a + m + 1) + 1 : v[i] = u[(a + m + 1) + i - 1]
  <2>1. a + m + 1 \in Nat \ {0} /\ a + b \in Nat /\ a + b <= Len(u) /\ a + m + 1 <= (a + b) + 1
    BY <1>2, <1>3, <1>4
  <2> QED
    BY <1>2, <1>5, <2>1, PartOf
<1>8. /\ w \in Seq(Components) /\ Len(w) = b - (m + 1) + 1
      /\ \A i \in 1 .. b - (m + 1) + 1 : w[i] = t[(m + 1) + i - 1]
  <2>1. m + 1 \in Nat \ {0} /\ b <= Len(t) /\ m + 1 <= b + 1
    BY <1>2, <1>4
  <2> QED
    BY <1>6, <2>1, PartOf
<1>9. Len(v) = b - m /\ Len(w) = b - m
  BY <1>4, <1>7, <1>8
<1>10. ASSUME NEW i \in 1 .. b - m
       PROVE  v[i] = w[i]
  <2>1. /\ i \in 1 .. (a + b) - (a + m + 1) + 1 /\ i \in 1 .. b - (m + 1) + 1
        /\ (a + m + 1) + i - 1 = a + m + i /\ (m + 1) + i - 1 = m + i
    BY <1>4
  <2>2. v[i] = u[a + m + i] /\ w[i] = t[m + i]
    BY <1>7, <1>8, <2>1
  <2>3. a + m + i \in 1 .. a + b /\ ~(a + m + i <= a) /\ (a + m + i) - a = m + i
    BY <1>4
  <2>4. u[a + m + i] = t[(a + m + i) - a]
    BY <1>2, <1>3, <1>4, <2>3
  <2> QED
    BY <2>2, <2>3, <2>4
<1>11. v = w
  BY <1>7, <1>8, <1>9, <1>10, SeqEqual
<1> QED
  BY <1>1, <1>3, <1>4, <1>5, <1>6, <1>11

\* The relative path between two places leads from the one to the other.
LEMMA RelativeIs ==
    ASSUME PathsAssumption, NEW p \in Places, NEW q \in Places
    PROVE  From(p, Relative(Root \o p, Root \o q)) = q
<1>1. PICK m \in Nat : /\ Shared(Root \o p, Root \o q) = m + 1 /\ m <= Len(p) /\ m <= Len(q)
                       /\ \A k \in 1 .. m : p[k] = q[k]
  BY SharedIs
<1>2. /\ Len(Root \o p) = Len(p) + 1 /\ Len(Root \o q) = Len(q) + 1
      /\ Len(p) \in Nat /\ Len(q) \in Nat
  BY RootedIs
<1>3. p \in Seq(Components) /\ q \in Seq(Components) /\ Root \in Seq(Components) /\ Len(Root) = 1
  BY PlacesAre
<1>4. PICK n : n = Len(p) - m
  OBVIOUS
<1>5. n \in Nat /\ n \in 0 .. Len(p) /\ (Len(p) + 1) - (m + 1) = n /\ Len(p) - n = m
  BY <1>1, <1>2, <1>4
<1>6. PICK ups : ups = [i \in 1 .. n |-> ".."]
  OBVIOUS
<1>7. ups \in Seq(Components)
  <2>1. ".." \in Components
    BY DEF PathsAssumption, Special
  <2> QED
    BY <1>5, <1>6, <2>1, Repeated
<1>8. PICK rest : rest = SubSeq(q, m + 1, Len(q))
  OBVIOUS
<1>9. SubSeq(Root \o q, (m + 1) + 1, Len(q) + 1) = rest
  <2>1. m \in 0 .. Len(q)
    BY <1>1, <1>2
  <2>2. SubSeq(Root \o q, Len(Root) + m + 1, Len(Root) + Len(q)) = rest
    BY <1>3, <1>8, <2>1, Dropped
  <2>3. 1 + m + 1 = (m + 1) + 1 /\ 1 + Len(q) = Len(q) + 1
    BY <1>2
  <2> QED
    BY <1>3, <2>2, <2>3
<1>10. rest \in Places
  <2>1. m + 1 \in Nat \ {0} /\ Len(q) <= Len(q) /\ m + 1 <= Len(q) + 1
    BY <1>1, <1>2
  <2>2. /\ rest \in Seq(Components) /\ Len(rest) = Len(q) - (m + 1) + 1
        /\ \A i \in 1 .. Len(q) - (m + 1) + 1 : rest[i] = q[(m + 1) + i - 1]
    BY <1>2, <1>3, <1>8, <2>1, PartOf
  <2>3. \A i \in 1 .. Len(q) - (m + 1) + 1 : (m + 1) + i - 1 \in 1 .. Len(q)
    BY <1>1, <1>2
  <2>4. \A i \in 1 .. Len(rest) : rest[i] \notin Special
    BY <2>2, <2>3 DEF Places
  <2> QED
    BY <2>2, <2>4 DEF Places
<1>11. Relative(Root \o p, Root \o q) = ups \o rest
  <2>1. Relative(Root \o p, Root \o q) = AppendPath(ups, rest)
    BY <1>1, <1>2, <1>5, <1>6, <1>9 DEF Relative
  <2>2. rest \in Seq(Components)
    BY <1>10, PlacesAre
  <2> QED
    BY <1>7, <2>1, <2>2, Combined
<1>12. From(p, ups) = SubSeq(p, 1, m)
  BY <1>5, <1>6, FromUp
<1>13. SubSeq(p, 1, m) = SubSeq(q, 1, m) /\ SubSeq(q, 1, m) \in Places
  <2>1. 1 \in Nat \ {0} /\ 1 <= m + 1
    BY <1>1
  <2>2. PICK v : v = SubSeq(p, 1, m)
    OBVIOUS
  <2>3. PICK w : w = SubSeq(q, 1, m)
    OBVIOUS
  <2>4. /\ v \in Seq(Components) /\ Len(v) = m - 1 + 1 /\ \A i \in 1 .. m - 1 + 1 : v[i] = p[1 + i - 1]
    BY <1>1, <1>3, <2>1, <2>2, PartOf
  <2>5. /\ w \in Seq(Components) /\ Len(w) = m - 1 + 1 /\ \A i \in 1 .. m - 1 + 1 : w[i] = q[1 + i - 1]
    BY <1>1, <1>3, <2>1, <2>3, PartOf
  <2>6. m - 1 + 1 = m /\ \A i \in 1 .. m : 1 + i - 1 = i /\ i \in 1 .. Len(q)
    BY <1>1, <1>2
  <2>7. Len(v) = Len(w) /\ \A i \in 1 .. Len(v) : v[i] = w[i]
    BY <1>1, <2>4, <2>5, <2>6
  <2>8. \A i \in 1 .. Len(w) : w[i] \notin Special
    BY <2>5, <2>6 DEF Places
  <2> QED
    BY <2>2, <2>3, <2>4, <2>5, <2>7, <2>8, SeqEqual DEF Places
<1>14. From(p, ups \o rest) = From(From(p, ups), rest)
  BY <1>7, <1>10, PlacesAre, FromJoined
<1>15. SubSeq(q, 1, m) \o rest = q
  <2>1. m \in 0 .. Len(q)
    BY <1>1, <1>2
  <2> QED
    BY <1>3, <1>8, <2>1, TwoParts
<1>16. PICK u \in Places : u = SubSeq(q, 1, m)
  BY <1>13
<1>17. From(u, rest) = u \o rest
  BY <1>10, FromNames
<1> QED
  BY <1>11, <1>12, <1>13, <1>14, <1>15, <1>16, <1>17

LEMMA Modulo ==
    ASSUME NEW n \in Nat \ {0}
    PROVE  n % n = 0 /\ \A m \in 0 .. n - 1 : m % n = m
<1>1. n % n = 0
  OBVIOUS
<1>2. ASSUME NEW m \in 0 .. n - 1
      PROVE  m % n = m
  OBVIOUS
<1> QED
  BY <1>1, <1>2

\* The rest of a list from one of its components on, or nothing.
LEMMA SliceIs ==
    ASSUME PathsAssumption, NEW item \in Seq(Components), item # <<>>, NEW cut \in 0 .. Len(item)
    PROVE  Slice(item, cut, Len(item) - cut) = SubSeq(item, cut + 1, Len(item))
<1>1. Len(item) \in Nat \ {0} /\ cut \in Nat
  BY EmptySeq, LenProperties
<1>2. CASE cut = Len(item)
  <2>1. cut % Len(item) = 0
    BY <1>1, <1>2, Modulo
  <2>2. ~(Len(item) - cut < 0 \/ 0 + (Len(item) - cut) > Len(item)) /\ 0 + (Len(item) - cut) = 0
    BY <1>1, <1>2
  <2>3. Slice(item, cut, Len(item) - cut) = SubSeq(item, 0 + 1, 0)
    BY <2>1, <2>2 DEF Slice
  <2>4. /\ 0 + 1 \in Int /\ 0 \in Int /\ 0 < 0 + 1
        /\ cut + 1 \in Int /\ Len(item) \in Int /\ Len(item) < cut + 1
    BY <1>1, <1>2
  <2>5. SubSeq(item, 0 + 1, 0) = <<>> /\ SubSeq(item, cut + 1, Len(item)) = <<>>
    BY <2>4, SubSeqEmpty
  <2> QED
    BY <2>3, <2>5
<1>3. CASE cut # Len(item)
  <2>1. cut % Len(item) = cut
    BY <1>1, <1>3, Modulo
  <2>2. ~(Len(item) - cut < 0 \/ cut + (Len(item) - cut) > Len(item)) /\ cut + (Len(item) - cut) = Len(item)
    BY <1>1, <1>3
  <2> QED
    BY <2>1, <2>2 DEF Slice
<1> QED
  BY <1>2, <1>3

\* What lies below a place, as the rest of its string.
LEMMA RestIs ==
    ASSUME PathsAssumption, NEW p \in Places, NEW below \in Places
    PROVE  LET item == (Root \o p) \o below
           IN  /\ item \in Seq(Components) /\ Len(item) = Len(p) + 1 + Len(below)
               /\ SubSeq(item, Len(p) + 1 + 1, Len(item)) = below
               /\ p # <<>> => SubSeq(item, Len(p) + 1, Len(item)) = <<p[Len(p)]>> \o below
<1>1. /\ p \in Seq(Components) /\ below \in Seq(Components) /\ Root \in Seq(Components)
      /\ Len(Root) = 1 /\ Len(p) \in Nat /\ Len(below) \in Nat
  BY PlacesAre, LenProperties
<1>2. PICK r : r = Root \o p
  OBVIOUS
<1>3. r \in Seq(Components) /\ Len(r) = Len(p) + 1
  BY <1>2, RootedIs
<1>4. PICK item : item = r \o below
  OBVIOUS
<1>5. item \in Seq(Components) /\ Len(item) = Len(r) + Len(below)
  BY <1>1, <1>3, <1>4, ConcatProperties
<1>6. SubSeq(item, Len(p) + 1 + 1, Len(item)) = below
  <2>1. 0 \in 0 .. Len(below) /\ 0 + 1 = 1 /\ Len(r) + 0 + 1 = Len(p) + 1 + 1
    BY <1>1, <1>3
  <2>2. SubSeq(r \o below, Len(r) + 0 + 1, Len(r) + Len(below)) = SubSeq(below, 0 + 1, Len(below))
    BY <1>1, <1>3, <2>1, Dropped
  <2>3. SubSeq(below, 1, Len(below)) = below
    BY <1>1, SubSeqFull
  <2> QED
    BY <1>4, <1>5, <2>1, <2>2, <2>3
<1>7. ASSUME p # <<>>
      PROVE  SubSeq(item, Len(p) + 1, Len(item)) = <<p[Len(p)]>> \o below
  <2>1. Len(p) \in Nat \ {0}
    BY <1>1, <1>7, EmptySeq
  <2>2. 1 \in 1 .. Len(p) /\ Len(p) \in 1 .. Len(p) /\ Len(p) \in 1 .. Len(p)
    BY <2>1
  <2>3. PICK f : f = SubSeq(p, 1, Len(p) - 1)
    OBVIOUS
  <2>4. PICK x : x = <<p[Len(p)]>>
    OBVIOUS
  <2>5. x \in Seq(Components) /\ Len(x) = 1
    <3>1. p[Len(p)] \in Components
      BY <1>1, <2>2, ElementOfSeq
    <3> QED
      BY <2>4, <3>1, Alone
  <2>6. p = f \o x
    <3>1. SubSeq(p, 1, Len(p)) = f \o x
      BY <1>1, <2>2, <2>3, <2>4, SubSeqRecursiveSecond
    <3> QED
      BY <1>1, <3>1, SubSeqFull
  <2>7. f \in Seq(Components) /\ Len(f) = Len(p) - 1
    <3>1. 1 \in Nat \ {0} /\ Len(p) - 1 \in Nat /\ Len(p) - 1 <= Len(p) /\ 1 <= (Len(p) - 1) + 1
          /\ (Len(p) - 1) - 1 + 1 = Len(p) - 1
      BY <2>1
    <3> QED
      BY <1>1, <2>3, <3>1, PartOf
  <2>8. PICK g : g = Root \o f
    OBVIOUS
  <2>9. g \in Seq(Components) /\ Len(g) = Len(p)
    <3>1. g \in Seq(Components) /\ Len(g) = Len(Root) + Len(f)
      BY <1>1, <2>7, <2>8, ConcatProperties
    <3> QED
      BY <1>1, <2>1, <2>7, <3>1
  <2>10. r = g \o x
    BY <1>1, <1>2, <2>5, <2>6, <2>7, <2>8, ConcatAssociative
  <2>11. PICK t : t = x \o below
    OBVIOUS
  <2>12. t \in Seq(Components) /\ Len(t) = 1 + Len(below)
    BY <1>1, <2>5, <2>11, ConcatProperties
  <2>13. item = g \o t
    <3>1. g \in Seq(Components) /\ x \in Seq(Components) /\ below \in Seq(Components)
      BY <1>1, <2>5, <2>9
    <3>2. (g \o x) \o below = g \o (x \o below)
      BY <3>1, ConcatAssociative
    <3> QED
      BY <1>4, <2>10, <2>11, <3>2
  <2>14. /\ 0 \in 0 .. Len(t) /\ 0 + 1 = 1 /\ Len(g) + 0 + 1 = Len(p) + 1
         /\ Len(item) = Len(g) + Len(t)
    BY <1>1, <1>3, <1>5, <2>9, <2>12
  <2>15. SubSeq(g \o t, Len(g) + 0 + 1, Len(g) + Len(t)) = SubSeq(t, 0 + 1, Len(t))
    BY <2>9, <2>12, <2>14, Dropped
  <2>16. SubSeq(t, 1, Len(t)) = t
    BY <2>12, SubSeqFull
  <2> QED
    BY <2>4, <2>11, <2>13, <2>14, <2>15, <2>16
<1>8. Len(item) = Len(p) + 1 + Len(below)
  BY <1>3, <1>5
<1> QED
  BY <1>2, <1>4, <1>5, <1>6, <1>7, <1>8

\* Where a string leads that continues another's.
LEMMA LeadsOn ==
    ASSUME PathsAssumption, NEW q \in Places, NEW rest \in Seq(Components)
    PROVE  Location(Strdup(Strdup(Root \o q) \o rest)) = From(q, rest)
<1>1. PICK d : d = Strdup(Root \o q)
  OBVIOUS
<1>2. d \in Seq(Components) /\ IsAbsolute(d) /\ From(<<>>, d) = q
  BY <1>1, StringIs, FromRooted
<1>3. PICK s : s = d \o rest
  OBVIOUS
<1>4. s \in Seq(Components) /\ IsAbsolute(s)
  <2>1. Len(d) \in Nat \ {0} /\ Len(rest) \in Nat
    BY <1>2, EmptySeq, LenProperties DEF IsAbsolute
  <2>2. /\ s \in Seq(Components) /\ Len(s) = Len(d) + Len(rest)
        /\ \A i \in 1 .. Len(d) + Len(rest) : s[i] = IF i <= Len(d) THEN d[i] ELSE rest[i - Len(d)]
    BY <1>2, <1>3, ConcatProperties
  <2>3. 1 \in 1 .. Len(d) + Len(rest) /\ 1 <= Len(d) /\ Len(s) # 0
    BY <2>1, <2>2
  <2>4. s[1] = d[1] /\ s # <<>>
    BY <2>2, <2>3, EmptySeq
  <2> QED
    BY <1>2, <2>2, <2>4 DEF IsAbsolute
<1>5. <<>> \in Places
  BY PlacesAre
<1>6. From(<<>>, s) = From(q, rest)
  BY <1>2, <1>3, <1>5, FromJoined
<1>7. Location(s) = From(<<>>, s)
  BY <1>4 DEF Location
<1>8. CASE s = Root
  <2>1. Strdup(s) = <<"", "">> /\ IsAbsolute(<<"", "">>)
    BY <1>8 DEF Strdup, IsAbsolute
  <2>2. Location(Strdup(s)) = From(<<>>, <<"", "">>)
    BY <2>1 DEF Location
  <2>3. Root \o <<>> = Root
    BY PlacesAre, ConcatEmptySeq
  <2>4. Strdup(Root) = <<"", "">>
    BY DEF Strdup
  <2>5. From(<<>>, Root) = <<>> /\ From(<<>>, <<"", "">>) = <<>>
    BY <1>5, <2>3, <2>4, FromRooted
  <2> QED
    BY <1>1, <1>3, <1>6, <1>8, <2>2, <2>5
<1>9. CASE s # Root
  BY <1>1, <1>3, <1>6, <1>7, <1>9 DEF Strdup
<1> QED
  BY <1>8, <1>9

\* Only the root has one component, or an empty one after the first.
LEMMA LongPath ==
    ASSUME PathsAssumption, NEW p \in Places, p # <<>>
    PROVE  Strdup(Root \o p) = Root \o p /\ Root \o p # <<"", "">>
<1>1. PICK s : s = Root \o p
  OBVIOUS
<1>2. Len(s) = Len(p) + 1 /\ Len(p) \in Nat \ {0}
  BY <1>1, PlacesAre, RootedIs, EmptySeq
<1>3. s # Root
  <2>1. Len(s) # 1
    BY <1>2
  <2>2. Len(Root) = 1
    BY PlacesAre
  <2> QED
    BY <2>1, <2>2
<1>4. s # <<"", "">>
  <2>1. PICK e : e = <<"", "">>
    OBVIOUS
  <2>2. Len(e) = 2 /\ e[2] \in Special
    BY <2>1 DEF Special
  <2>3. 1 \in 1 .. Len(p) /\ 1 + 1 = 2
    BY <1>2
  <2>4. s[1 + 1] = p[1] /\ p[1] \notin Special
    BY <1>1, <2>3, RootedIs DEF Places
  <2>5. s # e
    BY <2>2, <2>3, <2>4
  <2> QED
    BY <2>1, <2>5
<1> QED
  BY <1>1, <1>3, <1>4 DEF Strdup

\* An item's name begins with the string of its source.
LEMMA BeginsOwn ==
    ASSUME PathsAssumption, NEW p \in Places, NEW below \in Places
    PROVE  Begins(Strdup(Root \o p), NameOf(Strdup(Root \o p), below))
<1>1. p \in Seq(Components) /\ below \in Seq(Components) /\ Root \in Seq(Components)
  BY PlacesAre
<1>2. CASE p # <<>>
  <2>1. PICK s : s = Root \o p
    OBVIOUS
  <2>2. s \in Seq(Components) /\ Len(s) = Len(p) + 1 /\ Len(p) \in Nat \ {0}
    BY <1>1, <1>2, <2>1, RootedIs, EmptySeq
  <2>3. Strdup(Root \o p) = s /\ s # <<"", "">>
    BY <1>2, <2>1, LongPath
  <2>4. NameOf(s, below) = s \o below
    BY <2>3 DEF NameOf
  <2>5. PICK t : t = s \o below
    OBVIOUS
  <2>6. /\ Len(below) \in Nat /\ t \in Seq(Components) /\ Len(t) = Len(s) + Len(below)
        /\ \A k \in 1 .. Len(s) + Len(below) : t[k] = IF k <= Len(s) THEN s[k] ELSE below[k - Len(s)]
    BY <1>1, <2>2, <2>5, LenProperties, ConcatProperties
  <2>7. Len(s) <= Len(t) /\ \A k \in 1 .. Len(s) : t[k] = s[k]
    BY <2>2, <2>6
  <2>8. SubSeq(s, 1, Len(s) - 1) = SubSeq(t, 1, Len(s) - 1)
    <3>1. PICK n \in Nat : n = Len(s) - 1
      BY <2>2
    <3>2. /\ 1 \in Nat \ {0} /\ n <= Len(s) /\ n <= Len(t) /\ 1 <= n + 1 /\ n - 1 + 1 = n
          /\ \A k \in 1 .. n : 1 + k - 1 = k /\ k \in 1 .. Len(s)
      BY <2>2, <2>7, <3>1
    <3>3. PICK v : v = SubSeq(s, 1, n)
      OBVIOUS
    <3>4. PICK w : w = SubSeq(t, 1, n)
      OBVIOUS
    <3>5. v \in Seq(Components) /\ Len(v) = n - 1 + 1 /\ \A k \in 1 .. n - 1 + 1 : v[k] = s[1 + k - 1]
      BY <2>2, <3>2, <3>3, PartOf
    <3>6. w \in Seq(Components) /\ Len(w) = n - 1 + 1 /\ \A k \in 1 .. n - 1 + 1 : w[k] = t[1 + k - 1]
      BY <2>6, <3>2, <3>4, PartOf
    <3>7. Len(v) = Len(w) /\ \A k \in 1 .. Len(v) : v[k] = w[k]
      BY <2>7, <3>2, <3>5, <3>6
    <3>8. v = w
      BY <3>5, <3>6, <3>7, SeqEqual
    <3> QED
      BY <3>1, <3>3, <3>4, <3>8
  <2>9. s[Len(s)] = t[Len(s)]
    BY <2>2, <2>7
  <2> QED
    BY <2>3, <2>4, <2>5, <2>7, <2>8, <2>9 DEF Begins
<1>3. CASE p = <<>>
  <2>1. Root \o p = Root
    BY <1>1, <1>3, ConcatEmptySeq
  <2>2. PICK s : s = <<"", "">>
    OBVIOUS
  <2>3. Strdup(Root \o p) = s
    BY <2>1, <2>2 DEF Strdup
  <2>4. s \in Seq(Components) /\ Len(s) = 2 /\ s[2] = ""
    BY <2>2, PlacesAre
  <2>5. CASE below = <<>>
    <3>1. NameOf(s, below) = s
      BY <2>4, <2>5, ConcatEmptySeq DEF NameOf
    <3>2. Len(s) <= Len(s)
      <4>1. Len(s) = 2
        BY <2>4
      <4> QED
        BY <4>1
    <3> QED
      BY <2>3, <3>1, <3>2 DEF Begins
  <2>6. CASE below # <<>>
    <3>1. NameOf(s, below) = Root \o below
      BY <2>2, <2>6 DEF NameOf
    <3>2. PICK t : t = Root \o below
      OBVIOUS
    <3>3. Len(t) = Len(below) + 1 /\ Len(below) \in Nat \ {0} /\ t[1] = Root[1]
      BY <1>1, <2>6, <3>2, RootedIs, EmptySeq
    <3>4. s[1] = Root[1]
      BY <2>2 DEF Root
    <3>5. SubSeq(s, 1, 1) = SubSeq(t, 1, 1)
      <4>1. PICK v : v = SubSeq(s, 1, 1)
        OBVIOUS
      <4>2. PICK w : w = SubSeq(t, 1, 1)
        OBVIOUS
      <4>3. t \in Seq(Components)
        BY <3>2, RootedIs
      <4>0. Len(s) = 2
        BY <2>4
      <4>4. /\ 1 \in Nat \ {0} /\ 1 <= Len(s) /\ 1 <= Len(t) /\ 1 <= 1 + 1 /\ 1 - 1 + 1 = 1
            /\ 1 + 1 - 1 = 1
        <5>1. 1 <= Len(s) /\ 1 <= Len(t)
          BY <3>3, <4>0
        <5> QED
          BY <5>1
      <4>5. v \in Seq(Components) /\ Len(v) = 1 - 1 + 1 /\ \A k \in 1 .. 1 - 1 + 1 : v[k] = s[1 + k - 1]
        BY <2>4, <4>1, <4>4, PartOf
      <4>6. w \in Seq(Components) /\ Len(w) = 1 - 1 + 1 /\ \A k \in 1 .. 1 - 1 + 1 : w[k] = t[1 + k - 1]
        BY <4>2, <4>3, <4>4, PartOf
      <4>7. Len(v) = Len(w) /\ \A k \in 1 .. Len(v) : v[k] = w[k]
        BY <3>3, <3>4, <4>5, <4>6
      <4>8. v = w
        BY <4>5, <4>6, <4>7, SeqEqual
      <4> QED
        BY <4>1, <4>2, <4>8
    <3>6. Len(s) <= Len(t) /\ Len(s) - 1 = 1
      <4>1. Len(s) = 2
        BY <2>4
      <4> QED
        BY <3>3, <4>1
    <3>7. s[Len(s)] = ""
      BY <2>4
    <3>8. s[Len(s)] \in {"", t[Len(s)]}
      BY <3>7
    <3> QED
      BY <2>3, <3>1, <3>2, <3>5, <3>6, <3>8 DEF Begins
  <2> QED
    BY <2>5, <2>6
<1> QED
  BY <1>2, <1>3

LEMMA BelowAre ==
    ASSUME PathsAssumption
    PROVE  ItemsBelow \subseteq Places
<1> SUFFICES ASSUME NEW b \in ItemsBelow
             PROVE  b \in Places
  OBVIOUS
<1>1. b \in Seq(Components) /\ \A k \in DOMAIN b : b[k] \notin Special
  BY DEF PathsAssumption
<1>2. DOMAIN b = 1 .. Len(b)
  BY <1>1, LenProperties
<1> QED
  BY <1>1, <1>2 DEF Places

\* The string of a place, and the name of an item below it.
LEMMA NameIs ==
    ASSUME PathsAssumption, NEW p \in Places, NEW below \in Places
    PROVE  /\ p # <<>> => /\ Len(Strdup(Root \o p)) = Len(p) + 1
                          /\ NameOf(Strdup(Root \o p), below) = (Root \o p) \o below
           /\ p = <<>> => /\ Len(Strdup(Root \o p)) = 2
                          /\ NameOf(Strdup(Root \o p), below) = IF below = <<>> THEN <<"", "">> ELSE Root \o below
<1>1. p \in Seq(Components) /\ below \in Seq(Components) /\ Root \in Seq(Components)
  BY PlacesAre
<1>2. CASE p # <<>>
  <2>1. Len(Root \o p) = Len(p) + 1
    BY RootedIs
  <2> QED
    BY <1>2, <2>1, LongPath DEF NameOf
<1>3. CASE p = <<>>
  <2>1. Root \o p = Root
    BY <1>1, <1>3, ConcatEmptySeq
  <2>2. Strdup(Root \o p) = <<"", "">>
    BY <2>1 DEF Strdup
  <2>3. <<"", "">> \in Seq(Components)
    BY PlacesAre
  <2>4. Len(<<"", "">>) = 2
    OBVIOUS
  <2>5. <<"", "">> \o <<>> = <<"", "">>
    BY <2>3, ConcatEmptySeq
  <2> QED
    BY <1>3, <2>2, <2>4, <2>5 DEF NameOf
<1> QED
  BY <1>2, <1>3

LEMMA RootHas ==
    ASSUME PathsAssumption
    PROVE  Location(<<"", "">>) = <<>> /\ Last(<<"", "">>) = ""
<1>1. Root \o <<>> = Root
  BY PlacesAre, ConcatEmptySeq
<1>2. Strdup(Root \o <<>>) = <<"", "">>
  BY <1>1 DEF Strdup
<1>3. <<>> \in Places
  BY PlacesAre
<1>4. Last(<<"", "">>) = ""
  BY DEF Last
<1> QED
  BY <1>2, <1>3, <1>4, StringIs

\* The strings that mfu_param_path_set_all leaves.
Absolutes ==
    /\ DOMAIN params.sources = DOMAIN argv.sources
    /\ \A k \in DOMAIN argv.sources : params.sources[k] = Strdup(Root \o Location(argv.sources[k]))
    /\ params.dest = Strdup(Root \o Location(argv.dest))

LEMMA ArgsAre ==
    ASSUME PathsAssumption, argv \in CommandArgs
    PROVE  /\ DOMAIN argv.sources \subseteq Nat \ {0} /\ 1 \in DOMAIN argv.sources
           /\ \A k \in DOMAIN argv.sources :
                 /\ argv.sources[k] \in Seq(Components) /\ argv.sources[k] # <<>>
                 /\ Location(argv.sources[k]) \in Places
           /\ argv.dest \in Seq(Components) /\ argv.dest # <<>> /\ Location(argv.dest) \in Places
<1>1. /\ argv.sources \in Seq(Seq(Components) \ {<<>>}) /\ argv.sources # <<>>
      /\ argv.dest \in Seq(Components) /\ argv.dest # <<>>
  BY DEF PathsAssumption
<1>2. PICK s : s = argv.sources
  OBVIOUS
<1>3. PICK T : T = Seq(Components) \ {<<>>}
  OBVIOUS
<1>4. s \in Seq(T) /\ s # <<>>
  BY <1>1, <1>2, <1>3
<1>5. Len(s) \in Nat \ {0} /\ DOMAIN s = 1 .. Len(s)
  BY <1>4, EmptySeq, LenProperties
<1>6. \A k \in DOMAIN s : s[k] \in T
  BY <1>4, <1>5, ElementOfSeq
<1>7. DOMAIN s \subseteq Nat \ {0} /\ 1 \in DOMAIN s
  BY <1>5
<1>8. \A k \in DOMAIN s : s[k] \in Seq(Components) /\ s[k] # <<>> /\ Location(s[k]) \in Places
  BY <1>3, <1>6, AbsReduceIs
<1> QED
  BY <1>1, <1>2, <1>7, <1>8, AbsReduceIs

LEMMA Unrooted ==
    ASSUME PathsAssumption, NEW b \in Seq(Components)
    PROVE  Root \o b # <<>> /\ 1 \in 0 .. Len(Root \o b) /\ SubSeq(Root \o b, 1 + 1, Len(Root \o b)) = b
<1>1. Root \in Seq(Components) /\ Len(Root) = 1 /\ Len(b) \in Nat
  BY PlacesAre, LenProperties
<1>2. PICK u : u = Root \o b
  OBVIOUS
<1>3. u \in Seq(Components) /\ Len(u) = Len(Root) + Len(b)
  BY <1>1, <1>2, ConcatProperties
<1>4. Len(u) # 0 /\ 1 \in 0 .. Len(u) /\ 0 \in 0 .. Len(b) /\ Len(Root) + 0 + 1 = 1 + 1 /\ 0 + 1 = 1
  BY <1>1, <1>3
<1>5. SubSeq(Root \o b, Len(Root) + 0 + 1, Len(Root) + Len(b)) = SubSeq(b, 0 + 1, Len(b))
  BY <1>1, <1>4, Dropped
<1>6. SubSeq(b, 1, Len(b)) = b
  BY SubSeqFull
<1> QED
  BY <1>2, <1>3, <1>4, <1>5, <1>6, EmptySeq

\* What is cut off the name of an item, what is left of it and what it leads through.
CutOf(p, keeps) == Len(Strdup(Root \o p)) - IF keeps THEN 1 ELSE 0
RestOf(p, below, keeps) ==
    LET item == NameOf(Strdup(Root \o p), below)
    IN  Slice(item, CutOf(p, keeps), Len(item) - CutOf(p, keeps))
OwnOf(p, keeps) == IF p # <<>> /\ keeps THEN <<Last(p)>> ELSE <<>>

LEMMA CutIs ==
    ASSUME PathsAssumption, NEW p \in Places, NEW below \in Places, NEW keeps \in BOOLEAN,
           p = <<>> => keeps
    PROVE  /\ RestOf(p, below, keeps) \in Seq(Components)
           /\ \A q \in Places : From(q, RestOf(p, below, keeps)) = (q \o OwnOf(p, keeps)) \o below
<1>1. /\ p \in Seq(Components) /\ below \in Seq(Components) /\ Root \in Seq(Components)
      /\ Len(Root) = 1 /\ Len(p) \in Nat /\ Len(below) \in Nat
  BY PlacesAre, LenProperties
<1> DEFINE item == NameOf(Strdup(Root \o p), below)
           own == OwnOf(p, keeps)
           cut == CutOf(p, keeps)
<1> HIDE DEF item, own, cut
<1>2. SUFFICES /\ item \in Seq(Components) /\ item # <<>> /\ cut \in 0 .. Len(item)
               /\ SubSeq(item, cut + 1, Len(item)) \in Seq(Components)
               /\ \A q \in Places : From(q, SubSeq(item, cut + 1, Len(item))) = (q \o own) \o below
  <2>1. Slice(item, cut, Len(item) - cut) = SubSeq(item, cut + 1, Len(item))
    BY <1>2, SliceIs
  <2>2. RestOf(p, below, keeps) = SubSeq(item, cut + 1, Len(item))
    BY <2>1 DEF RestOf, item, cut
  <2> QED
    BY <1>2, <2>2 DEF own
<1>3. CASE p # <<>>
  <2>1. /\ item \in Seq(Components) /\ Len(item) = Len(p) + 1 + Len(below)
        /\ SubSeq(item, Len(p) + 1 + 1, Len(item)) = below
        /\ SubSeq(item, Len(p) + 1, Len(item)) = <<p[Len(p)]>> \o below
    <3>1. item = (Root \o p) \o below
      BY <1>3, NameIs DEF item
    <3> QED
      BY <1>3, <3>1, RestIs
  <2>2. cut = Len(p) + 1 - IF keeps THEN 1 ELSE 0
    <3>1. Len(Strdup(Root \o p)) = Len(p) + 1
      BY <1>3, NameIs
    <3> QED
      BY <3>1 DEF cut, CutOf
  <2>3. cut \in 0 .. Len(item) /\ Len(item) # 0
    BY <1>1, <2>1, <2>2
  <2>4. item # <<>>
    BY <2>3, EmptySeq
  <2>5. CASE keeps
    <3>1. cut + 1 = Len(p) + 1
      BY <1>1, <2>2, <2>5
    <3>2. Len(p) \in 1 .. Len(p)
      BY <1>1, <1>3, EmptySeq
    <3>3. p[Len(p)] \in Components /\ p[Len(p)] \notin Special
      BY <1>1, <3>2, ElementOfSeq DEF Places
    <3>4. PICK x : x = <<p[Len(p)]>>
      OBVIOUS
    <3>5. x \in Places
      <4>1. x \in Seq(Components) /\ Len(x) = 1 /\ x[1] = p[Len(p)]
        BY <3>3, <3>4, Alone
      <4>2. \A k \in 1 .. Len(x) : x[k] \notin Special
        BY <3>3, <4>1
      <4> QED
        BY <4>1, <4>2 DEF Places
    <3>6. own = x
      BY <1>3, <2>5, <3>4 DEF own, OwnOf, Last
    <3>7. SubSeq(item, cut + 1, Len(item)) = x \o below
      BY <2>1, <3>1, <3>4
    <3>8. x \o below \in Places
      BY <3>5, FromNames
    <3>9. x \o below \in Seq(Components)
      BY <3>8, PlacesAre
    <3>10. ASSUME NEW q \in Places
           PROVE  From(q, x \o below) = (q \o x) \o below
      <4>1. From(q, x \o below) = q \o (x \o below)
        BY <3>8, FromNames
      <4>2. q \in Seq(Components) /\ x \in Seq(Components) /\ below \in Seq(Components)
        BY <3>5, PlacesAre
      <4>3. (q \o x) \o below = q \o (x \o below)
        BY <4>2, ConcatAssociative
      <4> QED
        BY <4>1, <4>3
    <3> QED
      BY <2>1, <2>3, <2>4, <3>6, <3>7, <3>9, <3>10
  <2>6. CASE ~keeps
    <3>1. cut + 1 = Len(p) + 1 + 1
      BY <1>1, <2>2, <2>6
    <3>2. SubSeq(item, cut + 1, Len(item)) = below
      BY <2>1, <3>1
    <3>3. own = <<>>
      BY <2>6 DEF own, OwnOf
    <3>4. ASSUME NEW q \in Places
          PROVE  From(q, below) = (q \o own) \o below
      <4>1. q \in Seq(Components)
        BY PlacesAre
      <4>2. q \o own = q
        BY <3>3, <4>1, ConcatEmptySeq
      <4> QED
        BY <4>2, FromNames
    <3> QED
      BY <1>1, <2>1, <2>3, <2>4, <3>2, <3>4
  <2> QED
    BY <2>5, <2>6
<1>4. CASE p = <<>>
  <2>1. cut = 1
    <3>1. Len(Strdup(Root \o p)) = 2
      BY <1>4, NameIs
    <3>2. keeps
      BY <1>4
    <3> QED
      BY <3>1, <3>2 DEF cut, CutOf
  <2>2. own = <<>>
    BY <1>4 DEF own, OwnOf
  <2>3. ASSUME NEW q \in Places
        PROVE  (q \o own) \o below = From(q, below)
    <3>1. q \in Seq(Components)
      BY PlacesAre
    <3>2. q \o own = q
      BY <2>2, <3>1, ConcatEmptySeq
    <3> QED
      BY <3>2, FromNames
  <2>4. CASE below = <<>>
    <3>1. item = <<"", "">>
      BY <1>4, <2>4, NameIs DEF item
    <3>2. item \in Seq(Components)
      BY <3>1, PlacesAre
    <3>3. Len(item) = 2 /\ item[2] = ""
      BY <3>1
    <3>4. Len(item) = 2
      BY <3>3
    <3>5. item # <<>> /\ cut \in 0 .. Len(item) /\ 1 + 1 = 2
      BY <2>1, <3>4, EmptySeq
    <3>6. PICK r : r = SubSeq(item, cut + 1, Len(item))
      OBVIOUS
    <3>7. /\ r \in Seq(Components) /\ Len(r) = 1 /\ r[1] = item[2]
      <4>1. 2 \in Nat \ {0} /\ 2 \in Nat /\ 2 <= Len(item) /\ 2 <= 2 + 1 /\ 2 - 2 + 1 = 1 /\ 2 + 1 - 1 = 2
        BY <3>4
      <4>2. r = SubSeq(item, 2, 2)
        BY <2>1, <3>4, <3>5, <3>6
      <4>3. r \in Seq(Components) /\ Len(r) = 2 - 2 + 1 /\ \A k \in 1 .. 2 - 2 + 1 : r[k] = item[2 + k - 1]
        BY <3>2, <4>1, <4>2, PartOf
      <4> QED
        BY <4>3
    <3>8. r = Root
      <4>1. Root \in Seq(Components) /\ Len(Root) = 1 /\ Root[1] = ""
        BY PlacesAre
      <4>2. r[1] = Root[1]
        BY <3>3, <3>7, <4>1
      <4>3. Len(r) = Len(Root) /\ \A k \in 1 .. Len(r) : r[k] = Root[k]
        <5>1. Len(Root) = 1
          BY <4>1
        <5> QED
          BY <3>7, <4>2, <5>1
      <4> QED
        BY <1>1, <3>7, <4>3, SeqEqual
    <3>9. ASSUME NEW q \in Places
          PROVE  From(q, r) = From(q, below)
      <4>1. r = Root \o below
        BY <1>1, <2>4, <3>8, ConcatEmptySeq
      <4> QED
        BY <1>1, <4>1, FromRoot
    <3> QED
      BY <2>3, <3>2, <3>5, <3>6, <3>7, <3>9
  <2>5. CASE below # <<>>
    <3>1. item = Root \o below
      BY <1>4, <2>5, NameIs DEF item
    <3>2. item \in Seq(Components) /\ Len(item) = Len(below) + 1
      BY <3>1, RootedIs
    <3>3. item # <<>> /\ cut \in 0 .. Len(item) /\ SubSeq(item, cut + 1, Len(item)) = below
      BY <1>1, <2>1, <3>1, Unrooted
    <3> QED
      BY <1>1, <2>3, <3>2, <3>3
  <2> QED
    BY <2>4, <2>5
<1> QED
  BY <1>3, <1>4

LEMMA Before == ASSUME NEW a \in Nat \ {0}, NEW b \in Nat \ {0}, a <= b, a # b PROVE a \in 1 .. b - 1
  OBVIOUS

\* mfu_param_path_copy_dest: an item that is told to be of its argument gets the name
\* that cp gives it.
LEMMA CopyDestIs ==
    ASSUME PathsAssumption, argv \in CommandArgs, Absolutes, into = IsDirectory,
           NEW i \in DOMAIN argv.sources, NEW below \in Places,
           Location(argv.sources[i]) # <<>> \/ argv.sources[i] = <<"", "">>,
           ToldApart(i, NameOf(params.sources[i], below))
    PROVE  LET orig == argv.sources[i]
               own == IF IsDirectory /\ ~argv.sync /\ Last(orig) # ""
                      THEN <<Last(Location(orig))>> ELSE <<>>
           IN  Location(CopyDest(NameOf(params.sources[i], below))) = Location(argv.dest) \o own \o below
<1> DEFINE P(k) == Location(argv.sources[k])
           plain(k) == IsDirectory /\ ~argv.sync /\ Last(argv.sources[k]) # ""
           keeps(k) == argv.sources[k] = <<"", "">> \/ plain(k)
<1>1. PICK n : n = NameOf(params.sources[i], below)
  OBVIOUS
<1>2. PICK matches : matches = {k \in DOMAIN params.sources : Begins(params.sources[k], n)}
  OBVIOUS
<1>3. \A k \in DOMAIN argv.sources : params.sources[k] = Strdup(Root \o P(k)) /\ P(k) \in Places
  BY ArgsAre DEF Absolutes
<1>4. i \in matches /\ matches \in SUBSET Nat /\ matches \subseteq DOMAIN argv.sources
  <2>1. Begins(params.sources[i], n)
    BY <1>1, <1>3, BeginsOwn
  <2> QED
    BY <1>2, <2>1, ArgsAre DEF Absolutes
<1>5. PICK j : j = CHOOSE k \in matches : \A m \in matches : k <= m
  OBVIOUS
<1>6. j \in matches /\ \A m \in matches : j <= m
  <2>1. matches # {}
    BY <1>4
  <2>2. \E k \in matches : \A m \in matches : k <= m
    BY <1>4, <2>1, LeastNumber
  <2> QED
    BY <1>5, <2>2
<1>7. j \in DOMAIN argv.sources /\ Begins(params.sources[j], n)
  BY <1>2, <1>4, <1>6
<1>8. /\ Len(P(j)) = Len(P(i)) /\ (Last(argv.sources[j]) = "" <=> Last(argv.sources[i]) = "")
      /\ P(j) = <<>> => argv.sources[j] = <<"", "">>
  <2>1. CASE j = i
    BY <2>1
  <2>2. CASE j # i
    <3>1. j \in 1 .. i - 1
      <4>1. i \in Nat \ {0} /\ j \in Nat \ {0}
        BY <1>7, ArgsAre
      <4>2. j <= i
        BY <1>4, <1>6
      <4> QED
        BY <2>2, <4>1, <4>2, Before
    <3> QED
      BY <1>1, <1>7, <3>1 DEF ToldApart
  <2> QED
    BY <2>1, <2>2
<1>9. P(j) = <<>> <=> P(i) = <<>>
  <2>1. P(i) \in Seq(Components) /\ P(j) \in Seq(Components)
    BY <1>3, <1>7, PlacesAre
  <2>2. Len(P(j)) = Len(P(i))
    BY <1>8
  <2> HIDE DEF P
  <2> QED
    BY <2>1, <2>2, EmptySeq
<1>10. P(i) = <<>> => argv.sources[i] = <<"", "">>
  OBVIOUS
<1>11. keeps(j) <=> keeps(i)
  <2>1. P(j) # <<>> => argv.sources[j] # <<"", "">>
    BY RootHas
  <2>2. P(i) # <<>> => argv.sources[i] # <<"", "">>
    BY RootHas
  <2> HIDE DEF P
  <2> QED
    BY <1>8, <1>9, <1>10, <2>1, <2>2
<1>12. keeps(i) <=> P(i) = <<>> \/ plain(i)
  <2>1. P(i) # <<>> => argv.sources[i] # <<"", "">>
    BY RootHas
  <2> HIDE DEF P
  <2> QED
    BY <1>10, <2>1
<1>13. plain(i) => P(i) # <<>>
  BY <1>10, RootHas
<1>14. PICK keep \in BOOLEAN : keep <=> keeps(i)
  OBVIOUS
<1>15. PICK cut : cut = Len(params.sources[j]) - IF keep THEN 1 ELSE 0
  OBVIOUS
<1>16. CopyDest(n) = Strdup(Prepend(Slice(n, cut, Len(n) - cut), params.dest))
  <2>1. keep <=> argv.sources[j] = <<"", "">> \/ (into /\ ~argv.sync /\ Last(argv.sources[j]) # "")
    BY <1>11, <1>14
  <2>2. matches # {}
    BY <1>4
  <2> HIDE DEF P, keeps, plain
  <2> QED
    BY <1>2, <1>5, <1>15, <2>1, <2>2 DEF CopyDest, FromStr
<1>17. Len(params.sources[j]) = Len(params.sources[i])
  <2>1. params.sources[j] = Strdup(Root \o P(j)) /\ params.sources[i] = Strdup(Root \o P(i))
    BY <1>3, <1>7
  <2>2. P(j) \in Places /\ P(i) \in Places
    BY <1>3, <1>7
  <2>3. P(i) # <<>> => Len(params.sources[j]) = Len(P(j)) + 1 /\ Len(params.sources[i]) = Len(P(i)) + 1
    <3> HIDE DEF P
    <3> QED
      BY <1>9, <2>1, <2>2, NameIs
  <2>4. P(i) = <<>> => Len(params.sources[j]) = 2 /\ Len(params.sources[i]) = 2
    <3> HIDE DEF P
    <3> QED
      BY <1>9, <2>1, <2>2, NameIs
  <2> HIDE DEF P
  <2> QED
    BY <1>8, <2>3, <2>4
<1>18. PICK p \in Places : p = P(i)
  BY <1>3
<1>19. params.sources[i] = Strdup(Root \o p) /\ (p = <<>> => keep)
  BY <1>3, <1>12, <1>14, <1>18
<1>20. PICK own : own = OwnOf(p, keep)
  OBVIOUS
<1>21. PICK rest : rest = RestOf(p, below, keep)
  OBVIOUS
<1>22. rest \in Seq(Components) /\ \A q \in Places : From(q, rest) = (q \o own) \o below
  BY <1>19, <1>20, <1>21, CutIs
<1>23. PICK q \in Places : q = Location(argv.dest)
  BY ArgsAre
<1>24. params.dest = Strdup(Root \o q) /\ params.dest \in Seq(Components)
  BY <1>23, StringIs DEF Absolutes
<1>25. CopyDest(n) = Strdup(Prepend(rest, params.dest))
  <2>1. n = NameOf(Strdup(Root \o p), below)
    BY <1>1, <1>19
  <2>2. cut = CutOf(p, keep)
    BY <1>15, <1>17, <1>19 DEF CutOf
  <2> HIDE DEF P, keeps, plain
  <2> QED
    BY <1>16, <1>21, <2>1, <2>2 DEF RestOf
<1>26. Location(CopyDest(n)) = (q \o own) \o below
  <2>1. Prepend(rest, params.dest) = params.dest \o rest
    BY <1>22, <1>24, Combined
  <2>2. Location(Strdup(Strdup(Root \o q) \o rest)) = From(q, rest)
    BY <1>22, LeadsOn
  <2> QED
    BY <1>22, <1>24, <1>25, <2>1, <2>2
<1>27. own = IF plain(i) THEN <<Last(P(i))>> ELSE <<>>
  BY <1>12, <1>13, <1>14, <1>18, <1>20 DEF OwnOf
<1> QED
  BY <1>1, <1>23, <1>26, <1>27

\* What a command has found out at each of its moments.
PathsInv ==
    /\ argv \in CommandArgs
    /\ moment \in {"set", "check", "relate", "place", "end"}
    /\ moment # "set" => Absolutes
    /\ moment \in {"relate", "place", "end"} /\ valid =>
          into = IsDirectory /\ (Len(argv.sources) > 1 => IsDirectory)
    /\ moment = "place" => valid
    /\ moment \in {"place", "end"} =>
          LET p == Location(argv.sources[1])
              q == Location(argv.dest)
          IN  relation = [cmp |-> Cmp(Root \o p, Root \o q), way |-> Relative(Root \o p, Root \o q)]
    /\ moment = "end" /\ valid =>
          /\ placed.of \in DOMAIN argv.sources /\ placed.below \in ItemsBelow
          /\ placed.name = CopyDest(NameOf(params.sources[placed.of], placed.below))

LEMMA PathsInit == NameInit => PathsInv
BY DEF NameInit, PathsInv

LEMMA SetAllIs ==
    ASSUME PathsAssumption, argv \in CommandArgs
    PROVE  /\ \A k \in DOMAIN argv.sources :
                 StrdupAbsReduceStr(argv.sources[k]) = Strdup(Root \o Location(argv.sources[k]))
           /\ StrdupAbsReduceStr(argv.dest) = Strdup(Root \o Location(argv.dest))
BY ArgsAre, AbsReduceIs DEF StrdupAbsReduceStr, FromStr

LEMMA PathsStep == PathsAssumption /\ PathsInv /\ [NameNext]_nameVars => PathsInv'
<1> SUFFICES ASSUME PathsAssumption, PathsInv, [NameNext]_nameVars
             PROVE  PathsInv'
  OBVIOUS
<1>1. argv \in CommandArgs
  BY DEF PathsInv
<1>2. CASE SetAll
  <2>1. argv' = argv /\ moment' = "check"
    BY <1>2 DEF SetAll
  <2>2. /\ DOMAIN params'.sources = DOMAIN argv.sources
        /\ \A k \in DOMAIN argv.sources : params'.sources[k] = StrdupAbsReduceStr(argv.sources[k])
        /\ params'.dest = StrdupAbsReduceStr(argv.dest)
    BY <1>2 DEF SetAll
  <2>3. /\ \A k \in DOMAIN argv.sources : params'.sources[k] = Strdup(Root \o Location(argv.sources[k]))
        /\ params'.dest = Strdup(Root \o Location(argv.dest))
    BY <1>1, <2>2, SetAllIs
  <2>4. Absolutes'
    BY <2>1, <2>2, <2>3 DEF Absolutes, Location
  <2> QED
    BY <1>1, <2>1, <2>4 DEF PathsInv
<1>3. CASE Check
  <2>1. argv' = argv /\ params' = params /\ moment = "check" /\ moment' = "relate"
    BY <1>3 DEF Check
  <2>2. Absolutes'
    BY <2>1 DEF PathsInv, Absolutes, Location
  <2>3. valid' => into' = IsDirectory /\ (Len(argv.sources) > 1 => IsDirectory)
    <3>1. /\ valid' => (Len(argv.sources) > 1 => IsDirectory)
          /\ into' = (valid' /\ (Len(argv.sources) > 1 \/ IsDirectory))
      BY <1>3 DEF Check
    <3>2. valid' => (valid' /\ (Len(argv.sources) > 1 \/ IsDirectory)) = IsDirectory
      <4>1. IsDirectory \in BOOLEAN
        BY DEF IsDirectory
      <4> QED
        BY <3>1, <4>1
    <3> QED
      BY <3>1, <3>2
  <2>4. IsDirectory' = IsDirectory
    BY <2>1 DEF IsDirectory
  <2> QED
    BY <1>1, <2>1, <2>2, <2>3, <2>4 DEF PathsInv
<1>4. CASE Relate
  <2>1. /\ argv' = argv /\ params' = params /\ valid' = valid /\ into' = into /\ moment = "relate"
        /\ moment' = IF valid THEN "place" ELSE "end"
    BY <1>4 DEF Relate
  <2>2. Absolutes' /\ (valid => into = IsDirectory /\ (Len(argv.sources) > 1 => IsDirectory))
    BY <2>1 DEF PathsInv, Absolutes, Location
  <2>3. PICK p, q : /\ p = AbsReduce(FromStr(argv.sources[1])) /\ q = AbsReduce(FromStr(argv.dest))
                    /\ relation' = [cmp |-> Cmp(p, q), way |-> Relative(p, q)]
    BY <1>4 DEF Relate
  <2>4. p = Root \o Location(argv.sources[1]) /\ q = Root \o Location(argv.dest)
    BY <1>1, <2>3, ArgsAre, AbsReduceIs DEF FromStr
  <2>5. (Location(argv.sources[1]))' = Location(argv.sources[1]) /\ (Location(argv.dest))' = Location(argv.dest)
    BY <2>1 DEF Location
  <2>6. IsDirectory' = IsDirectory
    BY <2>1 DEF IsDirectory
  <2> QED
    BY <1>1, <2>1, <2>2, <2>3, <2>4, <2>5, <2>6 DEF PathsInv
<1>5. CASE Place
  <2>1. /\ argv' = argv /\ params' = params /\ valid' = valid /\ into' = into /\ relation' = relation
        /\ moment = "place" /\ moment' = "end"
    BY <1>5 DEF Place
  <2>2. Absolutes' /\ Absolutes /\ (valid => into = IsDirectory /\ (Len(argv.sources) > 1 => IsDirectory))
    BY <2>1 DEF PathsInv, Absolutes, Location
  <2>3. PICK i \in DOMAIN params.sources, below \in ItemsBelow :
           placed' = [of |-> i, below |-> below, name |-> CopyDest(NameOf(params.sources[i], below))]
    BY <1>5 DEF Place
  <2>4. i \in DOMAIN argv.sources
    BY <2>2, <2>3 DEF Absolutes
  <2>5. (Location(argv.sources[1]))' = Location(argv.sources[1]) /\ (Location(argv.dest))' = Location(argv.dest)
    BY <2>1 DEF Location
  <2>6. IsDirectory' = IsDirectory
    BY <2>1 DEF IsDirectory
  <2>7. /\ placed'.of = i /\ placed'.below = below
        /\ placed'.name = CopyDest(NameOf(params.sources[i], below))
    BY <2>3
  <2>8. (CopyDest(NameOf(params.sources[placed.of], placed.below)))'
          = CopyDest(NameOf(params.sources[i], below))
    BY <2>1, <2>7 DEF CopyDest, NameOf
  <2> QED
    BY <1>1, <2>1, <2>2, <2>4, <2>5, <2>6, <2>7, <2>8 DEF PathsInv
<1>6. CASE UNCHANGED nameVars
  BY <1>6 DEF nameVars, PathsInv, Absolutes, Location, IsDirectory, CopyDest, NameOf
<1> QED
  BY <1>2, <1>3, <1>4, <1>5, <1>6 DEF NameNext

LEMMA PathsPlaced == PathsAssumption /\ PathsInv => Placed
<1> SUFFICES ASSUME PathsAssumption, PathsInv, moment = "end"
             PROVE  Placed
  BY DEF Placed, NamesOver
<1>1. argv \in CommandArgs /\ Absolutes
  BY DEF PathsInv
<1>2. /\ \A k \in DOMAIN argv.sources : Location(argv.sources[k]) \in Places
      /\ Location(argv.dest) \in Places /\ 1 \in DOMAIN argv.sources
  BY <1>1, ArgsAre
<1>3. ASSUME NEW k \in DOMAIN argv.sources
      PROVE  Meant(argv.sources[k], params.sources[k])
  <2>1. params.sources[k] = Strdup(Root \o Location(argv.sources[k]))
    BY <1>1 DEF Absolutes
  <2> QED
    BY <1>2, <2>1, StringIs DEF Meant
<1>4. Meant(argv.dest, params.dest)
  <2>1. params.dest = Strdup(Root \o Location(argv.dest))
    BY <1>1 DEF Absolutes
  <2> QED
    BY <1>2, <2>1, StringIs DEF Meant
<1>5. PICK p \in Places : p = Location(argv.sources[1])
  BY <1>2
<1>6. PICK q \in Places : q = Location(argv.dest)
  BY <1>2
<1>7. relation.cmp = Cmp(Root \o p, Root \o q) /\ relation.way = Relative(Root \o p, Root \o q)
  BY <1>5, <1>6 DEF PathsInv
<1>8. From(p, relation.way) = q
  BY <1>7, RelativeIs
<1>9. relation.cmp = IF p = q THEN "EQUAL"
                     ELSE IF IsWithin(p, q) THEN "SRC_CHILD"
                     ELSE IF IsWithin(q, p) THEN "DEST_CHILD"
                     ELSE "DIFF"
  BY <1>7, CmpIs
<1>10. ASSUME valid
       PROVE  LET i == placed.of
                  orig == argv.sources[i]
                  own == IF IsDirectory /\ ~argv.sync /\ Last(orig) # ""
                         THEN <<Last(Location(orig))>> ELSE <<>>
              IN  /\ Len(argv.sources) > 1 => IsDirectory
                  /\ /\ Location(orig) # <<>> \/ orig = <<"", "">>
                     /\ ToldApart(i, NameOf(params.sources[i], placed.below))
                     => Location(placed.name) = q \o own \o placed.below
  <2>1. into = IsDirectory /\ (Len(argv.sources) > 1 => IsDirectory)
    BY <1>10 DEF PathsInv
  <2>2. PICK i : i = placed.of
    OBVIOUS
  <2>3. PICK below : below = placed.below
    OBVIOUS
  <2>4. /\ i \in DOMAIN argv.sources /\ below \in ItemsBelow
        /\ placed.name = CopyDest(NameOf(params.sources[i], below))
    BY <1>10, <2>2, <2>3 DEF PathsInv
  <2>5. below \in Places
    BY <2>4, BelowAre
  <2>6. ASSUME /\ Location(argv.sources[i]) # <<>> \/ argv.sources[i] = <<"", "">>
               /\ ToldApart(i, NameOf(params.sources[i], below))
        PROVE  Location(placed.name)
                 = q \o (IF IsDirectory /\ ~argv.sync /\ Last(argv.sources[i]) # ""
                         THEN <<Last(Location(argv.sources[i]))>> ELSE <<>>) \o below
    BY <1>1, <1>6, <2>1, <2>4, <2>5, <2>6, CopyDestIs
  <2> QED
    BY <2>1, <2>2, <2>3, <2>6
<1> QED
  BY <1>3, <1>4, <1>5, <1>6, <1>8, <1>9, <1>10 DEF Placed

THEOREM PathsAreKept == ASSUME PathsAssumption PROVE NameSpec => []Placed
<1>1. NameInit => PathsInv
  BY PathsInit
<1>2. PathsInv /\ [NameNext]_nameVars => PathsInv'
  BY PathsStep
<1>3. PathsInv => Placed
  BY PathsPlaced
<1> QED
  BY <1>1, <1>2, <1>3, PTL DEF NameSpec

================================================================================
