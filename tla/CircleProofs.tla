---------------------------- MODULE CircleProofs ----------------------------
(* For any tree of ranks and any work: what the loop of Circle does with the *)
(* work is what WorkPool promises, no rank leaves it while work is left, and *)
(* the cleanup leaves no message behind.                                     *)
EXTENDS Circle, FiniteSetTheorems, TLAPS

-----------------------------------------------------------------------------
(* The inductive invariant.                                                  *)

\* A rank counts the work messages that are on their way or whose receipt is: <<s, 0>> is
\* the message to s, <<s, k>> the k-th receipt from s.
Work(r) == {s \in Ranks : \E m \in reply : m.from = r /\ m.to = s /\ m.items # {}}
Unacknowledged(r) == {u \in Ranks \X Nat :
                        \/ u[2] = 0 /\ u[1] \in Work(r)
                        \/ u[2] \in 1 .. receipt[<<u[1], r>>]}
Acked == \A r \in Ranks : /\ IsFiniteSet(Unacknowledged(r))
                          /\ work_outstanding[r] = Cardinality(Unacknowledged(r))

\* The two ends of an edge of the tree: c has contributed and its parent p has not, or both
\* wait for the result, or it is on its way to c, or c has it.
Edge(c, p) ==
    /\ (turn[c] # turn[p]) => (~term_up[p] /\ term_up[c] /\ term[<<p, c>>] = NoFlag)
    /\ (turn[c] = turn[p]) => term[<<c, p>>] = NoFlag
    /\ (turn[c] = turn[p]) => (term_up[c] <=> (term_up[p] \/ term[<<p, c>>] # NoFlag))
    /\ term_up[p] => (turn[c] = turn[p] /\ term[<<p, c>>] = NoFlag)
Edges ==
    /\ \A c \in Ranks \ {Root} : Edge(c, Parent[c])
    /\ ~term_up[Root]
    /\ \A s, r \in Ranks : s \notin Children(r) /\ r \notin Children(s) => term[<<s, r>>] = NoFlag

\* The children whose contribution a rank has received.
HeardFrom(p) == {c \in Children(p) : turn[c] # turn[p] /\ term[<<c, p>>] = NoFlag}
Counts == \A p \in Ranks : term_replies[p] = IF term_up[p] THEN Cardinality(Children(p))
                                             ELSE Cardinality(HeardFrom(p))

\* A rank that has contributed waits; a result is only for ranks that were in its wave.
Turns ==
    /\ \A r \in Contributed : term_up[r]
    /\ \A r \in Ranks \ {Root} : term[<<Parent[r], r>>] # NoFlag => turn[r] = turn[Root]

\* Once a rank has left the loop all are out of work, and the result 1 is all that is sent;
\* before that only the result 0 is.
Ended == \E r \in Ranks : phase[r] # "work"
Quiet(r) == queue[r] = {} /\ InFlight(r) = {} /\ work_outstanding[r] = 0
Over ==
    IF Ended
      THEN /\ phase[Root] # "work"
           /\ \A r \in Ranks : Quiet(r) /\ turn[r] = turn[Root]
           /\ \A r \in Ranks \ {Root} : /\ term_up[r] <=> phase[r] = "work"
                                        /\ term[<<Parent[r], r>>] # 0
      ELSE \A r \in Ranks \ {Root} : term[<<Parent[r], r>>] # 1

IInv == TypeOK /\ Handshake /\ EachItemOnce /\ Acked /\ Edges /\ Counts /\ Turns /\ Wave /\ Over

\* The barrier: a rank has passed it up when all its children have, and nobody is done
\* before the root has heard of all.
Passed(r) == barrier_up[r] \/ phase[r] = "done"
ToldBy(r) == {c \in Children(r) : Passed(c) /\ <<c, r>> \notin barrier}
Starts == \A r \in Ranks : barrier_started[r] => phase[r] # "work" /\ work_requested[r] = NoRank
BarrierUp ==
    /\ \A r \in Ranks : Passed(r) => barrier_started[r] /\ ToldBy(r) = Children(r)
    /\ \A r \in Ranks : phase[r] # "done" => barrier_replies[r] = Cardinality(ToldBy(r))
    /\ (\E r \in Ranks : phase[r] = "done") => \A r \in Ranks : Passed(r)
BarrierChannels ==
    /\ \A c \in Ranks \ {Root} : /\ <<c, Parent[c]>> \in barrier => Passed(c)
                                 /\ <<Parent[c], c>> \in barrier => phase[Parent[c]] = "done"
    /\ \A s, r \in Ranks : <<s, r>> \in barrier => s \in Children(r) \/ r \in Children(s)
BarrierInv == TypeOK /\ Starts /\ BarrierUp /\ BarrierChannels

-----------------------------------------------------------------------------
(* The tree.                                                                 *)

LEMMA TreeShape ==
  /\ \A r \in Ranks : Children(r) \subseteq Ranks \ {Root} /\ r \notin Children(r)
  /\ \A r \in Ranks : \A c \in Children(r) : Parent[c] = r /\ r \notin Children(c)
  /\ \A c \in Ranks \ {Root} : Parent[c] \in Ranks /\ c \in Children(Parent[c])
<1>1. \A c \in Ranks \ {Root} : Parent[c] \in Ranks /\ Parent[c] # c
  BY RanksAssumption
<1>2. ASSUME NEW c \in Ranks \ {Root}, Parent[c] # Root, Parent[Parent[c]] = c
      PROVE  FALSE
  <2> DEFINE S == Ranks \ {c, Parent[c]}
  <2>1. S \in SUBSET Ranks /\ Root \in S
    BY <1>2, RanksAssumption
  <2>2. \A r \in Ranks \ {Root} : Parent[r] \in S => r \in S
    BY <1>2, RanksAssumption
  <2>3. S = Ranks
    BY <2>1, <2>2, RanksAssumption
  <2> QED BY <2>3
<1> QED BY <1>1, <1>2 DEF Children

LEMMA ChildrenFinite ==
  ASSUME NEW r \in Ranks
  PROVE  IsFiniteSet(Children(r)) /\ Cardinality(Children(r)) \in Nat
<1>1. Children(r) \subseteq Ranks
  BY TreeShape
<1> QED BY <1>1, RanksAssumption, FS_Subset, FS_CardinalityType

-----------------------------------------------------------------------------
(* What a rank does when it serves requests, without the sizes of shares.    *)

Served(r, requestors, share) ==
    /\ requestors \subseteq {s \in Ranks : <<s, r>> \in request}
    /\ share \in [requestors -> SUBSET queue[r]]
    /\ \A s, t \in requestors : s # t => share[s] \cap share[t] = {}
    /\ phase[r] # "work" => \A s \in requestors : share[s] = {}
    /\ request' = request \ (requestors \X {r})
    /\ reply' = reply \cup {[from |-> r, to |-> s, items |-> share[s]] : s \in requestors}
    /\ queue' = [queue EXCEPT ![r] = @ \ UNION {share[s] : s \in requestors}]
    /\ work_outstanding' = [work_outstanding EXCEPT ![r] = @ + WorkMessages(requestors, share)]
    /\ UNCHANGED <<phase, work_requested, receipt, termvars, barriervars, items>>

LEMMA ServeEffect ==
  ASSUME NEW r \in Ranks, TypeOK, Serve(r)
  PROVE  \E requestors, share : Served(r, requestors, share)
<1>0. PICK requestors \in SUBSET {s \in Ranks : <<s, r>> \in request} :
           \E share \in Given(r, requestors) :
             /\ request' = request \ (requestors \X {r})
             /\ reply' = reply \cup {[from |-> r, to |-> s, items |-> share[s]] : s \in requestors}
             /\ queue' = [queue EXCEPT ![r] = Kept(r, UNION {share[s] : s \in requestors})]
             /\ work_outstanding' = [work_outstanding EXCEPT ![r] = @ + WorkMessages(requestors, share)]
             /\ UNCHANGED <<phase, work_requested, receipt, termvars, barriervars, items>>
  BY DEF Serve
<1>1. PICK share \in Given(r, requestors) :
             /\ request' = request \ (requestors \X {r})
             /\ reply' = reply \cup {[from |-> r, to |-> s, items |-> share[s]] : s \in requestors}
             /\ queue' = [queue EXCEPT ![r] = Kept(r, UNION {share[s] : s \in requestors})]
             /\ work_outstanding' = [work_outstanding EXCEPT ![r] = @ + WorkMessages(requestors, share)]
             /\ UNCHANGED <<phase, work_requested, receipt, termvars, barriervars, items>>
  BY <1>0
<1>2. /\ share \in [requestors -> SUBSET queue[r]]
      /\ \A s, t \in requestors : s # t => share[s] \cap share[t] = {}
      /\ phase[r] # "work" => \A s \in requestors : share[s] = {}
  <2>1. CASE WillShare(r)
    BY <2>1 DEF Given, Shares, WillShare
  <2>2. CASE ~WillShare(r)
    BY <2>2 DEF Given
  <2> QED BY <2>1, <2>2
<1>3. queue' = [queue EXCEPT ![r] = @ \ UNION {share[s] : s \in requestors}]
  BY <1>1, Zenon DEF Kept, TypeOK
<1> QED BY <1>1, <1>2, <1>3 DEF Served


-----------------------------------------------------------------------------
(* Type correctness.                                                         *)

LEMMA FiniteRanks ==
  ASSUME NEW S \in SUBSET Ranks
  PROVE  IsFiniteSet(S) /\ Cardinality(S) \in Nat
BY RanksAssumption, FS_Subset, FS_CardinalityType

LEMMA InitTypes == Init => TypeOK
<1>1. ASSUME NEW q \in InitialQueues PROVE q \in [Ranks -> SUBSET Items]
  BY ItemsAssumption
<1> QED BY <1>1, RanksAssumption DEF Init, TypeOK, Pairs, NoFlag

LEMMA ProcessTypes ==
  ASSUME NEW r \in Ranks, TypeOK, Process(r)
  PROVE  TypeOK'
BY DEF TypeOK, Process, Fresh, termvars, barriervars, items

LEMMA ServedTypes ==
  ASSUME NEW r \in Ranks, TypeOK, NEW requestors, NEW share, Served(r, requestors, share)
  PROVE  TypeOK'
<1>1. WorkMessages(requestors, share) \in Nat
  BY FiniteRanks DEF WorkMessages, Served
<1>2. reply' \subseteq Replies
  <2>1. \A s \in requestors : [from |-> r, to |-> s, items |-> share[s]] \in Replies
    BY DEF Served, Replies, TypeOK
  <2> QED BY <2>1 DEF Served, TypeOK
<1>3. work_outstanding' \in [Ranks -> Nat]
  BY <1>1 DEF Served, TypeOK
<1>4. request' \subseteq Pairs /\ queue' \in [Ranks -> SUBSET Items]
  BY DEF Served, TypeOK
<1> QED BY <1>2, <1>3, <1>4 DEF TypeOK, Served, termvars, barriervars, items

LEMMA TakeReceiptTypes ==
  ASSUME NEW r \in Ranks, TypeOK, TakeReceipt(r)
  PROVE  TypeOK'
<1>1. receipt' \in [Pairs -> Nat]
  <2>1. PICK s \in Ranks : receipt[<<s, r>>] > 0 /\ receipt' = [receipt EXCEPT ![<<s, r>>] = @ - 1]
    BY DEF TakeReceipt
  <2>2. <<s, r>> \in Pairs
    BY DEF Pairs
  <2> QED BY <2>1, <2>2 DEF TypeOK
<1>2. work_outstanding' \in [Ranks -> Nat]
  BY DEF TypeOK, TakeReceipt
<1> QED BY <1>1, <1>2 DEF TypeOK, TakeReceipt, FlagAfterReceipt, barriervars, items

LEMMA AskTypes ==
  ASSUME NEW r \in Ranks, TypeOK, Ask(r)
  PROVE  TypeOK'
BY DEF TypeOK, Ask, Pairs, termvars, barriervars, items

LEMMA ReceiveTypes ==
  ASSUME NEW r \in Ranks, TypeOK, Receive(r)
  PROVE  TypeOK'
<1>1. PICK m \in reply :
         /\ m.to = r /\ m.from = work_requested[r]
         /\ reply' = reply \ {m}
         /\ IF m.items = {}
              THEN UNCHANGED <<queue, receipt>>
              ELSE /\ queue' = [queue EXCEPT ![r] = m.items]
                   /\ receipt' = [receipt EXCEPT ![<<r, m.from>>] = @ + 1]
  BY DEF Receive
<1>2. m.from \in Ranks /\ m.items \in SUBSET Items /\ <<r, m.from>> \in Pairs
  BY DEF TypeOK, Replies, Pairs
<1>3. receipt' \in [Pairs -> Nat] /\ queue' \in [Ranks -> SUBSET Items]
  BY <1>1, <1>2 DEF TypeOK
<1> QED BY <1>1, <1>3 DEF TypeOK, Receive, termvars, barriervars, items

LEMMA ExchangedType ==
  ASSUME NEW r \in Ranks, TypeOK, NEW seen, NEW to, NEW flag \in {NoFlag, 0, 1}
  PROVE  Exchanged(r, seen, to, flag) \in [Pairs -> {NoFlag, 0, 1}]
BY DEF Exchanged, TypeOK

LEMMA CheckForTermTypes ==
  ASSUME NEW r \in Ranks, TypeOK, CheckForTerm(r)
  PROVE  TypeOK'
<1>1. PICK seen \in Heard(r) :
         LET flag == AndFlags(r, seen)
             replies == term_replies[r] + Cardinality(seen)
             complete == replies = Cardinality(Children(r))
         IN \/ Waits(r, flag, replies, seen)
            \/ /\ r # Root
               /\ Contributes(r, flag, replies, seen)
            \/ /\ Completes(r, flag, seen)
               /\ term_flag' = [term_flag EXCEPT ![r] = FreshFlag(r)]
               /\ turn' = [turn EXCEPT ![r] = ~@]
            \/ /\ r # Root /\ term[<<Parent[r], r>>] # NoFlag
               /\ Completes(r, term[<<Parent[r], r>>], {Parent[r]})
               /\ UNCHANGED <<term_flag, turn>>
  BY DEF CheckForTerm
<1>2. Cardinality(seen) \in Nat /\ AndFlags(r, seen) \in {0, 1}
  BY FiniteRanks DEF Heard, AndFlags
<1>3. r # Root => <<Parent[r], r>> \in Pairs
  BY RanksAssumption DEF Pairs
<1>4. r # Root /\ term[<<Parent[r], r>>] # NoFlag => term[<<Parent[r], r>>] \in {0, 1}
  BY <1>3 DEF TypeOK
<1>5. UNCHANGED <<queue, work_requested, work_outstanding, request, reply, receipt,
                  barriervars, items>>
  BY DEF CheckForTerm
<1>6. CASE Waits(r, AndFlags(r, seen), term_replies[r] + Cardinality(seen), seen)
  BY <1>2, <1>5, <1>6, ExchangedType DEF Waits, TypeOK, barriervars, items
<1>7. CASE Contributes(r, AndFlags(r, seen), term_replies[r] + Cardinality(seen), seen)
  BY <1>2, <1>5, <1>7, ExchangedType DEF Contributes, FreshFlag, TypeOK, barriervars, items
<1>8. CASE /\ Completes(r, AndFlags(r, seen), seen)
           /\ term_flag' = [term_flag EXCEPT ![r] = FreshFlag(r)]
           /\ turn' = [turn EXCEPT ![r] = ~@]
  BY <1>2, <1>5, <1>8, ExchangedType DEF Completes, FreshFlag, TypeOK, barriervars, items
<1>9. CASE /\ r # Root /\ term[<<Parent[r], r>>] # NoFlag
           /\ Completes(r, term[<<Parent[r], r>>], {Parent[r]})
           /\ UNCHANGED <<term_flag, turn>>
  BY <1>4, <1>5, <1>9, ExchangedType DEF Completes, TypeOK, barriervars, items
<1> QED BY <1>1, <1>6, <1>7, <1>8, <1>9

LEMMA BarrierTestTypes ==
  ASSUME NEW r \in Ranks, TypeOK, BarrierTest(r)
  PROVE  TypeOK'
<1>1. PICK heard \in SUBSET {p \in barrier : p[2] = r /\ barrier_replies[r] < Cardinality(Children(r))} :
        LET replies == barrier_replies[r] + Cardinality(heard)
            complete == replies = Cardinality(Children(r))
        IN /\ Cardinality(heard) <= 1
           /\ \/ /\ ~complete /\ heard # {}
                 /\ barrier' = barrier \ heard
                 /\ barrier_replies' = [barrier_replies EXCEPT ![r] = replies]
                 /\ UNCHANGED <<barrier_up, phase>>
              \/ /\ complete /\ ~barrier_up[r] /\ r # Root
                 /\ barrier' = (barrier \ heard) \cup {<<r, Parent[r]>>}
                 /\ barrier_replies' = [barrier_replies EXCEPT ![r] = replies]
                 /\ barrier_up' = [barrier_up EXCEPT ![r] = TRUE]
                 /\ UNCHANGED phase
              \/ /\ IF r = Root THEN complete
                    ELSE barrier_up[r] /\ <<Parent[r], r>> \in barrier
                 /\ barrier' = (barrier \ (heard \cup IF r = Root THEN {} ELSE {<<Parent[r], r>>}))
                               \cup {<<r, c>> : c \in Children(r)}
                 /\ barrier_replies' = [barrier_replies EXCEPT ![r] = 0]
                 /\ barrier_up' = [barrier_up EXCEPT ![r] = FALSE]
                 /\ phase' = [phase EXCEPT ![r] = "done"]
  BY DEF BarrierTest
<1>2. Cardinality(heard) \in Nat
  <2>1. IsFiniteSet(Pairs)
    BY RanksAssumption, FS_Product DEF Pairs
  <2>2. heard \subseteq Pairs
    BY DEF TypeOK
  <2> QED BY <2>1, <2>2, FS_Subset, FS_CardinalityType
<1>3. barrier' \subseteq Pairs
  <2>1. \A c \in Children(r) : <<r, c>> \in Pairs
    BY TreeShape DEF Pairs
  <2>2. r # Root => <<r, Parent[r]>> \in Pairs
    BY RanksAssumption DEF Pairs
  <2> QED BY <1>1, <2>1, <2>2 DEF TypeOK
<1>4. barrier_replies' \in [Ranks -> Nat]
  BY <1>1, <1>2 DEF TypeOK
<1>5. barrier_up' \in [Ranks -> BOOLEAN]
  <2>1. \/ barrier_up' = barrier_up
        \/ barrier_up' = [barrier_up EXCEPT ![r] = TRUE]
        \/ barrier_up' = [barrier_up EXCEPT ![r] = FALSE]
    BY <1>1, Zenon
  <2> QED BY <2>1 DEF TypeOK
<1>6. phase' \in [Ranks -> {"work", "cleanup", "done"}]
  <2>1. phase' = phase \/ phase' = [phase EXCEPT ![r] = "done"]
    BY <1>1, Zenon
  <2> QED BY <2>1 DEF TypeOK
<1> QED BY <1>3, <1>4, <1>5, <1>6 DEF BarrierTest, TypeOK, termvars, items

-----------------------------------------------------------------------------
(* Requests and replies.                                                     *)

Between(r, s) == {m \in reply : m.to = r /\ m.from = s}
HandshakeOf(r, s) ==
    IF work_requested[r] = s
      THEN IF <<r, s>> \in request THEN Between(r, s) = {}
           ELSE \E m \in reply : Between(r, s) = {m}
      ELSE <<r, s>> \notin request /\ Between(r, s) = {}

LEMMA HandshakeParts == Handshake <=> \A r, s \in Ranks : HandshakeOf(r, s)
BY DEF Handshake, HandshakeOf, Between

LEMMA HandshakePartsNext == (\A r, s \in Ranks : HandshakeOf(r, s)') => Handshake'
BY ZenonT(30) DEF Handshake, HandshakeOf, Between

LEMMA HandshakeKept ==
  ASSUME Handshake, UNCHANGED <<work_requested, request, reply>>
  PROVE  Handshake'
<1>1. \A r, s \in Ranks : HandshakeOf(r, s)'
  BY HandshakeParts DEF HandshakeOf, Between
<1> QED BY <1>1, HandshakePartsNext

LEMMA ServedHandshake ==
  ASSUME NEW r \in Ranks, TypeOK, Handshake,
         NEW requestors, NEW share, Served(r, requestors, share)
  PROVE  Handshake'
<1> SUFFICES ASSUME NEW x \in Ranks, NEW y \in Ranks PROVE HandshakeOf(x, y)'
  BY HandshakePartsNext
<1> DEFINE sent(s) == [from |-> r, to |-> s, items |-> share[s]]
<1>1. HandshakeOf(x, y)
  BY HandshakeParts
<1>2. /\ requestors \subseteq {s \in Ranks : <<s, r>> \in request}
      /\ request' = request \ (requestors \X {r})
      /\ reply' = reply \cup {sent(s) : s \in requestors}
      /\ work_requested' = work_requested
  BY DEF Served
<1>3. \A s : sent(s).from = r /\ sent(s).to = s
  OBVIOUS
<1> HIDE DEF sent
<1>4. CASE x \in requestors /\ y = r
  <2>1. <<x, r>> \in request /\ <<x, r>> \notin request'
    BY <1>2, <1>4
  <2>2. work_requested[x] = r /\ Between(x, r) = {}
    BY <1>1, <1>4, <2>1 DEF HandshakeOf
  <2>3. Between(x, r)' = {sent(x)}
    BY <1>2, <1>3, <1>4, <2>2 DEF Between
  <2> QED BY <1>2, <1>4, <2>1, <2>2, <2>3 DEF HandshakeOf
<1>5. CASE ~(x \in requestors /\ y = r)
  <2>1. <<x, y>> \in request' <=> <<x, y>> \in request
    BY <1>2, <1>5
  <2>2. Between(x, y)' = Between(x, y)
    BY <1>2, <1>3, <1>5 DEF Between
  <2> QED BY <1>1, <1>2, <2>1, <2>2 DEF HandshakeOf
<1> QED BY <1>4, <1>5

LEMMA AskHandshake ==
  ASSUME NEW r \in Ranks, TypeOK, Handshake, Ask(r)
  PROVE  Handshake'
<1>1. PICK s \in Ranks \ {r} : /\ request' = request \cup {<<r, s>>}
                               /\ work_requested' = [work_requested EXCEPT ![r] = s]
  BY DEF Ask
<1>2. work_requested[r] = NoRank /\ reply' = reply /\ NoRank \notin Ranks
  BY RanksAssumption DEF Ask, MayAsk
<1> SUFFICES ASSUME NEW x \in Ranks, NEW y \in Ranks PROVE HandshakeOf(x, y)'
  BY HandshakePartsNext
<1>3. HandshakeOf(x, y) /\ Between(x, y)' = Between(x, y)
  BY <1>2, HandshakeParts DEF Between
<1>4. CASE x = r
  <2>1. <<x, y>> \notin request /\ Between(x, y) = {}
    BY <1>2, <1>3, <1>4 DEF HandshakeOf
  <2>2. work_requested'[x] = s
    BY <1>1, <1>4 DEF TypeOK
  <2> QED BY <1>1, <1>3, <1>4, <2>1, <2>2 DEF HandshakeOf
<1>5. CASE x # r
  <2>1. work_requested'[x] = work_requested[x] /\ (<<x, y>> \in request' <=> <<x, y>> \in request)
    BY <1>1, <1>5 DEF TypeOK
  <2> QED BY <1>2, <1>3, <2>1 DEF HandshakeOf
<1> QED BY <1>4, <1>5

\* What a rank does when it receives a reply: it is the only one between the two.
Received(r, m) ==
    /\ m \in reply /\ m.to = r /\ m.from = work_requested[r]
    /\ m.from \in Ranks /\ m.items \in SUBSET Items
    /\ Between(r, m.from) = {m} /\ <<r, m.from>> \notin request
    /\ reply' = reply \ {m}
    /\ work_requested' = [work_requested EXCEPT ![r] = NoRank]
    /\ m.items = {} => UNCHANGED <<queue, receipt>>
    /\ m.items # {} => /\ queue' = [queue EXCEPT ![r] = m.items]
                       /\ receipt' = [receipt EXCEPT ![<<r, m.from>>] = @ + 1]
    /\ UNCHANGED <<phase, work_outstanding, request, termvars, barriervars, items>>

LEMMA ReceiveEffect ==
  ASSUME NEW r \in Ranks, TypeOK, Handshake, Receive(r)
  PROVE  \E m : Received(r, m)
<1>1. PICK m \in reply :
         /\ m.to = r /\ m.from = work_requested[r]
         /\ reply' = reply \ {m}
         /\ IF m.items = {}
              THEN UNCHANGED <<queue, receipt>>
              ELSE /\ queue' = [queue EXCEPT ![r] = m.items]
                   /\ receipt' = [receipt EXCEPT ![<<r, m.from>>] = @ + 1]
  BY DEF Receive
<1>2. m.from \in Ranks /\ m.items \in SUBSET Items
  BY DEF TypeOK, Replies
<1>3. HandshakeOf(r, m.from) /\ m \in Between(r, m.from)
  BY <1>1, <1>2, HandshakeParts DEF Between
<1>4. Between(r, m.from) = {m} /\ <<r, m.from>> \notin request
  BY <1>1, <1>3 DEF HandshakeOf
<1> QED BY <1>1, <1>2, <1>4 DEF Received, Receive

LEMMA ReceivedHandshake ==
  ASSUME NEW r \in Ranks, TypeOK, Handshake, NEW m, Received(r, m)
  PROVE  Handshake'
<1> SUFFICES ASSUME NEW x \in Ranks, NEW y \in Ranks PROVE HandshakeOf(x, y)'
  BY HandshakePartsNext
<1>1. HandshakeOf(x, y) /\ request' = request /\ NoRank \notin Ranks
  BY HandshakeParts, RanksAssumption DEF Received
<1>2. CASE x = r
  <2>1. work_requested'[x] = NoRank
    BY <1>2 DEF Received, TypeOK
  <2>2. Between(x, y)' = {}
    BY <1>1, <1>2 DEF Received, Between, HandshakeOf
  <2>3. <<x, y>> \notin request
    BY <1>1, <1>2 DEF Received, HandshakeOf
  <2> QED BY <1>1, <2>1, <2>2, <2>3 DEF HandshakeOf
<1>3. CASE x # r
  <2>1. work_requested'[x] = work_requested[x]
    BY <1>3 DEF Received, TypeOK
  <2>2. Between(x, y)' = Between(x, y)
    BY <1>3 DEF Received, Between
  <2> QED BY <1>1, <2>1, <2>2 DEF HandshakeOf, Received, Between
<1> QED BY <1>2, <1>3

-----------------------------------------------------------------------------
(* Where the items are.                                                      *)

Accounted == \A i : i \in created <=> \/ i \in processed
                                      \/ \E r \in Ranks : i \in queue[r]
                                      \/ \E m \in reply : i \in m.items
Apart == /\ \A i : \A r \in Ranks : i \in queue[r] =>
              /\ i \notin processed
              /\ \A s \in Ranks : s # r => i \notin queue[s]
              /\ \A m \in reply : i \notin m.items
         /\ \A i : \A m \in reply : i \in m.items =>
              /\ i \notin processed
              /\ \A n \in reply : n # m => i \notin n.items

LEMMA OnceParts == EachItemOnce <=> Accounted /\ Apart
<1>1. created = processed \cup UNION ({queue[r] : r \in Ranks} \cup {m.items : m \in reply})
      <=> Accounted
  BY DEF Accounted
<1>2. (/\ \A r \in Ranks : /\ queue[r] \cap processed = {}
                           /\ \A s \in Ranks \ {r} : queue[r] \cap queue[s] = {}
                           /\ \A m \in reply : queue[r] \cap m.items = {}
       /\ \A m \in reply : /\ m.items \cap processed = {}
                           /\ \A n \in reply \ {m} : m.items \cap n.items = {}) <=> Apart
  BY DEF Apart
<1> QED BY <1>1, <1>2, Zenon DEF EachItemOnce

LEMMA OncePartsNext == Accounted' /\ Apart' => EachItemOnce'
BY OnceParts, PTL

LEMMA InitOnce == Init => EachItemOnce
<1> SUFFICES ASSUME Init PROVE Accounted /\ Apart
  BY OnceParts
<1>1. Accounted
  BY DEF Init, Accounted
<1>2. \A r, s \in Ranks : r # s => queue[r] \cap queue[s] = {}
  BY ItemsAssumption DEF Init
<1>3. Apart
  BY <1>2 DEF Init, Apart
<1> QED BY <1>1, <1>3

LEMMA OnceKept ==
  ASSUME EachItemOnce, UNCHANGED <<queue, reply, created, processed>>
  PROVE  EachItemOnce'
BY OnceParts, OncePartsNext DEF Accounted, Apart

LEMMA ProcessOnce ==
  ASSUME NEW r \in Ranks, TypeOK, EachItemOnce, Process(r)
  PROVE  EachItemOnce'
<1>1. PICK i \in queue[r], new \in Fresh :
         /\ queue' = [queue EXCEPT ![r] = (@ \ {i}) \cup new]
         /\ processed' = processed \cup {i}
         /\ created' = created \cup new
  BY DEF Process
<1>2. reply' = reply /\ \A j \in new : j \notin created
  BY DEF Process, Fresh
<1>3. Accounted /\ Apart
  BY OnceParts
<1>4. /\ queue'[r] = (queue[r] \ {i}) \cup new
      /\ \A s \in Ranks : s # r => queue'[s] = queue[s]
  BY <1>1 DEF TypeOK
<1>5. Accounted'
  BY <1>1, <1>2, <1>3, <1>4 DEF Accounted, Apart
<1>6. Apart'
  BY <1>1, <1>2, <1>3, <1>4 DEF Accounted, Apart
<1> QED BY <1>5, <1>6, OncePartsNext

LEMMA ServedOnce ==
  ASSUME NEW r \in Ranks, TypeOK, EachItemOnce,
         NEW requestors, NEW share, Served(r, requestors, share)
  PROVE  EachItemOnce'
<1> DEFINE sent(s) == [from |-> r, to |-> s, items |-> share[s]]
<1>1. /\ \A s \in requestors : share[s] \subseteq queue[r]
      /\ \A s, t \in requestors : s # t => share[s] \cap share[t] = {}
      /\ reply' = reply \cup {sent(s) : s \in requestors}
      /\ queue' = [queue EXCEPT ![r] = @ \ UNION {share[s] : s \in requestors}]
      /\ UNCHANGED <<created, processed>>
  BY DEF Served, items
<1>2. \A s : sent(s).items = share[s]
  OBVIOUS
<1> HIDE DEF sent
<1>3. Accounted /\ Apart
  BY OnceParts
<1>4. /\ \A j : j \in queue'[r] <=> j \in queue[r] /\ \A s \in requestors : j \notin share[s]
      /\ \A s \in Ranks : s # r => queue'[s] = queue[s]
  BY <1>1 DEF TypeOK
<1>5. \A m : m \in reply' <=> m \in reply \/ \E s \in requestors : m = sent(s)
  BY <1>1
<1>6. Accounted'
  BY <1>1, <1>2, <1>3, <1>4, <1>5 DEF Accounted
<1>7. ASSUME NEW j, NEW s \in Ranks, j \in queue'[s]
      PROVE  /\ j \notin processed' /\ (\A t \in Ranks : t # s => j \notin queue'[t])
             /\ \A m \in reply' : j \notin m.items
  <2>1. j \in queue[s]
    BY <1>4, <1>7
  <2>2. j \notin processed' /\ \A t \in Ranks : t # s => j \notin queue'[t]
    BY <1>1, <1>3, <1>4, <2>1 DEF Apart
  <2>3. \A m \in reply : j \notin m.items
    BY <1>3, <2>1 DEF Apart
  <2>4. \A t \in requestors : j \notin sent(t).items
    BY <1>1, <1>2, <1>3, <1>4, <1>7, <2>1 DEF Apart
  <2> QED BY <1>5, <2>2, <2>3, <2>4
<1>8. ASSUME NEW j, NEW m \in reply', j \in m.items
      PROVE  j \notin processed' /\ \A n \in reply' : n # m => j \notin n.items
  <2>1. CASE m \in reply
    <3>1. j \notin processed' /\ j \notin queue[r]
          /\ \A n \in reply : n # m => j \notin n.items
      BY <1>1, <1>3, <1>8, <2>1 DEF Apart
    <3>2. \A t \in requestors : j \notin sent(t).items
      BY <1>1, <1>2, <3>1
    <3> QED BY <1>5, <3>1, <3>2
  <2>2. CASE \E s \in requestors : m = sent(s)
    <3>1. PICK s \in requestors : m = sent(s)
      BY <2>2
    <3>2. j \in share[s] /\ j \in queue[r]
      BY <1>1, <1>2, <1>8, <3>1
    <3>3. j \notin processed' /\ \A n \in reply : j \notin n.items
      BY <1>1, <1>3, <3>2 DEF Apart
    <3>4. \A t \in requestors : t # s => j \notin sent(t).items
      BY <1>1, <1>2, <3>2
    <3> QED BY <1>5, <3>1, <3>3, <3>4
  <2> QED BY <1>5, <2>1, <2>2
<1>9. Apart'
  BY <1>7, <1>8 DEF Apart
<1> QED BY <1>6, <1>9, OncePartsNext

LEMMA ReceivedOnce ==
  ASSUME NEW r \in Ranks, TypeOK, EachItemOnce, NEW m, Received(r, m),
         m.items # {} => queue[r] = {}
  PROVE  EachItemOnce'
<1>1. Accounted /\ Apart /\ UNCHANGED <<created, processed>>
  BY OnceParts DEF Received, items
<1>2. m \in reply /\ reply' = reply \ {m}
  BY DEF Received
<1>3. CASE m.items = {}
  <2>1. queue' = queue
    BY <1>3 DEF Received
  <2> QED BY <1>1, <1>2, <1>3, <2>1, OncePartsNext DEF Accounted, Apart
<1>4. CASE m.items # {}
  <2>1. queue[r] = {} /\ queue'[r] = m.items /\ \A s \in Ranks : s # r => queue'[s] = queue[s]
    BY <1>4 DEF Received, TypeOK
  <2>2. Accounted'
    BY <1>1, <1>2, <2>1 DEF Accounted
  <2>3. Apart'
    BY <1>1, <1>2, <2>1 DEF Apart
  <2> QED BY <2>2, <2>3, OncePartsNext
<1> QED BY <1>3, <1>4

-----------------------------------------------------------------------------
(* Acknowledgements.                                                         *)

AckedOf(r) == /\ IsFiniteSet(Unacknowledged(r))
              /\ work_outstanding[r] = Cardinality(Unacknowledged(r))

LEMMA AckedKept ==
  ASSUME NEW r \in Ranks, AckedOf(r), Work(r)' = Work(r),
         \A s \in Ranks : receipt'[<<s, r>>] = receipt[<<s, r>>],
         work_outstanding'[r] = work_outstanding[r]
  PROVE  AckedOf(r)'
<1>1. Unacknowledged(r)' = Unacknowledged(r)
  BY DEF Unacknowledged
<1> QED BY <1>1 DEF AckedOf

LEMMA InitAcked == Init => Acked
<1> SUFFICES ASSUME Init, NEW r \in Ranks PROVE AckedOf(r)
  BY DEF Acked, AckedOf
<1>1. Work(r) = {} /\ \A s \in Ranks : receipt[<<s, r>>] = 0
  BY DEF Init, Work, Pairs
<1>2. Unacknowledged(r) = {}
  BY <1>1 DEF Unacknowledged
<1> QED BY <1>2, FS_EmptySet DEF AckedOf, Init

LEMMA ServedAcked ==
  ASSUME NEW r \in Ranks, TypeOK, Handshake, Acked,
         NEW requestors, NEW share, Served(r, requestors, share)
  PROVE  Acked'
<1> DEFINE sent(s) == [from |-> r, to |-> s, items |-> share[s]]
           given == {s \in requestors : share[s] # {}}
<1>1. /\ requestors \subseteq Ranks
      /\ \A s \in requestors : <<s, r>> \in request
      /\ reply' = reply \cup {sent(s) : s \in requestors}
      /\ work_outstanding' = [work_outstanding EXCEPT ![r] = @ + Cardinality(given)]
      /\ receipt' = receipt
  BY DEF Served, WorkMessages
<1>2. \A s : sent(s).from = r /\ sent(s).to = s /\ sent(s).items = share[s]
  OBVIOUS
<1> HIDE DEF sent
<1> SUFFICES ASSUME NEW x \in Ranks PROVE AckedOf(x)'
  BY DEF Acked, AckedOf
<1>3. AckedOf(x)
  BY DEF Acked, AckedOf
<1>4. CASE x # r
  <2>1. Work(x)' = Work(x)
    BY <1>1, <1>2, <1>4 DEF Work
  <2> QED BY <1>1, <1>3, <1>4, <2>1, AckedKept DEF TypeOK
<1>5. CASE x = r
  <2>1. \A s \in requestors : s \notin Work(r)
    <3>1. \A s \in requestors : HandshakeOf(s, r)
      BY <1>1, HandshakeParts
    <3>2. \A s \in requestors : Between(s, r) = {}
      BY <1>1, <3>1 DEF HandshakeOf
    <3> QED BY <3>2 DEF Between, Work
  <2>2. Work(r)' = Work(r) \cup given
    BY <1>1, <1>2 DEF Work
  <2>3. Unacknowledged(r)' = Unacknowledged(r) \cup (given \X {0})
    BY <1>1, <2>2 DEF Unacknowledged
  <2>4. Unacknowledged(r) \cap (given \X {0}) = {}
    BY <2>1 DEF Unacknowledged
  <2>5. /\ IsFiniteSet(given) /\ Cardinality(given) \in Nat
        /\ IsFiniteSet(given \X {0}) /\ Cardinality(given \X {0}) = Cardinality(given)
    <3>1. given \subseteq Ranks
      BY <1>1
    <3>2. IsFiniteSet({0}) /\ Cardinality({0}) = 1
      BY FS_Singleton
    <3>3. IsFiniteSet(given) /\ Cardinality(given) \in Nat
      BY <3>1, FiniteRanks
    <3> HIDE DEF given
    <3>4. IsFiniteSet(given \X {0}) /\ Cardinality(given \X {0}) = Cardinality(given) * Cardinality({0})
      BY <3>2, <3>3, FS_Product
    <3> QED BY <3>2, <3>3, <3>4
  <2> HIDE DEF given
  <2>6. /\ IsFiniteSet(Unacknowledged(r)')
        /\ Cardinality(Unacknowledged(r)') = Cardinality(Unacknowledged(r)) + Cardinality(given)
    <3>1. IsFiniteSet(Unacknowledged(r)) /\ Cardinality(Unacknowledged(r)) \in Nat
      BY <1>3, <1>5, FS_CardinalityType DEF AckedOf
    <3>2. /\ IsFiniteSet(Unacknowledged(r) \cup (given \X {0}))
          /\ Cardinality(Unacknowledged(r) \cup (given \X {0})) =
               Cardinality(Unacknowledged(r)) + Cardinality(given \X {0})
               - Cardinality(Unacknowledged(r) \cap (given \X {0}))
      BY <2>5, <3>1, FS_Union
    <3>3. Cardinality(Unacknowledged(r) \cap (given \X {0})) = 0
      BY <2>4, FS_EmptySet
    <3>4. /\ IsFiniteSet(Unacknowledged(r) \cup (given \X {0}))
          /\ Cardinality(Unacknowledged(r) \cup (given \X {0})) =
               Cardinality(Unacknowledged(r)) + Cardinality(given)
      BY <2>5, <3>1, <3>2, <3>3
    <3> QED BY <2>3, <3>4
  <2> QED BY <1>1, <1>3, <1>5, <2>5, <2>6 DEF AckedOf, TypeOK
<1> QED BY <1>4, <1>5

LEMMA TakeReceiptAcked ==
  ASSUME NEW r \in Ranks, TypeOK, Acked, TakeReceipt(r)
  PROVE  Acked'
<1>1. PICK s \in Ranks : /\ receipt[<<s, r>>] > 0
                         /\ receipt' = [receipt EXCEPT ![<<s, r>>] = @ - 1]
  BY DEF TakeReceipt
<1> DEFINE k == receipt[<<s, r>>]
<1>2. /\ k \in Nat /\ k > 0 /\ receipt'[<<s, r>>] = k - 1
      /\ \A t, x \in Ranks : t # s \/ x # r => receipt'[<<t, x>>] = receipt[<<t, x>>]
  BY <1>1 DEF TypeOK, Pairs
<1>3. /\ reply' = reply /\ work_outstanding' = [work_outstanding EXCEPT ![r] = @ - 1]
      /\ \A x : Work(x)' = Work(x)
  BY DEF TakeReceipt, Work
<1> HIDE DEF k
<1> SUFFICES ASSUME NEW x \in Ranks PROVE AckedOf(x)'
  BY DEF Acked, AckedOf
<1>4. AckedOf(x)
  BY DEF Acked, AckedOf
<1>5. CASE x # r
  BY <1>2, <1>3, <1>4, <1>5, AckedKept DEF TypeOK
<1>6. CASE x = r
  <2>1. Unacknowledged(r)' = Unacknowledged(r) \ {<<s, k>>}
    BY <1>2, <1>3 DEF Unacknowledged, k
  <2>2. <<s, k>> \in Unacknowledged(r)
    BY <1>2 DEF Unacknowledged, k
  <2>3. /\ IsFiniteSet(Unacknowledged(r)')
        /\ Cardinality(Unacknowledged(r)') = Cardinality(Unacknowledged(r)) - 1
    BY <1>4, <1>6, <2>1, <2>2, FS_RemoveElement DEF AckedOf
  <2> QED BY <1>3, <1>4, <1>6, <2>3 DEF AckedOf, TypeOK
<1> QED BY <1>5, <1>6

LEMMA ReceivedAcked ==
  ASSUME NEW r \in Ranks, TypeOK, Acked, NEW m, Received(r, m)
  PROVE  Acked'
<1> DEFINE w == m.from
           k == receipt[<<r, w>>]
<1>1. /\ w \in Ranks /\ m \in reply /\ m.to = r /\ reply' = reply \ {m}
      /\ work_outstanding' = work_outstanding
      /\ \A n \in reply : n.to = r /\ n.from = w => n = m
  BY DEF Received, Between
<1> SUFFICES ASSUME NEW x \in Ranks PROVE AckedOf(x)'
  BY DEF Acked, AckedOf
<1>2. AckedOf(x)
  BY DEF Acked, AckedOf
<1>3. CASE m.items = {}
  <2>1. Work(x)' = Work(x) /\ receipt' = receipt
    BY <1>1, <1>3 DEF Work, Received
  <2> QED BY <1>1, <1>2, <2>1, AckedKept
<1>4. CASE m.items # {}
  <2>1. /\ k \in Nat /\ receipt'[<<r, w>>] = k + 1
        /\ \A t, y \in Ranks : t # r \/ y # w => receipt'[<<t, y>>] = receipt[<<t, y>>]
    BY <1>1, <1>4 DEF Received, TypeOK, Pairs
  <2>2. CASE x # w
    <3>1. Work(x)' = Work(x)
      BY <1>1, <2>2 DEF Work
    <3> QED BY <1>1, <1>2, <2>1, <2>2, <3>1, AckedKept
  <2>3. CASE x = w
    <3>1. r \in Work(w) /\ Work(w)' = Work(w) \ {r}
      BY <1>1, <1>4 DEF Work
    <3>2. Unacknowledged(w)' = (Unacknowledged(w) \ {<<r, 0>>}) \cup {<<r, k + 1>>}
      BY <1>1, <2>1, <3>1 DEF Unacknowledged
    <3>3. <<r, 0>> \in Unacknowledged(w) /\ <<r, k + 1>> \notin Unacknowledged(w)
      BY <1>1, <2>1, <3>1 DEF Unacknowledged
    <3> DEFINE rest == Unacknowledged(w) \ {<<r, 0>>}
    <3>4. /\ IsFiniteSet(rest) /\ Cardinality(rest) = Cardinality(Unacknowledged(w)) - 1
          /\ <<r, k + 1>> \notin rest
      BY <1>2, <2>3, <3>3, FS_RemoveElement DEF AckedOf
    <3>5. IsFiniteSet(Unacknowledged(w)) /\ Cardinality(Unacknowledged(w)) \in Nat
      BY <1>2, <2>3, FS_CardinalityType DEF AckedOf
    <3> HIDE DEF rest
    <3>6. /\ IsFiniteSet(rest \cup {<<r, k + 1>>})
          /\ Cardinality(rest \cup {<<r, k + 1>>}) = Cardinality(rest) + 1
      BY <3>4, FS_AddElement
    <3>7. Unacknowledged(w)' = rest \cup {<<r, k + 1>>}
      BY <3>2 DEF rest
    <3> QED BY <1>1, <1>2, <2>3, <3>4, <3>5, <3>6, <3>7 DEF AckedOf
  <2> QED BY <2>2, <2>3
<1> QED BY <1>3, <1>4

LEMMA AckedUnchanged ==
  ASSUME Acked, UNCHANGED <<reply, receipt, work_outstanding>>
  PROVE  Acked'
<1>1. \A r \in Ranks : Unacknowledged(r)' = Unacknowledged(r)
  BY DEF Unacknowledged, Work
<1> QED BY <1>1 DEF Acked

-----------------------------------------------------------------------------
(* The termination allreduce: what is heard, and the four steps.             *)

LEMMA HeardChildren ==
  ASSUME TypeOK, Edges, Counts, NEW r \in Ranks, NEW seen \in Heard(r)
  PROVE  /\ seen \subseteq Children(r)
         /\ term_up[r] => seen = {}
         /\ \A c \in seen : turn[c] # turn[r] /\ term[<<c, r>>] # NoFlag
<1>1. seen \subseteq Ranks /\ \A s \in seen : term[<<s, r>>] # NoFlag
  BY DEF Heard
<1>2. IsFiniteSet(seen) /\ Cardinality(seen) \in Nat
      /\ Cardinality(seen) <= Cardinality(Children(r)) - term_replies[r]
  BY <1>1, FiniteRanks DEF Heard
<1>3. CASE term_up[r]
  <2>1. Cardinality(seen) = 0
    BY <1>2, <1>3, ChildrenFinite DEF Counts
  <2> QED BY <1>2, <2>1, FS_EmptySet
<1>4. CASE ~term_up[r]
  <2>1. ASSUME NEW s \in seen PROVE s \in Children(r)
    <3>1. s \in Children(r) \/ r \in Children(s)
      BY <1>1, <2>1 DEF Edges
    <3>2. ASSUME r \in Children(s) PROVE FALSE
      <4>1. r \in Ranks \ {Root} /\ Parent[r] = s
        BY <3>2 DEF Children
      <4>2. Edge(r, s)
        BY <4>1 DEF Edges
      <4> QED BY <1>1, <1>4, <2>1, <4>2 DEF Edge
    <3> QED BY <3>1, <3>2
  <2>2. ASSUME NEW c \in seen PROVE turn[c] # turn[r]
    <3>1. c \in Ranks \ {Root} /\ Parent[c] = r
      BY <2>1, <2>2 DEF Children
    <3>2. Edge(c, r)
      BY <3>1 DEF Edges
    <3> QED BY <1>1, <2>2, <3>2 DEF Edge
  <2> QED BY <1>1, <1>4, <2>1, <2>2
<1> QED BY <1>3, <1>4

LEMMA HeardCount ==
  ASSUME TypeOK, Edges, Counts, NEW r \in Ranks, NEW seen \in Heard(r), ~term_up[r]
  PROVE  /\ term_replies[r] + Cardinality(seen) = Cardinality(HeardFrom(r) \cup seen)
         /\ HeardFrom(r) \cup seen \subseteq Children(r)
         /\ term_replies[r] + Cardinality(seen) = Cardinality(Children(r))
              => HeardFrom(r) \cup seen = Children(r)
<1>1. seen \subseteq Children(r) /\ HeardFrom(r) \subseteq Children(r)
      /\ HeardFrom(r) \cap seen = {}
  BY HeardChildren DEF HeardFrom
<1>2. Children(r) \subseteq Ranks
  BY TreeShape
<1>3. /\ IsFiniteSet(seen) /\ Cardinality(seen) \in Nat
      /\ IsFiniteSet(HeardFrom(r)) /\ Cardinality(HeardFrom(r)) \in Nat
  BY <1>1, <1>2, FiniteRanks
<1>4. Cardinality(HeardFrom(r) \cup seen) =
        Cardinality(HeardFrom(r)) + Cardinality(seen) - Cardinality(HeardFrom(r) \cap seen)
  BY <1>3, FS_Union
<1>5. Cardinality(HeardFrom(r) \cap seen) = 0
  BY <1>1, FS_EmptySet
<1>6. term_replies[r] + Cardinality(seen) = Cardinality(HeardFrom(r) \cup seen)
  BY <1>3, <1>4, <1>5 DEF Counts
<1>7. HeardFrom(r) \cup seen \in SUBSET Children(r)
  BY <1>1
<1>8. Cardinality(Children(r)) = Cardinality(HeardFrom(r) \cup seen)
        => Children(r) = HeardFrom(r) \cup seen
  BY <1>7, ChildrenFinite, FS_Subset
<1> QED BY <1>6, <1>7, <1>8

\* The channels after an exchange, one by one.
Channels(r, seen, to, flag) ==
    \A x, y \in Ranks : term'[<<x, y>>] = IF y = r /\ x \in seen THEN NoFlag
                                          ELSE IF x = r /\ y \in to THEN flag
                                          ELSE term[<<x, y>>]

LEMMA ExchangedChannels ==
  ASSUME NEW r, NEW seen, NEW to, NEW flag, term' = Exchanged(r, seen, to, flag)
  PROVE  Channels(r, seen, to, flag)
BY DEF Channels, Exchanged, Pairs

WaitStep(r, seen) ==
    /\ ~term_up[r]
    /\ Channels(r, seen, {}, 0)
    /\ term_flag' = [term_flag EXCEPT ![r] = AndFlags(r, seen)]
    /\ term_replies' = [term_replies EXCEPT ![r] = Cardinality(HeardFrom(r) \cup seen)]
    /\ UNCHANGED <<term_up, turn, phase>>
ContributeStep(r, seen) ==
    /\ r # Root /\ ~term_up[r] /\ HeardFrom(r) \cup seen = Children(r)
    /\ work_outstanding[r] = 0
    /\ Channels(r, seen, {Parent[r]}, AndFlags(r, seen))
    /\ term_flag' = [term_flag EXCEPT ![r] = 1]
    /\ term_up' = [term_up EXCEPT ![r] = TRUE]
    /\ term_replies' = [term_replies EXCEPT ![r] = Cardinality(Children(r))]
    /\ turn' = [turn EXCEPT ![r] = ~@]
    /\ UNCHANGED phase
RootStep(r, seen) ==
    /\ r = Root /\ ~term_up[r] /\ HeardFrom(r) \cup seen = Children(r)
    /\ work_outstanding[r] = 0
    /\ Channels(r, seen, Children(r), AndFlags(r, seen))
    /\ term_flag' = [term_flag EXCEPT ![r] = 1]
    /\ term_up' = [term_up EXCEPT ![r] = FALSE]
    /\ term_replies' = [term_replies EXCEPT ![r] = 0]
    /\ turn' = [turn EXCEPT ![r] = ~@]
    /\ phase' = [phase EXCEPT ![r] = IF AndFlags(r, seen) = 1 THEN "cleanup" ELSE @]
DownStep(r) ==
    /\ r # Root /\ term_up[r] /\ term[<<Parent[r], r>>] # NoFlag
    /\ Channels(r, {Parent[r]}, Children(r), term[<<Parent[r], r>>])
    /\ term_up' = [term_up EXCEPT ![r] = FALSE]
    /\ term_replies' = [term_replies EXCEPT ![r] = 0]
    /\ phase' = [phase EXCEPT ![r] = IF term[<<Parent[r], r>>] = 1 THEN "cleanup" ELSE @]
    /\ UNCHANGED <<term_flag, turn>>

LEMMA CheckForTermSteps ==
  ASSUME TypeOK, Edges, Counts, NEW r \in Ranks, CheckForTerm(r)
  PROVE  \/ \E seen \in Heard(r) : WaitStep(r, seen) \/ ContributeStep(r, seen) \/ RootStep(r, seen)
         \/ DownStep(r)
<1>1. PICK seen \in Heard(r) :
         LET flag == AndFlags(r, seen)
             replies == term_replies[r] + Cardinality(seen)
             complete == replies = Cardinality(Children(r))
         IN \/ Waits(r, flag, replies, seen)
            \/ /\ MayContribute(r) /\ ~term_up[r] /\ complete /\ r # Root
               /\ Contributes(r, flag, replies, seen)
            \/ /\ MayContribute(r) /\ complete /\ r = Root
               /\ Completes(r, flag, seen)
               /\ term_flag' = [term_flag EXCEPT ![r] = FreshFlag(r)]
               /\ turn' = [turn EXCEPT ![r] = ~@]
            \/ /\ MayContribute(r) /\ term_up[r] /\ r # Root /\ term[<<Parent[r], r>>] # NoFlag
               /\ Completes(r, term[<<Parent[r], r>>], {Parent[r]})
               /\ UNCHANGED <<term_flag, turn>>
  BY DEF CheckForTerm
<1> DEFINE flag == AndFlags(r, seen)
           replies == term_replies[r] + Cardinality(seen)
<1>2. CASE Waits(r, flag, replies, seen)
  <2>1. ~term_up[r]
    BY <1>2, HeardChildren DEF Waits
  <2>2. replies = Cardinality(HeardFrom(r) \cup seen)
    BY <2>1, HeardCount
  <2>3. Channels(r, seen, {}, 0)
    BY <1>2 DEF Waits, Exchanged, Channels, Pairs
  <2> QED BY <1>2, <2>1, <2>2, <2>3 DEF WaitStep, Waits
<1>3. CASE /\ MayContribute(r) /\ ~term_up[r] /\ replies = Cardinality(Children(r)) /\ r # Root
           /\ Contributes(r, flag, replies, seen)
  <2>1. HeardFrom(r) \cup seen = Children(r)
    BY <1>3, HeardCount
  <2>2. Channels(r, seen, {Parent[r]}, flag)
    BY <1>3, ExchangedChannels DEF Contributes
  <2> QED BY <1>3, <2>1, <2>2 DEF ContributeStep, Contributes, MayContribute, FreshFlag
<1>4. CASE /\ MayContribute(r) /\ replies = Cardinality(Children(r)) /\ r = Root
           /\ Completes(r, flag, seen)
           /\ term_flag' = [term_flag EXCEPT ![r] = FreshFlag(r)]
           /\ turn' = [turn EXCEPT ![r] = ~@]
  <2>1. ~term_up[r]
    BY <1>4 DEF Edges
  <2>2. HeardFrom(r) \cup seen = Children(r)
    BY <1>4, <2>1, HeardCount
  <2>3. Channels(r, seen, Children(r), flag)
    BY <1>4, ExchangedChannels DEF Completes
  <2> QED BY <1>4, <2>1, <2>2, <2>3 DEF RootStep, Completes, MayContribute, FreshFlag
<1>5. CASE /\ MayContribute(r) /\ term_up[r] /\ r # Root /\ term[<<Parent[r], r>>] # NoFlag
           /\ Completes(r, term[<<Parent[r], r>>], {Parent[r]})
           /\ UNCHANGED <<term_flag, turn>>
  <2>1. Channels(r, {Parent[r]}, Children(r), term[<<Parent[r], r>>])
    BY <1>5, ExchangedChannels DEF Completes
  <2> QED BY <1>5, <2>1 DEF DownStep, Completes
<1> QED BY <1>1, <1>2, <1>3, <1>4, <1>5

LEMMA CheckForTermPhase ==
  ASSUME TypeOK, Edges, Counts, NEW r \in Ranks, CheckForTerm(r)
  PROVE  phase' = phase \/ phase' = [phase EXCEPT ![r] = "cleanup"]
<1>1. [phase EXCEPT ![r] = phase[r]] = phase
  BY DEF TypeOK
<1> QED BY <1>1, CheckForTermSteps DEF WaitStep, ContributeStep, RootStep, DownStep

-----------------------------------------------------------------------------
(* The tree invariants.                                                      *)

LEMMA Relatives ==
  ASSUME NEW c \in Ranks \ {Root}
  PROVE  /\ Parent[c] \in Ranks /\ Parent[c] # c /\ c \in Children(Parent[c])
         /\ Parent[c] \notin Children(c)
BY TreeShape, RanksAssumption

LEMMA EdgeOf ==
  ASSUME Edges, NEW p \in Ranks, NEW c \in Children(p)
  PROVE  Edge(c, p) /\ c \in Ranks \ {Root} /\ Parent[c] = p /\ c # p /\ p \notin Children(c)
BY TreeShape DEF Edges, Children

LEMMA InitTree == Init => Edges /\ Counts /\ Turns
<1> SUFFICES ASSUME Init PROVE Edges /\ Counts /\ Turns
  OBVIOUS
<1>1. \A s, r \in Ranks : term[<<s, r>>] = NoFlag
  BY DEF Init, Pairs
<1>2. \A r \in Ranks : ~term_up[r] /\ turn[r] = FALSE /\ term_replies[r] = 0
  BY DEF Init
<1>3. Edges
  BY <1>1, <1>2, Relatives, RanksAssumption, ZenonT(30) DEF Edges, Edge
<1>4. \A r \in Ranks : HeardFrom(r) = {}
  BY <1>2, TreeShape DEF HeardFrom
<1>5. Counts
  BY <1>2, <1>4, FS_EmptySet DEF Counts
<1>6. Turns
  BY <1>1, <1>2, Relatives, RanksAssumption DEF Turns, Contributed
<1> QED BY <1>3, <1>5, <1>6

LEMMA TreeKept ==
  ASSUME Edges, Counts, Turns, UNCHANGED <<term, term_up, term_replies, turn>>
  PROVE  Edges' /\ Counts' /\ Turns'
<1>1. Edges'
  BY DEF Edges, Edge
<1>2. \A p \in Ranks : HeardFrom(p)' = HeardFrom(p)
  BY DEF HeardFrom
<1>3. Counts'
  BY <1>2 DEF Counts
<1>4. Turns'
  BY DEF Turns, Contributed
<1> QED BY <1>1, <1>3, <1>4

LEMMA WaitTree ==
  ASSUME TypeOK, Edges, Counts, Turns, NEW r \in Ranks, NEW seen \in Heard(r), WaitStep(r, seen)
  PROVE  Edges' /\ Counts' /\ Turns'
<1>1. seen \subseteq Children(r) /\ \A c \in seen : turn[c] # turn[r]
  BY HeardChildren
<1>2. \A x, y \in Ranks : term'[<<x, y>>] = IF y = r /\ x \in seen THEN NoFlag ELSE term[<<x, y>>]
  BY DEF WaitStep, Channels
<1>3. UNCHANGED <<term_up, turn>> /\ ~term_up[r]
  BY DEF WaitStep
<1>4. \A c \in Ranks \ {Root} : term'[<<Parent[c], c>>] = term[<<Parent[c], c>>]
  BY <1>1, <1>2, Relatives
<1>5. Edges'
  <2>1. \A c \in Ranks \ {Root} : Edge(c, Parent[c])'
    BY <1>2, <1>3, <1>4, Relatives DEF Edges, Edge
  <2> QED BY <1>2, <1>3, <2>1 DEF Edges
<1>6. HeardFrom(r)' = HeardFrom(r) \cup seen
  BY <1>1, <1>2, <1>3, TreeShape DEF HeardFrom
<1>7. \A p \in Ranks : p # r => HeardFrom(p)' = HeardFrom(p)
  BY <1>2, <1>3, TreeShape DEF HeardFrom
<1>8. Counts'
  BY <1>3, <1>6, <1>7 DEF Counts, WaitStep, TypeOK
<1>9. Turns'
  BY <1>3, <1>4 DEF Turns, Contributed
<1> QED BY <1>5, <1>8, <1>9

LEMMA ContributeTree ==
  ASSUME TypeOK, Edges, Counts, Turns, NEW r \in Ranks, NEW seen \in Heard(r),
         ContributeStep(r, seen)
  PROVE  Edges' /\ Counts' /\ Turns'
<1> DEFINE p == Parent[r]
           flag == AndFlags(r, seen)
<1>1. seen \subseteq Children(r) /\ HeardFrom(r) \cup seen = Children(r)
      /\ \A c \in seen : turn[c] # turn[r]
  BY HeardChildren DEF ContributeStep
<1>2. r # Root /\ p \in Ranks /\ p # r /\ r \in Children(p) /\ p \notin Children(r) /\ Edge(r, p)
  BY Relatives DEF ContributeStep, Edges
<1>3. \A x, y \in Ranks : term'[<<x, y>>] = IF y = r /\ x \in seen THEN NoFlag
                                            ELSE IF x = r /\ y = p THEN flag
                                            ELSE term[<<x, y>>]
  BY DEF ContributeStep, Channels
<1>4. flag # NoFlag
  BY DEF AndFlags, NoFlag
<1>5. /\ ~term_up[r] /\ term_up'[r]
      /\ \A x \in Ranks : x # r => term_up'[x] = term_up[x] /\ turn'[x] = turn[x]
      /\ turn'[r] = ~turn[r] /\ \A x \in Ranks : turn[x] \in BOOLEAN
  BY DEF ContributeStep, TypeOK
<1> HIDE DEF flag
<1>6. turn[r] = turn[p] /\ term[<<p, r>>] = NoFlag /\ ~term_up[p]
  BY <1>2, <1>5 DEF Edge
<1>7. ASSUME NEW c \in Children(r)
      PROVE  /\ turn[c] # turn[r] /\ term_up[c] /\ term[<<r, c>>] = NoFlag
             /\ term'[<<c, r>>] = NoFlag /\ c \in Ranks \ {Root} /\ c # r /\ c # p
  <2>1. Edge(c, r) /\ c \in Ranks \ {Root} /\ c # r /\ c # p
    BY <1>2, EdgeOf
  <2>2. turn[c] # turn[r]
    BY <1>1 DEF HeardFrom
  <2>3. term'[<<c, r>>] = NoFlag
    BY <1>1, <1>3, <2>1 DEF HeardFrom
  <2> QED BY <2>1, <2>2, <2>3 DEF Edge
<1>8. ASSUME NEW c \in Ranks \ {Root} PROVE Edge(c, Parent[c])'
  <2>1. CASE c = r
    <3>1. term'[<<p, r>>] = NoFlag
      BY <1>1, <1>2, <1>3, <1>6
    <3> QED BY <1>2, <1>5, <1>6, <2>1, <3>1 DEF Edge
  <2>2. CASE Parent[c] = r
    <3>1. c \in Children(r)
      BY <2>2, Relatives
    <3>2. term'[<<r, c>>] = NoFlag
      <4>1. c \in Ranks /\ c # p /\ c # r /\ term[<<r, c>>] = NoFlag
        BY <1>7, <3>1
      <4> QED BY <1>3, <4>1
    <3>3. turn'[c] = turn'[r]
      <4>1. turn[c] # turn[r] /\ turn'[c] = turn[c]
        BY <1>5, <1>7, <3>1
      <4>2. turn[c] \in BOOLEAN /\ turn[r] \in BOOLEAN /\ turn'[r] = ~turn[r]
        BY <1>5
      <4> QED BY <4>1, <4>2
    <3>4. term_up'[c]
      <4>1. term_up'[c] = term_up[c] /\ term_up[c]
        BY <1>5, <1>7, <3>1
      <4> QED BY <4>1
    <3> QED BY <1>5, <1>7, <2>2, <3>1, <3>2, <3>3, <3>4 DEF Edge
  <2>3. CASE c # r /\ Parent[c] # r
    <3>1. Edge(c, Parent[c]) /\ Parent[c] \in Ranks
      BY Relatives DEF Edges
    <3>2. /\ term'[<<c, Parent[c]>>] = term[<<c, Parent[c]>>]
          /\ term'[<<Parent[c], c>>] = term[<<Parent[c], c>>]
      BY <1>3, <2>3, <3>1
    <3> QED BY <1>5, <2>3, <3>1, <3>2 DEF Edge
  <2> QED BY <2>1, <2>2, <2>3
<1>9. Edges'
  <2>1. ~term_up'[Root]
    BY <1>2, <1>5, RanksAssumption DEF Edges
  <2>2. \A x, y \in Ranks : x \notin Children(y) /\ y \notin Children(x) => term'[<<x, y>>] = NoFlag
    BY <1>2, <1>3 DEF Edges
  <2> QED BY <1>8, <2>1, <2>2 DEF Edges
<1>10. \A q \in Ranks : q # r => HeardFrom(q)' = HeardFrom(q)
  <2> SUFFICES ASSUME NEW q \in Ranks, q # r, NEW c \in Children(q)
               PROVE  c \in HeardFrom(q)' <=> c \in HeardFrom(q)
    BY DEF HeardFrom
  <2>1. c \in Ranks \ {Root} /\ Parent[c] = q
    BY EdgeOf
  <2>2. CASE c = r
    BY <1>2, <1>3, <1>4, <1>5, <1>6, <2>1, <2>2 DEF HeardFrom
  <2>3. CASE c # r
    BY <1>3, <1>5, <2>1, <2>3 DEF HeardFrom
  <2> QED BY <2>2, <2>3
<1>11. Counts'
  BY <1>5, <1>10 DEF Counts, ContributeStep, TypeOK
<1>12. Turns'
  <2>1. turn'[Root] = turn[Root]
    BY <1>2, <1>5, RanksAssumption
  <2>2. \A x \in Ranks \ {Root} : term'[<<Parent[x], x>>] # NoFlag => turn'[x] = turn'[Root]
    <3> SUFFICES ASSUME NEW x \in Ranks \ {Root}, term'[<<Parent[x], x>>] # NoFlag
                 PROVE  turn'[x] = turn'[Root]
      OBVIOUS
    <3>1. Parent[x] \in Ranks /\ ~(Parent[x] = r /\ x = p)
      BY <1>2, Relatives
    <3>2. term[<<Parent[x], x>>] # NoFlag
      BY <1>3, <3>1
    <3>3. x # r
      BY <1>6, <3>2
    <3> QED BY <1>5, <2>1, <3>2, <3>3 DEF Turns
  <2> QED BY <1>5, <2>1, <2>2 DEF Turns, Contributed
<1> QED BY <1>9, <1>11, <1>12


\* When all children of the root have contributed, every rank has.
LEMMA AllContributed ==
  ASSUME TypeOK, Edges, Turns, \A c \in Children(Root) : turn[c] # turn[Root]
  PROVE  \A x \in Ranks : x # Root => turn[x] # turn[Root] /\ term_up[x]
<1> DEFINE S == Contributed \cup {Root}
<1>1. S \in SUBSET Ranks /\ Root \in S
  BY RanksAssumption DEF Contributed
<1>2. ASSUME NEW x \in Ranks \ {Root}, Parent[x] \in S PROVE x \in S
  <2>1. x \in Children(Parent[x]) /\ Edge(x, Parent[x])
    BY Relatives DEF Edges
  <2>2. CASE Parent[x] = Root
    BY <2>1, <2>2 DEF Contributed
  <2>3. CASE Parent[x] \in Contributed
    <3>1. term_up[Parent[x]] /\ turn[Parent[x]] # turn[Root]
      BY <2>3 DEF Turns, Contributed
    <3>2. turn[x] = turn[Parent[x]]
      BY <2>1, <3>1 DEF Edge
    <3> QED BY <3>1, <3>2 DEF Contributed
  <2> QED BY <1>2, <2>2, <2>3
<1>3. S = Ranks
  BY <1>1, <1>2, RanksAssumption
<1> QED BY <1>3 DEF Turns, Contributed

LEMMA RootTree ==
  ASSUME TypeOK, Edges, Counts, Turns, NEW r \in Ranks, NEW seen \in Heard(r),
         RootStep(r, seen)
  PROVE  Edges' /\ Counts' /\ Turns' /\ \A x \in Ranks : turn'[x] = turn'[Root]
<1> DEFINE flag == AndFlags(r, seen)
<1>1. seen \subseteq Children(r) /\ HeardFrom(r) \cup seen = Children(r) /\ r = Root
      /\ \A c \in seen : turn[c] # turn[r]
  BY HeardChildren DEF RootStep
<1>2. \A x, y \in Ranks : term'[<<x, y>>] = IF y = r /\ x \in seen THEN NoFlag
                                            ELSE IF x = r /\ y \in Children(r) THEN flag
                                            ELSE term[<<x, y>>]
  BY DEF RootStep, Channels
<1>3. flag # NoFlag
  BY DEF AndFlags, NoFlag
<1>4. /\ ~term_up[r] /\ ~term_up'[r]
      /\ \A x \in Ranks : x # r => term_up'[x] = term_up[x] /\ turn'[x] = turn[x]
      /\ turn'[r] = ~turn[r] /\ \A x \in Ranks : turn[x] \in BOOLEAN
  BY DEF RootStep, TypeOK
<1> HIDE DEF flag
<1>5. \A c \in Children(r) : turn[c] # turn[r]
  BY <1>1 DEF HeardFrom
<1>6. \A x \in Ranks : x # r => turn[x] # turn[r] /\ term_up[x]
  BY <1>1, <1>5, AllContributed
<1>7. ASSUME NEW x \in Ranks PROVE turn'[x] = turn'[r]
  <2>1. CASE x # r
    <3>1. turn'[x] = turn[x] /\ turn[x] # turn[r]
      BY <1>4, <1>6, <2>1
    <3>2. turn[x] \in BOOLEAN /\ turn[r] \in BOOLEAN /\ turn'[r] = ~turn[r]
      BY <1>4
    <3> QED BY <3>1, <3>2
  <2> QED BY <2>1
<1>8. ASSUME NEW c \in Ranks \ {Root} PROVE Edge(c, Parent[c])'
  <2>1. CASE Parent[c] = r
    <3>1. c \in Children(r) /\ c # r /\ r \notin Children(c) /\ Edge(c, r)
      BY <2>1, Relatives DEF Edges
    <3>2. term'[<<c, r>>] = NoFlag
      BY <1>1, <1>2, <3>1 DEF HeardFrom
    <3>3. term'[<<r, c>>] # NoFlag
      <4>1. c \notin seen \/ r # c
        BY <3>1
      <4> QED BY <1>2, <1>3, <3>1
    <3>4. term_up'[c]
      <4>1. term_up'[c] = term_up[c] /\ term_up[c]
        BY <1>4, <1>6, <3>1
      <4> QED BY <4>1
    <3> QED BY <1>4, <1>7, <2>1, <3>2, <3>3, <3>4 DEF Edge
  <2>2. CASE Parent[c] # r
    <3>1. Edge(c, Parent[c]) /\ Parent[c] \in Ranks /\ c # r
      BY <1>1, Relatives DEF Edges
    <3>2. /\ term'[<<c, Parent[c]>>] = term[<<c, Parent[c]>>]
          /\ term'[<<Parent[c], c>>] = term[<<Parent[c], c>>]
      BY <1>2, <2>2, <3>1
    <3> QED BY <1>4, <2>2, <3>1, <3>2 DEF Edge
  <2> QED BY <2>1, <2>2
<1>9. Edges'
  <2>1. \A x, y \in Ranks : x \notin Children(y) /\ y \notin Children(x) => term'[<<x, y>>] = NoFlag
    BY <1>2 DEF Edges
  <2> QED BY <1>1, <1>4, <1>8, <2>1 DEF Edges
<1>10. HeardFrom(r)' = {}
  BY <1>7, TreeShape DEF HeardFrom
<1>11. \A q \in Ranks : q # r => HeardFrom(q)' = HeardFrom(q)
  <2> SUFFICES ASSUME NEW q \in Ranks, q # r, NEW c \in Children(q)
               PROVE  c \in HeardFrom(q)' <=> c \in HeardFrom(q)
    BY DEF HeardFrom
  <2>1. c \in Ranks \ {Root} /\ c # r
    BY <1>1, EdgeOf
  <2> QED BY <1>2, <1>4, <2>1 DEF HeardFrom
<1>12. Counts'
  <2>1. term_replies'[r] = 0 /\ \A q \in Ranks : q # r => term_replies'[q] = term_replies[q]
    BY DEF RootStep, TypeOK
  <2>2. Cardinality(HeardFrom(r)') = 0
    BY <1>10, FS_EmptySet
  <2>3. Cardinality(HeardFrom(r))' = 0
    BY <2>2
  <2> QED BY <1>4, <1>11, <2>1, <2>3 DEF Counts
<1>13. Turns'
  BY <1>1, <1>7 DEF Turns, Contributed
<1> QED BY <1>1, <1>7, <1>9, <1>12, <1>13

LEMMA DownTree ==
  ASSUME TypeOK, Edges, Counts, Turns, NEW r \in Ranks, DownStep(r)
  PROVE  /\ Edges' /\ Counts' /\ Turns' /\ turn[r] = turn[Root]
<1> DEFINE p == Parent[r]
           flag == term[<<p, r>>]
<1>1. r # Root /\ p \in Ranks /\ p # r /\ r \in Children(p) /\ p \notin Children(r) /\ Edge(r, p)
  BY Relatives DEF DownStep, Edges
<1>2. \A x, y \in Ranks : term'[<<x, y>>] = IF y = r /\ x = p THEN NoFlag
                                            ELSE IF x = r /\ y \in Children(r) THEN flag
                                            ELSE term[<<x, y>>]
  BY DEF DownStep, Channels
<1>3. flag # NoFlag /\ term_up[r] /\ ~term_up'[r] /\ turn' = turn
      /\ \A x \in Ranks : x # r => term_up'[x] = term_up[x]
  BY DEF DownStep, TypeOK
<1>4. turn[r] = turn[p] /\ ~term_up[p] /\ turn[r] = turn[Root]
  BY <1>1, <1>3 DEF Edge, Turns
<1> HIDE DEF flag
<1>5. ASSUME NEW c \in Children(r)
      PROVE  /\ turn[c] = turn[r] /\ term_up[c] /\ term[<<c, r>>] = NoFlag
             /\ c \in Ranks \ {Root} /\ c # r /\ c # p
  BY <1>1, <1>3, EdgeOf DEF Edge
<1>6. ASSUME NEW c \in Ranks \ {Root} PROVE Edge(c, Parent[c])'
  <2>1. CASE c = r
    <3>1. term'[<<p, r>>] = NoFlag
      BY <1>1, <1>2
    <3>2. term'[<<r, p>>] = NoFlag
      BY <1>1, <1>2, <1>4 DEF Edge
    <3>3. ~term_up'[p]
      BY <1>1, <1>3, <1>4
    <3> QED BY <1>3, <1>4, <2>1, <3>1, <3>2, <3>3 DEF Edge
  <2>2. CASE Parent[c] = r
    <3>1. c \in Children(r)
      BY <2>2, Relatives
    <3>2. term'[<<c, r>>] = NoFlag /\ term'[<<r, c>>] # NoFlag
      <4>1. c \in Ranks /\ c # r /\ c # p /\ term[<<c, r>>] = NoFlag
        BY <1>5, <3>1
      <4> QED BY <1>2, <1>3, <3>1, <4>1
    <3>3. term_up'[c]
      <4>1. term_up'[c] = term_up[c] /\ term_up[c]
        BY <1>3, <1>5, <3>1
      <4> QED BY <4>1
    <3>4. turn'[c] = turn'[r]
      BY <1>3, <1>5, <3>1
    <3> QED BY <1>3, <2>2, <3>2, <3>3, <3>4 DEF Edge
  <2>3. CASE c # r /\ Parent[c] # r
    <3>1. Edge(c, Parent[c]) /\ Parent[c] \in Ranks
      BY Relatives DEF Edges
    <3>2. /\ term'[<<c, Parent[c]>>] = term[<<c, Parent[c]>>]
          /\ term'[<<Parent[c], c>>] = term[<<Parent[c], c>>]
      BY <1>2, <2>3, <3>1
    <3> QED BY <1>3, <2>3, <3>1, <3>2 DEF Edge
  <2> QED BY <2>1, <2>2, <2>3
<1>7. Edges'
  <2>1. ~term_up'[Root]
    BY <1>1, <1>3, RanksAssumption DEF Edges
  <2>2. \A x, y \in Ranks : x \notin Children(y) /\ y \notin Children(x) => term'[<<x, y>>] = NoFlag
    BY <1>2 DEF Edges
  <2> QED BY <1>6, <2>1, <2>2 DEF Edges
<1>8. HeardFrom(r)' = {}
  BY <1>3, <1>5 DEF HeardFrom
<1>9. \A q \in Ranks : q # r => HeardFrom(q)' = HeardFrom(q)
  <2> SUFFICES ASSUME NEW q \in Ranks, q # r, NEW c \in Children(q)
               PROVE  c \in HeardFrom(q)' <=> c \in HeardFrom(q)
    BY DEF HeardFrom
  <2>1. c \in Ranks \ {Root} /\ Parent[c] = q
    BY EdgeOf
  <2>2. q \notin Children(c)
    BY EdgeOf
  <2> QED BY <1>2, <1>3, <2>1, <2>2 DEF HeardFrom
<1>10. Counts'
  BY <1>3, <1>8, <1>9, FS_EmptySet DEF Counts, DownStep, TypeOK
<1>11. Turns'
  <2>1. \A x \in Ranks : turn[x] # turn[Root] => term_up'[x]
    BY <1>3, <1>4 DEF Turns, Contributed
  <2>2. \A x \in Ranks \ {Root} : term'[<<Parent[x], x>>] # NoFlag => turn[x] = turn[Root]
    <3> SUFFICES ASSUME NEW x \in Ranks \ {Root}, term'[<<Parent[x], x>>] # NoFlag
                 PROVE  turn[x] = turn[Root]
      OBVIOUS
    <3>1. CASE Parent[x] = r
      BY <1>4, <1>5, <3>1, Relatives
    <3>2. CASE Parent[x] # r
      <4>1. term[<<Parent[x], x>>] # NoFlag
        BY <1>2, <3>2, Relatives
      <4> QED BY <4>1 DEF Turns
    <3> QED BY <3>1, <3>2
  <2> QED BY <1>3, <2>1, <2>2 DEF Turns, Contributed
<1> QED BY <1>4, <1>7, <1>10, <1>11

-----------------------------------------------------------------------------
(* The wave: a rank that has contributed to it gets no work unless the       *)
(* result of the wave will be 0.                                             *)

LEMMA SenderWaits ==
  ASSUME TypeOK, Acked, NEW r \in Ranks, NEW m \in InFlight(r)
  PROVE  m.from \in Ranks /\ work_outstanding[m.from] > 0
<1>1. m \in reply /\ m.to = r /\ m.items # {} /\ m.from \in Ranks
  BY DEF InFlight, TypeOK, Replies
<1>2. <<r, 0>> \in Unacknowledged(m.from)
  BY <1>1 DEF Unacknowledged, Work
<1>3. IsFiniteSet(Unacknowledged(m.from))
      /\ work_outstanding[m.from] = Cardinality(Unacknowledged(m.from))
  BY <1>1 DEF Acked
<1>4. Cardinality(Unacknowledged(m.from)) # 0 /\ Cardinality(Unacknowledged(m.from)) \in Nat
  BY <1>2, <1>3, FS_EmptySet, FS_CardinalityType
<1> QED BY <1>1, <1>3, <1>4

LEMMA NoneUnacknowledged ==
  ASSUME TypeOK, Acked, NEW s \in Ranks, work_outstanding[s] = 0
  PROVE  \A r \in Ranks : receipt[<<r, s>>] = 0
<1>1. Unacknowledged(s) = {}
  BY FS_EmptySet DEF Acked
<1>2. \A r \in Ranks : receipt[<<r, s>>] \in Nat
  BY DEF TypeOK, Pairs
<1>3. ASSUME NEW r \in Ranks, receipt[<<r, s>>] # 0 PROVE FALSE
  <2>1. <<r, 1>> \in Unacknowledged(s)
    BY <1>2, <1>3 DEF Unacknowledged
  <2> QED BY <1>1, <2>1
<1> QED BY <1>3

LEMMA WaveKept ==
  ASSUME Wave, UNCHANGED <<queue, reply, work_outstanding, term_flag, term, turn>>
  PROVE  Wave'
BY DEF Wave, Spoiled, Contributed, InFlight

LEMMA InitWave == Init => Wave
BY RanksAssumption DEF Init, Wave, Contributed

LEMMA ProcessWave ==
  ASSUME NEW r \in Ranks, TypeOK, Wave, Process(r)
  PROVE  Wave'
<1>1. queue[r] # {} /\ \A x \in Ranks : x # r => queue'[x] = queue[x]
  BY DEF Process, TypeOK
<1>2. UNCHANGED <<reply, work_outstanding, term_flag, term, turn>>
  BY DEF Process, termvars
<1>3. /\ Spoiled' <=> Spoiled
      /\ Contributed' = Contributed
      /\ \A x \in Ranks : InFlight(x)' = InFlight(x)
  BY <1>2 DEF Spoiled, Contributed, InFlight
<1>4. ASSUME ~Spoiled, NEW x \in Contributed
      PROVE  queue'[x] = {} /\ InFlight(x)' = {} /\ work_outstanding'[x] = 0
  <2>1. x \in Ranks /\ queue[x] = {} /\ InFlight(x) = {} /\ work_outstanding[x] = 0
    BY <1>4 DEF Wave, Contributed
  <2> QED BY <1>1, <1>2, <1>3, <2>1
<1> QED BY <1>3, <1>4 DEF Wave

\* Serving requests without work to give changes no more than requests and replies.
LEMMA ServedNothing ==
  ASSUME NEW r \in Ranks, TypeOK, NEW requestors, NEW share, Served(r, requestors, share),
         \A s \in requestors : share[s] = {}
  PROVE  /\ UNCHANGED <<queue, work_outstanding>>
         /\ \A x \in Ranks : InFlight(x)' = InFlight(x)
<1>1. UNION {share[s] : s \in requestors} = {} /\ {s \in requestors : share[s] # {}} = {}
  OBVIOUS
<1>2. queue' = queue
  BY <1>1 DEF Served, TypeOK
<1>3. WorkMessages(requestors, share) = 0
  BY <1>1, FS_EmptySet DEF WorkMessages
<1>4. work_outstanding' = work_outstanding
  BY <1>3 DEF Served, TypeOK
<1>5. \A m : m \in reply' /\ m.items # {} <=> m \in reply /\ m.items # {}
  BY DEF Served
<1> QED BY <1>2, <1>4, <1>5 DEF InFlight

LEMMA ServedWave ==
  ASSUME NEW r \in Ranks, TypeOK, Wave, NEW requestors, NEW share, Served(r, requestors, share)
  PROVE  Wave'
<1>1. /\ UNCHANGED <<term_flag, term, turn>> /\ Contributed' = Contributed
      /\ \A x \in Ranks : x # r => work_outstanding'[x] = work_outstanding[x]
  BY DEF Served, termvars, TypeOK, Contributed
<1>2. /\ WorkMessages(requestors, share) \in Nat
      /\ (\E s \in requestors : share[s] # {}) => WorkMessages(requestors, share) > 0
  <2>1. {s \in requestors : share[s] # {}} \in SUBSET Ranks
    BY DEF Served
  <2> QED BY <2>1, FiniteRanks, FS_EmptySet DEF WorkMessages
<1>3. work_outstanding'[r] = work_outstanding[r] + WorkMessages(requestors, share)
      /\ work_outstanding[r] \in Nat
  BY DEF Served, TypeOK
<1>4. CASE Spoiled
  <2>1. \A x \in Ranks : work_outstanding[x] > 0 => work_outstanding'[x] > 0
    BY <1>1, <1>2, <1>3
  <2>2. Spoiled'
    BY <1>1, <1>4, <2>1 DEF Spoiled
  <2> QED BY <2>2 DEF Wave
<1>5. CASE ~Spoiled
  <2>1. \A x \in Contributed : queue[x] = {} /\ InFlight(x) = {} /\ work_outstanding[x] = 0
    BY <1>5 DEF Wave
  <2>2. CASE \E s \in requestors : share[s] # {}
    <3>1. r \notin Contributed
      BY <2>1, <2>2 DEF Served
    <3>2. Spoiled'
      BY <1>1, <1>2, <1>3, <2>2, <3>1 DEF Spoiled
    <3> QED BY <3>2 DEF Wave
  <2>3. CASE \A s \in requestors : share[s] = {}
    <3>1. UNCHANGED <<queue, work_outstanding>> /\ \A x \in Ranks : InFlight(x)' = InFlight(x)
      BY <2>3, ServedNothing
    <3> QED BY <1>1, <2>1, <3>1 DEF Wave, Contributed
  <2> QED BY <2>2, <2>3
<1> QED BY <1>4, <1>5

LEMMA TakeReceiptWave ==
  ASSUME NEW r \in Ranks, TypeOK, Wave, TakeReceipt(r)
  PROVE  Wave'
<1>1. /\ UNCHANGED <<term, turn, queue, reply>> /\ Contributed' = Contributed
      /\ work_outstanding[r] > 0
      /\ \A x \in Ranks : x # r => /\ work_outstanding'[x] = work_outstanding[x]
                                   /\ term_flag'[x] = term_flag[x]
      /\ term_flag'[r] = 0
  BY DEF TakeReceipt, FlagAfterReceipt, TypeOK, Contributed
<1>2. CASE r \notin Contributed
  BY <1>1, <1>2 DEF Wave, Spoiled
<1>3. CASE r \in Contributed
  <2>1. Spoiled
    BY <1>1, <1>3 DEF Wave
  <2>2. Spoiled'
    BY <1>1, <1>3, <2>1 DEF Spoiled
  <2> QED BY <2>2 DEF Wave
<1> QED BY <1>2, <1>3

LEMMA ReceivedWave ==
  ASSUME NEW r \in Ranks, TypeOK, Wave, NEW m, Received(r, m)
  PROVE  Wave'
<1>1. /\ UNCHANGED <<term_flag, term, turn, work_outstanding>> /\ Contributed' = Contributed
      /\ Spoiled' <=> Spoiled
      /\ reply' = reply \ {m} /\ m \in reply /\ m.to = r
  BY DEF Received, termvars, Contributed, Spoiled
<1>2. \A x : InFlight(x)' \subseteq InFlight(x)
  BY <1>1 DEF InFlight
<1>3. ASSUME ~Spoiled, NEW x \in Contributed
      PROVE  queue'[x] = {} /\ InFlight(x)' = {} /\ work_outstanding'[x] = 0
  <2>1. x \in Ranks /\ queue[x] = {} /\ InFlight(x) = {} /\ work_outstanding[x] = 0
    BY <1>3 DEF Wave, Contributed
  <2>2. queue'[x] = queue[x]
    <3>1. CASE m.items = {}
      BY <3>1 DEF Received
    <3>2. CASE m.items # {}
      <4>1. x # r
        BY <1>1, <2>1, <3>2 DEF InFlight
      <4> QED BY <2>1, <3>2, <4>1 DEF Received, TypeOK
    <3> QED BY <3>1, <3>2
  <2> QED BY <1>1, <1>2, <2>1, <2>2
<1> QED BY <1>1, <1>3 DEF Wave


LEMMA WaitWave ==
  ASSUME TypeOK, Edges, Counts, Turns, Wave, NEW r \in Ranks, NEW seen \in Heard(r),
         WaitStep(r, seen), UNCHANGED <<queue, reply, work_outstanding>>
  PROVE  Wave'
<1>1. /\ seen \subseteq Children(r) /\ Contributed' = Contributed /\ r \notin Contributed
      /\ \A x \in Ranks : x # r => term_flag'[x] = term_flag[x]
      /\ term_flag'[r] = AndFlags(r, seen)
  BY HeardChildren DEF WaitStep, Contributed, Turns, TypeOK
<1>2. AndFlags(r, seen) # 0 => term_flag[r] = 1 /\ \A s \in seen : term[<<s, r>>] = 1
  BY DEF AndFlags
<1>3. \A x, y \in Ranks : term'[<<x, y>>] = IF y = r /\ x \in seen THEN NoFlag ELSE term[<<x, y>>]
  BY DEF WaitStep, Channels
<1>4. Spoiled => Spoiled'
  <2>1. ASSUME NEW x \in Ranks \ Contributed, term_flag[x] = 0 \/ work_outstanding[x] > 0
        PROVE  Spoiled'
    <3>1. term_flag'[x] = 0 \/ work_outstanding'[x] > 0
      BY <1>1, <1>2, <2>1
    <3> QED BY <1>1, <3>1 DEF Spoiled
  <2>2. ASSUME NEW x \in Contributed, term[<<x, Parent[x]>>] = 0 PROVE Spoiled'
    <3>1. x \in Ranks \ {Root} /\ Parent[x] \in Ranks
      BY Relatives DEF Contributed
    <3>2. CASE Parent[x] = r /\ x \in seen
      <4>1. term_flag'[r] = 0
        BY <1>1, <1>2, <2>2, <3>2 DEF AndFlags
      <4> QED BY <1>1, <4>1 DEF Spoiled
    <3>3. CASE ~(Parent[x] = r /\ x \in seen)
      <4>1. term'[<<x, Parent[x]>>] = 0
        BY <1>3, <2>2, <3>1, <3>3
      <4> QED BY <1>1, <2>2, <4>1 DEF Spoiled
    <3> QED BY <3>2, <3>3
  <2> QED BY <2>1, <2>2 DEF Spoiled
<1>5. \A x \in Ranks : InFlight(x)' = InFlight(x)
  BY DEF InFlight
<1> QED BY <1>1, <1>4, <1>5 DEF Wave, Contributed

LEMMA ContributeWave ==
  ASSUME TypeOK, Acked, Edges, Counts, Turns, Wave, NEW r \in Ranks, NEW seen \in Heard(r),
         ContributeStep(r, seen), queue[r] = {}, UNCHANGED <<queue, reply, work_outstanding>>
  PROVE  Wave'
<1> DEFINE flag == AndFlags(r, seen)
<1>1. seen \subseteq Children(r) /\ r # Root /\ Parent[r] \in Ranks /\ r \notin Contributed
      /\ \A c \in seen : turn[c] # turn[r]
  BY HeardChildren, Relatives DEF ContributeStep, Contributed, Turns
<1>2. \A x, y \in Ranks : term'[<<x, y>>] = IF y = r /\ x \in seen THEN NoFlag
                                            ELSE IF x = r /\ y = Parent[r] THEN flag
                                            ELSE term[<<x, y>>]
  BY DEF ContributeStep, Channels
<1>3. /\ flag \in {0, 1}
      /\ flag = 1 => term_flag[r] = 1 /\ \A s \in seen : term[<<s, r>>] = 1
  BY DEF AndFlags
<1> HIDE DEF flag
<1>4. /\ \A x \in Ranks : x # r => turn'[x] = turn[x] /\ term_flag'[x] = term_flag[x]
      /\ turn'[r] = ~turn[r] /\ \A x \in Ranks : turn[x] \in BOOLEAN
      /\ work_outstanding[r] = 0
  BY DEF ContributeStep, TypeOK
<1>5. Contributed' = Contributed \cup {r}
  <2>1. turn[r] = turn[Root] /\ turn'[Root] = turn[Root] /\ turn[Root] \in BOOLEAN
    BY <1>1, <1>4, RanksAssumption DEF Contributed
  <2>2. turn'[r] # turn'[Root]
    BY <1>4, <2>1
  <2> QED BY <1>4, <2>1, <2>2 DEF Contributed
<1>6. term'[<<r, Parent[r]>>] = flag
  <2>1. r \notin seen
    BY <1>1, TreeShape
  <2> QED BY <1>1, <1>2, <2>1
<1>7. CASE flag = 0
  BY <1>5, <1>6, <1>7 DEF Wave, Spoiled
<1>8. CASE flag = 1 /\ Spoiled
  <2>1. ASSUME NEW x \in Ranks \ Contributed, term_flag[x] = 0 \/ work_outstanding[x] > 0
        PROVE  Spoiled'
    <3>1. x # r
      BY <1>3, <1>4, <1>8, <2>1
    <3> QED BY <1>4, <1>5, <2>1, <3>1 DEF Spoiled
  <2>2. ASSUME NEW x \in Contributed, term[<<x, Parent[x]>>] = 0 PROVE Spoiled'
    <3>1. x \in Ranks \ {Root} /\ Parent[x] \in Ranks /\ x # r
      BY <1>1, Relatives DEF Contributed
    <3>2. ~(Parent[x] = r /\ x \in seen)
      BY <1>3, <1>8, <2>2
    <3>3. term'[<<x, Parent[x]>>] = 0
      BY <1>2, <2>2, <3>1, <3>2
    <3> QED BY <1>5, <2>2, <3>3 DEF Spoiled
  <2> QED BY <1>8, <2>1, <2>2 DEF Wave, Spoiled
<1>9. CASE ~Spoiled
  <2>1. \A x \in Contributed : queue[x] = {} /\ InFlight(x) = {} /\ work_outstanding[x] = 0
    BY <1>9 DEF Wave
  <2>2. CASE InFlight(r) = {}
    <3>1. \A x \in Contributed' : queue[x] = {} /\ InFlight(x) = {} /\ work_outstanding[x] = 0
      BY <1>4, <1>5, <2>1, <2>2
    <3>2. \A x : InFlight(x)' = InFlight(x)
      BY DEF InFlight
    <3> QED BY <3>1, <3>2 DEF Wave
  <2>3. CASE InFlight(r) # {}
    <3>1. PICK m \in InFlight(r) : TRUE
      BY <2>3
    <3>2. m.from \in Ranks /\ work_outstanding[m.from] > 0
      BY SenderWaits
    <3>3. m.from \notin Contributed \cup {r}
      BY <1>4, <2>1, <3>2
    <3> QED BY <1>5, <3>2, <3>3 DEF Wave, Spoiled
  <2> QED BY <2>2, <2>3
<1> QED BY <1>3, <1>7, <1>8, <1>9

LEMMA DownWave ==
  ASSUME TypeOK, Edges, Counts, Turns, Wave, NEW r \in Ranks,
         DownStep(r), UNCHANGED <<queue, reply, work_outstanding>>
  PROVE  Wave'
<1>1. r # Root /\ Parent[r] \in Ranks /\ turn[r] = turn[Root] /\ Contributed' = Contributed
  BY DownTree, Relatives DEF DownStep, Contributed
<1>2. ASSUME NEW x \in Contributed PROVE term'[<<x, Parent[x]>>] = term[<<x, Parent[x]>>]
  <2>1. x \in Ranks \ {Root} /\ Parent[x] \in Ranks /\ x # r
    BY <1>1, Relatives DEF Contributed
  <2>2. ~(Parent[x] = r /\ x = Parent[r])
    BY <1>1, <2>1, Relatives
  <2> QED BY <2>1, <2>2 DEF DownStep, Channels
<1>3. Spoiled' <=> Spoiled
  BY <1>1, <1>2 DEF Spoiled, DownStep
<1>4. \A x : InFlight(x)' = InFlight(x)
  BY DEF InFlight
<1> QED BY <1>1, <1>3, <1>4 DEF Wave, Contributed

\* The root gets the result 1 only when every rank is out of work.
LEMMA RootQuiet ==
  ASSUME TypeOK, Acked, Edges, Counts, Turns, Wave, NEW r \in Ranks, NEW seen \in Heard(r),
         RootStep(r, seen), queue[r] = {}, AndFlags(r, seen) = 1
  PROVE  /\ \A x \in Ranks : Quiet(x)
         /\ \A x \in Ranks \ {Root} : term_up[x] /\ turn[x] # turn[Root]
<1>1. /\ seen \subseteq Children(r) /\ HeardFrom(r) \cup seen = Children(r) /\ r = Root
      /\ work_outstanding[r] = 0 /\ \A c \in seen : turn[c] # turn[r]
  BY HeardChildren DEF RootStep
<1>2. \A c \in Children(r) : turn[c] # turn[r] /\ (term[<<c, r>>] = NoFlag \/ c \in seen)
  BY <1>1 DEF HeardFrom
<1>3. \A x \in Ranks \ {Root} : term_up[x] /\ turn[x] # turn[Root]
  BY <1>1, <1>2, AllContributed
<1>4. term_flag[r] = 1 /\ \A c \in seen : term[<<c, r>>] = 1
  BY DEF AndFlags
<1>5. ASSUME NEW x \in Contributed PROVE term[<<x, Parent[x]>>] # 0
  <2>1. x \in Ranks \ {Root} /\ Parent[x] \in Ranks /\ x \in Children(Parent[x]) /\ Edge(x, Parent[x])
    BY Relatives DEF Contributed, Edges
  <2>2. CASE Parent[x] = r
    BY <1>2, <1>4, <2>1, <2>2 DEF NoFlag
  <2>3. CASE Parent[x] # r
    <3>1. term_up[Parent[x]]
      BY <1>1, <1>3, <2>1, <2>3
    <3> QED BY <2>1, <3>1 DEF Edge, NoFlag
  <2> QED BY <2>2, <2>3
<1>6. Contributed = Ranks \ {Root}
  BY <1>3 DEF Contributed
<1>7. \A x \in Ranks \ {Root} : Quiet(x)
  <2>1. \A x \in Ranks \ Contributed : x = r
    BY <1>1, <1>6
  <2>2. \A x \in Ranks \ Contributed : ~(term_flag[x] = 0 \/ work_outstanding[x] > 0)
    BY <1>1, <1>4, <2>1
  <2>3. ~Spoiled
    BY <1>5, <2>2 DEF Spoiled
  <2> QED BY <1>6, <2>3 DEF Wave, Quiet
<1>8. InFlight(r) = {}
  <2> SUFFICES ASSUME NEW m \in InFlight(r) PROVE FALSE
    OBVIOUS
  <2>1. m.from \in Ranks /\ work_outstanding[m.from] > 0
    BY SenderWaits
  <2> QED BY <1>1, <1>7, <2>1 DEF Quiet
<1> QED BY <1>1, <1>3, <1>7, <1>8 DEF Quiet

LEMMA RootWave ==
  ASSUME TypeOK, Edges, Counts, Turns, NEW r \in Ranks, NEW seen \in Heard(r), RootStep(r, seen)
  PROVE  Wave'
<1>1. Contributed' = {}
  BY RootTree DEF Contributed
<1> QED BY <1>1 DEF Wave


-----------------------------------------------------------------------------
(* The end: once a rank has left the loop, nothing but the result 1 moves.   *)

LEMMA InitOver == Init => Over
BY RanksAssumption DEF Init, Over, Ended, Pairs, NoFlag

\* A step that leaves the loops, the tree and the work alone.
LEMMA OverKept ==
  ASSUME TypeOK, Over,
         UNCHANGED <<phase, term, term_up, turn>>,
         Ended => \A x \in Ranks : Quiet(x)'
  PROVE  Over'
<1>1. Ended' <=> Ended
  BY DEF Ended
<1> QED BY <1>1 DEF Over

LEMMA ProcessOver ==
  ASSUME NEW r \in Ranks, TypeOK, Over, Process(r)
  PROVE  Over'
<1>1. queue[r] # {} /\ UNCHANGED <<phase, term, term_up, turn>>
  BY DEF Process, termvars
<1>2. ~Ended
  BY <1>1 DEF Over, Quiet
<1> QED BY <1>1, <1>2, OverKept

LEMMA ServedOver ==
  ASSUME NEW r \in Ranks, TypeOK, Over, NEW requestors, NEW share, Served(r, requestors, share)
  PROVE  Over'
<1>1. UNCHANGED <<phase, term, term_up, turn>>
  BY DEF Served, termvars
<1>2. ASSUME Ended PROVE \A x \in Ranks : Quiet(x)'
  <2>1. \A x \in Ranks : Quiet(x)
    BY <1>2 DEF Over
  <2>2. \A s \in requestors : share[s] = {}
    BY <2>1 DEF Served, Quiet
  <2>3. UNCHANGED <<queue, work_outstanding>> /\ \A x \in Ranks : InFlight(x)' = InFlight(x)
    BY <2>2, ServedNothing
  <2> QED BY <2>1, <2>3 DEF Quiet
<1> QED BY <1>1, <1>2, OverKept

LEMMA TakeReceiptOver ==
  ASSUME NEW r \in Ranks, TypeOK, Over, TakeReceipt(r)
  PROVE  Over'
<1>1. UNCHANGED <<phase, term, term_up, turn>> /\ work_outstanding[r] > 0
  BY DEF TakeReceipt
<1>2. ~Ended
  BY <1>1 DEF Over, Quiet
<1> QED BY <1>1, <1>2, OverKept

LEMMA ReceivedOver ==
  ASSUME NEW r \in Ranks, TypeOK, Over, NEW m, Received(r, m)
  PROVE  Over'
<1>1. UNCHANGED <<phase, term, term_up, turn, work_outstanding>>
      /\ m \in reply /\ m.to = r /\ reply' = reply \ {m}
  BY DEF Received, termvars
<1>2. ASSUME Ended PROVE \A x \in Ranks : Quiet(x)'
  <2>1. \A x \in Ranks : queue[x] = {} /\ InFlight(x) = {} /\ work_outstanding[x] = 0
    BY <1>2 DEF Over, Quiet
  <2>2. m.items = {}
    BY <1>1, <2>1 DEF InFlight
  <2>3. queue' = queue
    BY <2>2 DEF Received
  <2>4. \A x \in Ranks : InFlight(x)' = {}
    BY <1>1, <2>1 DEF InFlight
  <2> QED BY <1>1, <2>1, <2>3, <2>4 DEF Quiet
<1> QED BY <1>1, <1>2, OverKept

\* A reply that brings work finds the queue empty.
LEMMA ReceivedIntoEmpty ==
  ASSUME NEW r \in Ranks, TypeOK, Over, Receive(r), NEW m, Received(r, m), m.items # {}
  PROVE  queue[r] = {}
<1>1. CASE phase[r] = "work"
  BY <1>1 DEF Receive
<1>2. CASE phase[r] # "work"
  <2>1. Quiet(r)
    BY <1>2 DEF Over, Ended
  <2> QED BY <2>1 DEF Quiet
<1> QED BY <1>1, <1>2

LEMMA WaitOver ==
  ASSUME TypeOK, Edges, Counts, Over, NEW r \in Ranks, NEW seen \in Heard(r), WaitStep(r, seen),
         phase[r] = "work", UNCHANGED <<queue, reply, work_outstanding>>
  PROVE  Over'
<1>1. ~Ended /\ ~Ended'
  BY DEF WaitStep, Over, Ended
<1>2. \A c \in Ranks \ {Root} : Parent[c] \in Ranks /\ term[<<Parent[c], c>>] # 1
  BY <1>1, Relatives DEF Over
<1>3. \A c \in Ranks \ {Root} : term'[<<Parent[c], c>>] # 1
  BY <1>2 DEF WaitStep, Channels, NoFlag
<1> QED BY <1>1, <1>3 DEF Over

LEMMA ContributeOver ==
  ASSUME TypeOK, Edges, Counts, Over, NEW r \in Ranks, NEW seen \in Heard(r),
         ContributeStep(r, seen), phase[r] = "work", UNCHANGED <<queue, reply, work_outstanding>>
  PROVE  Over'
<1>1. ~Ended /\ ~Ended'
  BY DEF ContributeStep, Over, Ended
<1>2. \A c \in Ranks \ {Root} : Parent[c] \in Ranks /\ term[<<Parent[c], c>>] # 1
  BY <1>1, Relatives DEF Over
<1>3. r \in Ranks \ {Root} /\ Parent[r] \in Ranks
  BY Relatives DEF ContributeStep
<1>4. ASSUME NEW c \in Ranks \ {Root} PROVE term'[<<Parent[c], c>>] # 1
  <2>1. ~(Parent[c] = r /\ c = Parent[r])
    BY <1>3, Relatives, TreeShape
  <2>2. term'[<<Parent[c], c>>] \in {NoFlag, term[<<Parent[c], c>>]}
    BY <1>2, <2>1 DEF ContributeStep, Channels
  <2> QED BY <1>2, <2>2 DEF NoFlag
<1> QED BY <1>1, <1>4 DEF Over

LEMMA DownOver ==
  ASSUME TypeOK, Edges, Counts, Turns, Over, NEW r \in Ranks, DownStep(r),
         phase[r] = "work", UNCHANGED <<queue, reply, work_outstanding>>
  PROVE  Over'
<1> DEFINE result == term[<<Parent[r], r>>]
<1>1. /\ r \in Ranks \ {Root} /\ Parent[r] \in Ranks
      /\ phase' = [phase EXCEPT ![r] = IF result = 1 THEN "cleanup" ELSE @]
      /\ term_up'[r] = FALSE /\ \A x \in Ranks : x # r => term_up'[x] = term_up[x]
      /\ turn' = turn
      /\ result # NoFlag
  BY Relatives DEF DownStep, TypeOK
<1>2. ASSUME NEW c \in Ranks \ {Root}
      PROVE  Parent[c] \in Ranks /\ term'[<<Parent[c], c>>] \in {NoFlag, result, term[<<Parent[c], c>>]}
  BY <1>1, Relatives DEF DownStep, Channels
<1>3. result \in {0, 1}
  <2>1. <<Parent[r], r>> \in Pairs
    BY <1>1 DEF Pairs
  <2> QED BY <1>1, <2>1 DEF TypeOK
<1> HIDE DEF result
<1>4. CASE Ended
  <2>1. result = 1
    BY <1>1, <1>3, <1>4 DEF Over, result
  <2>2. phase'[r] = "cleanup" /\ \A x \in Ranks : x # r => phase'[x] = phase[x]
    BY <1>1, <2>1 DEF TypeOK
  <2>3. Ended' /\ phase'[Root] # "work"
    BY <1>4, <2>2, RanksAssumption DEF Over, Ended
  <2>4. \A x \in Ranks : Quiet(x)' /\ turn'[x] = turn'[Root]
    BY <1>1, <1>4 DEF Over, Quiet, InFlight
  <2>5. ASSUME NEW x \in Ranks \ {Root}
        PROVE  (term_up'[x] <=> phase'[x] = "work") /\ term'[<<Parent[x], x>>] # 0
    <3>1. (term_up[x] <=> phase[x] = "work") /\ term[<<Parent[x], x>>] # 0
      BY <1>4 DEF Over
    <3>2. term_up'[x] <=> phase'[x] = "work"
      BY <1>1, <2>2, <3>1
    <3> QED BY <1>2, <2>1, <3>1, <3>2 DEF NoFlag
  <2> QED BY <2>3, <2>4, <2>5 DEF Over
<1>5. CASE ~Ended
  <2>1. result = 0
    BY <1>1, <1>3, <1>5 DEF Over, result
  <2>2. ~Ended'
    BY <1>1, <1>5, <2>1 DEF Ended, TypeOK
  <2>3. \A c \in Ranks \ {Root} : term'[<<Parent[c], c>>] # 1
    BY <1>2, <1>5, <2>1 DEF Over, NoFlag
  <2> QED BY <2>2, <2>3 DEF Over
<1> QED BY <1>4, <1>5

LEMMA RootOver ==
  ASSUME TypeOK, Acked, Edges, Counts, Turns, Wave, Over, NEW r \in Ranks, NEW seen \in Heard(r),
         RootStep(r, seen), phase[r] = "work", queue[r] = {},
         UNCHANGED <<queue, reply, work_outstanding>>
  PROVE  Over'
<1> DEFINE result == AndFlags(r, seen)
<1>1. r = Root /\ ~Ended
  BY DEF RootStep, Over
<1>2. /\ phase' = [phase EXCEPT ![r] = IF result = 1 THEN "cleanup" ELSE @]
      /\ \A x \in Ranks : x # r => term_up'[x] = term_up[x]
      /\ \A x \in Ranks : turn'[x] = turn'[Root]
  BY RootTree DEF RootStep, TypeOK
<1>3. ASSUME NEW c \in Ranks \ {Root}
      PROVE  /\ Parent[c] \in Ranks
             /\ Parent[c] = r => term'[<<Parent[c], c>>] \in {NoFlag, result}
             /\ Parent[c] # r => term'[<<Parent[c], c>>] = term[<<Parent[c], c>>]
  BY <1>1, Relatives DEF RootStep, Channels
<1>4. result \in {0, 1}
  BY DEF AndFlags
<1>5. CASE result = 0
  <2>1. ~Ended'
    BY <1>1, <1>2, <1>5 DEF Ended, TypeOK
  <2>2. \A c \in Ranks \ {Root} : term'[<<Parent[c], c>>] # 1
    BY <1>1, <1>3, <1>5 DEF Over, NoFlag
  <2> QED BY <2>1, <2>2 DEF Over
<1>6. CASE result = 1
  <2>1. /\ \A x \in Ranks : Quiet(x)
        /\ \A x \in Ranks \ {Root} : term_up[x] /\ turn[x] # turn[Root]
    BY <1>6, RootQuiet
  <2>2. phase'[r] = "cleanup" /\ \A x \in Ranks : x # r => phase'[x] = "work"
    BY <1>1, <1>2, <1>6 DEF TypeOK, Ended
  <2>3. Ended' /\ phase'[Root] # "work"
    BY <1>1, <2>2 DEF Ended
  <2>4. \A x \in Ranks : Quiet(x)'
    BY <2>1 DEF Quiet, InFlight
  <2>5. ASSUME NEW x \in Ranks \ {Root}
        PROVE  (term_up'[x] <=> phase'[x] = "work") /\ term'[<<Parent[x], x>>] # 0
    <3>1. term_up'[x] /\ phase'[x] = "work"
      BY <1>1, <1>2, <2>1, <2>2
    <3>2. term'[<<Parent[x], x>>] # 0
      <4>1. CASE Parent[x] = r
        BY <1>3, <1>6, <4>1 DEF NoFlag
      <4>2. CASE Parent[x] # r
        <5>1. term_up[Parent[x]] /\ Edge(x, Parent[x])
          BY <1>1, <1>3, <2>1, <4>2 DEF Edges
        <5> QED BY <1>3, <4>2, <5>1 DEF Edge, NoFlag
      <4> QED BY <4>1, <4>2
    <3> QED BY <3>1, <3>2
  <2> QED BY <1>2, <2>3, <2>4, <2>5 DEF Over
<1> QED BY <1>4, <1>5, <1>6

LEMMA BarrierOver ==
  ASSUME NEW r \in Ranks, TypeOK, Over, BarrierTest(r)
  PROVE  Over'
<1>1. /\ phase[r] = "cleanup"
      /\ UNCHANGED <<queue, reply, work_outstanding, term, term_up, turn>>
      /\ phase' = phase \/ phase' = [phase EXCEPT ![r] = "done"]
  BY DEF BarrierTest, termvars
<1>2. Ended /\ \A x \in Ranks : phase'[x] = "work" <=> phase[x] = "work"
  BY <1>1 DEF Ended, TypeOK
<1>3. Ended'
  BY <1>2 DEF Ended
<1>4. \A x \in Ranks : Quiet(x)'
  BY <1>1, <1>2 DEF Over, Quiet, InFlight
<1> QED BY <1>1, <1>2, <1>3, <1>4, RanksAssumption DEF Over


-----------------------------------------------------------------------------
(* The invariant is inductive.                                               *)

LEMMA InitInv == Init => IInv
<1> SUFFICES ASSUME Init PROVE IInv
  OBVIOUS
<1>1. Handshake
  BY RanksAssumption DEF Init, Handshake
<1> QED BY <1>1, InitTypes, InitOnce, InitAcked, InitTree, InitWave, InitOver DEF IInv

LEMMA ProcessInv ==
  ASSUME NEW r \in Ranks, IInv, Process(r)
  PROVE  IInv'
<1>1. UNCHANGED <<work_requested, request, reply, receipt, work_outstanding,
                  term, term_up, term_replies, turn>>
  BY DEF Process, termvars
<1>2. TypeOK' /\ Handshake' /\ EachItemOnce'
  BY <1>1, ProcessTypes, HandshakeKept, ProcessOnce DEF IInv
<1>3. Acked' /\ Edges' /\ Counts' /\ Turns'
  BY <1>1, AckedUnchanged, TreeKept DEF IInv
<1>4. Wave' /\ Over'
  BY ProcessWave, ProcessOver DEF IInv
<1> QED BY <1>2, <1>3, <1>4 DEF IInv

LEMMA ServeInv ==
  ASSUME NEW r \in Ranks, IInv, Serve(r)
  PROVE  IInv'
<1>1. PICK requestors, share : Served(r, requestors, share)
  BY ServeEffect DEF IInv
<1>2. UNCHANGED <<term, term_up, term_replies, turn>>
  BY <1>1 DEF Served, termvars
<1>3. TypeOK' /\ Handshake' /\ EachItemOnce'
  BY <1>1, ServedTypes, ServedHandshake, ServedOnce DEF IInv
<1>4. Acked' /\ Edges' /\ Counts' /\ Turns'
  BY <1>1, <1>2, ServedAcked, TreeKept DEF IInv
<1>5. Wave' /\ Over'
  BY <1>1, ServedWave, ServedOver DEF IInv
<1> QED BY <1>3, <1>4, <1>5 DEF IInv

LEMMA TakeReceiptInv ==
  ASSUME NEW r \in Ranks, IInv, TakeReceipt(r)
  PROVE  IInv'
<1>1. UNCHANGED <<work_requested, request, reply, queue, created, processed,
                  term, term_up, term_replies, turn>>
  BY DEF TakeReceipt, items
<1>2. TypeOK' /\ Handshake' /\ EachItemOnce'
  BY <1>1, TakeReceiptTypes, HandshakeKept, OnceKept DEF IInv
<1>3. Acked' /\ Edges' /\ Counts' /\ Turns'
  BY <1>1, TakeReceiptAcked, TreeKept DEF IInv
<1>4. Wave' /\ Over'
  BY TakeReceiptWave, TakeReceiptOver DEF IInv
<1> QED BY <1>2, <1>3, <1>4 DEF IInv

LEMMA AskInv ==
  ASSUME NEW r \in Ranks, IInv, Ask(r)
  PROVE  IInv'
<1>1. UNCHANGED <<phase, queue, created, processed, reply, receipt, work_outstanding,
                  term_flag, term, term_up, term_replies, turn>>
  BY DEF Ask, items, termvars
<1>2. TypeOK' /\ Handshake' /\ EachItemOnce'
  BY <1>1, AskTypes, AskHandshake, OnceKept DEF IInv
<1>3. Acked' /\ Edges' /\ Counts' /\ Turns' /\ Wave'
  BY <1>1, AckedUnchanged, TreeKept, WaveKept DEF IInv
<1>4. Over'
  <2>1. Ended => \A x \in Ranks : Quiet(x)'
    BY <1>1 DEF IInv, Over, Quiet, InFlight
  <2> QED BY <1>1, <2>1, OverKept DEF IInv
<1> QED BY <1>2, <1>3, <1>4 DEF IInv

LEMMA ReceiveInv ==
  ASSUME NEW r \in Ranks, IInv, Receive(r)
  PROVE  IInv'
<1>1. PICK m : Received(r, m)
  BY ReceiveEffect DEF IInv
<1>2. UNCHANGED <<term, term_up, term_replies, turn>>
  BY <1>1 DEF Received, termvars
<1>3. m.items # {} => queue[r] = {}
  BY <1>1, ReceivedIntoEmpty DEF IInv
<1>4. TypeOK' /\ Handshake' /\ EachItemOnce'
  BY <1>1, <1>3, ReceiveTypes, ReceivedHandshake, ReceivedOnce DEF IInv
<1>5. Acked' /\ Edges' /\ Counts' /\ Turns'
  BY <1>1, <1>2, ReceivedAcked, TreeKept DEF IInv
<1>6. Wave' /\ Over'
  BY <1>1, ReceivedWave, ReceivedOver DEF IInv
<1> QED BY <1>4, <1>5, <1>6 DEF IInv

LEMMA CheckForTermInv ==
  ASSUME NEW r \in Ranks, IInv, CheckForTerm(r)
  PROVE  IInv'
<1>1. /\ phase[r] = "work" /\ queue[r] = {}
      /\ UNCHANGED <<queue, work_requested, work_outstanding, request, reply, receipt,
                     created, processed>>
  BY DEF CheckForTerm, items
<1>2. TypeOK' /\ Handshake' /\ EachItemOnce' /\ Acked'
  BY <1>1, CheckForTermTypes, HandshakeKept, OnceKept, AckedUnchanged DEF IInv
<1>3. ASSUME NEW seen \in Heard(r), WaitStep(r, seen)
      PROVE  Edges' /\ Counts' /\ Turns' /\ Wave' /\ Over'
  BY <1>1, <1>3, WaitTree, WaitWave, WaitOver DEF IInv
<1>4. ASSUME NEW seen \in Heard(r), ContributeStep(r, seen)
      PROVE  Edges' /\ Counts' /\ Turns' /\ Wave' /\ Over'
  BY <1>1, <1>4, ContributeTree, ContributeWave, ContributeOver DEF IInv
<1>5. ASSUME NEW seen \in Heard(r), RootStep(r, seen)
      PROVE  Edges' /\ Counts' /\ Turns' /\ Wave' /\ Over'
  BY <1>1, <1>5, RootTree, RootWave, RootOver DEF IInv
<1>6. CASE DownStep(r)
  BY <1>1, <1>2, <1>6, DownTree, DownWave, DownOver DEF IInv
<1>7. \/ \E seen \in Heard(r) : WaitStep(r, seen) \/ ContributeStep(r, seen) \/ RootStep(r, seen)
      \/ DownStep(r)
  BY CheckForTermSteps DEF IInv
<1> QED BY <1>2, <1>3, <1>4, <1>5, <1>6, <1>7 DEF IInv

LEMMA BarrierTestInv ==
  ASSUME NEW r \in Ranks, IInv, BarrierTest(r)
  PROVE  IInv'
<1>1. UNCHANGED <<queue, work_requested, work_outstanding, request, reply, receipt,
                  created, processed, term_flag, term, term_up, term_replies, turn>>
  BY DEF BarrierTest, items, termvars
<1>2. TypeOK' /\ Handshake' /\ EachItemOnce' /\ Acked'
  BY <1>1, BarrierTestTypes, HandshakeKept, OnceKept, AckedUnchanged DEF IInv
<1>3. Edges' /\ Counts' /\ Turns' /\ Wave' /\ Over'
  BY <1>1, TreeKept, WaveKept, BarrierOver DEF IInv
<1> QED BY <1>2, <1>3 DEF IInv

LEMMA StutterInv ==
  ASSUME IInv, UNCHANGED vars
  PROVE  IInv'
<1>1. UNCHANGED <<phase, queue, work_requested, work_outstanding, request, reply, receipt,
                  created, processed, term_flag, term, term_up, term_replies, turn,
                  barrier_started, barrier_up, barrier_replies, barrier>>
  BY DEF vars, termvars, barriervars, items
<1>2. TypeOK'
  BY <1>1 DEF IInv, TypeOK
<1>3. Handshake' /\ EachItemOnce' /\ Acked' /\ Edges' /\ Counts' /\ Turns' /\ Wave'
  BY <1>1, HandshakeKept, OnceKept, AckedUnchanged, TreeKept, WaveKept DEF IInv
<1>4. Over'
  <2>1. Ended => \A x \in Ranks : Quiet(x)'
    BY <1>1 DEF IInv, Over, Quiet, InFlight
  <2> QED BY <1>1, <2>1, OverKept DEF IInv
<1> QED BY <1>2, <1>3, <1>4 DEF IInv

LEMMA NextInv == IInv /\ [Next]_vars => IInv'
<1> SUFFICES ASSUME IInv, [Next]_vars PROVE IInv'
  OBVIOUS
<1>1. ASSUME NEW r \in Ranks, Call(r) PROVE IInv'
  BY <1>1, ProcessInv, ServeInv, TakeReceiptInv, AskInv, ReceiveInv, CheckForTermInv,
     BarrierTestInv DEF Call
<1> QED BY <1>1, StutterInv DEF Next

THEOREM Invariance == Spec => []IInv
BY InitInv, NextInv, PTL DEF Spec


-----------------------------------------------------------------------------
(* What follows.                                                             *)

\* Every variable of the loop keeps its type, under any tree and any work.
THEOREM TypesCorrect == Spec => []TypeOK
<1>1. IInv => TypeOK
  BY DEF IInv
<1> QED BY <1>1, Invariance, PTL

\* A rank never has two requests, or two replies, on their way at once.
THEOREM HandshakeHolds == Spec => []Handshake
<1>1. IInv => Handshake
  BY DEF IInv
<1> QED BY <1>1, Invariance, PTL

\* No item is lost, or held by two ranks, however work is shared.
THEOREM ItemsKept == Spec => []EachItemOnce
<1>1. IInv => EachItemOnce
  BY DEF IInv
<1> QED BY <1>1, Invariance, PTL

\* A rank that has contributed to an allreduce gets no work, or the result is 0.
THEOREM WaveHolds == Spec => []Wave
<1>1. IInv => Wave
  BY DEF IInv
<1> QED BY <1>1, Invariance, PTL

LEMMA OverNoWork == IInv => NoWorkLeft
<1> SUFFICES ASSUME IInv, NEW r \in Ranks, phase[r] # "work"
             PROVE  /\ processed = created
                    /\ \A s \in Ranks : work_outstanding[s] = 0 /\ receipt[<<r, s>>] = 0
                                        /\ receipt[<<s, r>>] = 0
                    /\ \A s \in Ranks : term[<<s, r>>] = NoFlag
  BY DEF NoWorkLeft
<1>1. /\ \A x \in Ranks : queue[x] = {} /\ InFlight(x) = {} /\ work_outstanding[x] = 0
      /\ \A x \in Ranks : turn[x] = turn[Root]
      /\ r # Root => ~term_up[r]
      /\ phase[Root] # "work"
  BY DEF IInv, Over, Ended, Quiet
<1>2. processed = created
  <2>1. Accounted
    BY OnceParts DEF IInv
  <2>2. \A m \in reply : m.items = {}
    BY <1>1 DEF InFlight, IInv, TypeOK, Replies
  <2> QED BY <1>1, <2>1, <2>2 DEF Accounted
<1>3. \A x, s \in Ranks : receipt[<<x, s>>] = 0
  BY <1>1, NoneUnacknowledged DEF IInv
<1>4. ASSUME NEW s \in Ranks PROVE term[<<s, r>>] = NoFlag
  <2>1. CASE s \in Children(r)
    <3>1. Edge(s, r)
      BY <2>1, EdgeOf DEF IInv
    <3> QED BY <1>1, <3>1 DEF Edge
  <2>2. CASE r \in Children(s)
    <3>1. Edge(r, s) /\ r # Root
      BY <2>2, EdgeOf DEF IInv
    <3> QED BY <1>1, <3>1 DEF Edge
  <2>3. CASE s \notin Children(r) /\ r \notin Children(s)
    BY <2>3 DEF IInv, Edges
  <2> QED BY <2>1, <2>2, <2>3
<1> QED BY <1>1, <1>2, <1>3, <1>4

\* Once the result 1 is known anywhere, all items are processed, nothing is unacknowledged,
\* and no rank that has left the loop will find a message of the allreduce.
THEOREM NoWorkIsLeft == Spec => []NoWorkLeft
BY OverNoWork, Invariance, PTL

LEMMA PoolStart == Init => Pool!Init
<1> SUFFICES ASSUME Init PROVE Pool!Init
  OBVIOUS
<1>1. queue \in InitialQueues /\ created = UNION {queue[r] : r \in Ranks} /\ processed = {}
  BY DEF Init
<1>2. {r \in Ranks : phase[r] # "work"} = {}
  BY DEF Init
<1> QED BY <1>1, <1>2 DEF Pool!Init

LEMMA PoolStep == IInv /\ NoWorkLeft' /\ [Next]_vars => [Pool!Next]_(Pool!vars)
<1> SUFFICES ASSUME IInv, NoWorkLeft', [Next]_vars
             PROVE  Pool!Next \/ UNCHANGED Pool!vars
  BY DEF Pool!vars
<1> DEFINE out == {r \in Ranks : phase[r] # "work"}
<1>1. ASSUME UNCHANGED <<created, processed, phase>> PROVE UNCHANGED Pool!vars
  BY <1>1 DEF Pool!vars
<1>2. CASE UNCHANGED vars
  BY <1>1, <1>2 DEF vars, items
<1>3. ASSUME NEW r \in Ranks, Process(r) PROVE Pool!Next
  <2>1. PICK i \in queue[r], new \in Fresh :
           /\ processed' = processed \cup {i}
           /\ created' = created \cup new
    BY <1>3 DEF Process
  <2>2. i \in Items /\ i \in created \ processed
    <3>1. Accounted /\ Apart
      BY OnceParts DEF IInv
    <3>2. i \in Items
      BY <2>1 DEF IInv, TypeOK
    <3> QED BY <2>1, <3>1, <3>2 DEF Accounted, Apart
  <2>3. new \in SUBSET (Items \ created)
    BY DEF Fresh
  <2>4. out' = out
    BY <1>3 DEF Process
  <2>5. Pool!Process(i)
    BY <2>1, <2>2, <2>3, <2>4 DEF Pool!Process
  <2> QED BY <2>2, <2>5 DEF Pool!Next
<1>4. ASSUME NEW r \in Ranks, CheckForTerm(r) PROVE Pool!Next \/ UNCHANGED Pool!vars
  <2>1. phase[r] = "work" /\ UNCHANGED <<created, processed>>
    BY <1>4 DEF CheckForTerm, items
  <2>2. phase' = phase \/ phase' = [phase EXCEPT ![r] = "cleanup"]
    BY <1>4, CheckForTermPhase DEF IInv
  <2>3. CASE phase' = phase
    BY <1>1, <2>1, <2>3
  <2>4. CASE phase' = [phase EXCEPT ![r] = "cleanup"]
    <3>1. phase'[r] = "cleanup" /\ \A x \in Ranks : x # r => phase'[x] = phase[x]
      BY <2>4 DEF IInv, TypeOK
    <3>2. out' = out \cup {r}
      BY <3>1
    <3>3. processed = created
      BY <2>1, <3>1 DEF NoWorkLeft
    <3>4. Pool!Return(r)
      BY <2>1, <3>2, <3>3 DEF Pool!Return
    <3> QED BY <3>4 DEF Pool!Next
  <2> QED BY <2>2, <2>3, <2>4
<1>5. ASSUME NEW r \in Ranks, BarrierTest(r) PROVE UNCHANGED Pool!vars
  <2>1. /\ phase[r] = "cleanup" /\ UNCHANGED <<created, processed>>
        /\ phase' = phase \/ phase' = [phase EXCEPT ![r] = "done"]
    BY <1>5 DEF BarrierTest, items
  <2>2. out' = out
    BY <2>1 DEF IInv, TypeOK
  <2> QED BY <2>1, <2>2 DEF Pool!vars
<1>6. ASSUME NEW r \in Ranks, Serve(r) \/ TakeReceipt(r) \/ Ask(r) \/ Receive(r)
      PROVE  UNCHANGED Pool!vars
  BY <1>1, <1>6 DEF Serve, TakeReceipt, Ask, Receive, items
<1> QED BY <1>2, <1>3, <1>4, <1>5, <1>6 DEF Next, Call

\* The loop does with the work what WorkPool promises its callers: items are processed once
\* each, and no rank returns while one is left.
THEOREM LoopImplementsPool == Spec => Pool!Spec
BY PoolStart, PoolStep, Invariance, NoWorkIsLeft, PTL DEF Spec, Pool!Spec


-----------------------------------------------------------------------------
(* The barrier.                                                              *)

\* The calls that are not the barrier's.
LEMMA BarrierKept ==
  ASSUME BarrierInv, TypeOK', UNCHANGED <<barrier_started, barrier_up, barrier_replies, barrier>>,
         \A x \in Ranks : phase'[x] = phase[x] \/ (phase[x] = "work" /\ phase'[x] = "cleanup"),
         \A x \in Ranks : work_requested'[x] \in {work_requested[x], NoRank} \/ phase[x] = "work",
         \A x \in Ranks : phase[x] = "work" => ~barrier_started[x]
  PROVE  BarrierInv'
<1>1. \A x \in Ranks : Passed(x)' <=> Passed(x)
  BY DEF Passed
<1>2. \A x \in Ranks : /\ phase'[x] = "done" <=> phase[x] = "done"
                       /\ phase[x] # "work" => phase'[x] # "work"
  OBVIOUS
<1>3. \A x \in Ranks : ToldBy(x)' = ToldBy(x)
  BY <1>1, TreeShape DEF ToldBy
<1>4. Starts'
  BY <1>2 DEF BarrierInv, Starts
<1>5. BarrierUp'
  BY <1>1, <1>2, <1>3 DEF BarrierInv, BarrierUp
<1>6. BarrierChannels'
  BY <1>1, <1>2, Relatives DEF BarrierInv, BarrierChannels
<1> QED BY <1>4, <1>5, <1>6 DEF BarrierInv

\* What a rank hears in the barrier is from children that it has not heard yet.
LEMMA HeardInBarrier ==
  ASSUME BarrierInv, NEW r \in Ranks, phase[r] = "cleanup",
         NEW heard \in SUBSET {p \in barrier : p[2] = r /\ barrier_replies[r] < Cardinality(Children(r))},
         Cardinality(heard) <= 1
  PROVE  \E from \in SUBSET Children(r) :
           /\ heard = {<<c, r>> : c \in from}
           /\ Passed(r) => from = {}
           /\ barrier_replies[r] + Cardinality(heard) = Cardinality(ToldBy(r) \cup from)
           /\ barrier_replies[r] + Cardinality(heard) = Cardinality(Children(r))
                => ToldBy(r) \cup from = Children(r)
<1>1. /\ barrier_replies[r] = Cardinality(ToldBy(r)) /\ ToldBy(r) \subseteq Children(r)
      /\ Passed(r) => ToldBy(r) = Children(r)
  BY DEF BarrierInv, BarrierUp, ToldBy
<1>2. IsFiniteSet(ToldBy(r)) /\ Cardinality(ToldBy(r)) \in Nat /\ Children(r) \subseteq Ranks
  BY <1>1, TreeShape, FiniteRanks
<1>3. ASSUME NEW from \in SUBSET Children(r),
             barrier_replies[r] + Cardinality(heard) = Cardinality(ToldBy(r) \cup from)
      PROVE  barrier_replies[r] + Cardinality(heard) = Cardinality(Children(r))
               => ToldBy(r) \cup from = Children(r)
  <2>1. ToldBy(r) \cup from \in SUBSET Children(r)
    BY <1>1
  <2> QED BY <1>3, <2>1, ChildrenFinite, FS_Subset
<1>4. CASE heard = {}
  <2>1. Cardinality(heard) = 0
    BY <1>4, FS_EmptySet
  <2>2. barrier_replies[r] + Cardinality(heard) = Cardinality(ToldBy(r) \cup {})
    <3>1. ToldBy(r) \cup {} = ToldBy(r)
      OBVIOUS
    <3> QED BY <1>1, <1>2, <2>1, <3>1
  <2>3. {} \in SUBSET Children(r) /\ heard = {<<c, r>> : c \in {}}
    BY <1>4
  <2> QED BY <1>3, <2>2, <2>3
<1>5. CASE heard # {}
  <2>1. PICK p \in heard : TRUE
    BY <1>5
  <2>2. IsFiniteSet(heard) /\ heard \subseteq Pairs
    <3>1. IsFiniteSet(Pairs)
      BY RanksAssumption, FS_Product DEF Pairs
    <3>2. heard \subseteq Pairs
      BY DEF BarrierInv, TypeOK
    <3> QED BY <3>1, <3>2, FS_Subset
  <2>3. IsFiniteSet(heard \ {p}) /\ Cardinality(heard \ {p}) = Cardinality(heard) - 1
    BY <2>1, <2>2, FS_RemoveElement
  <2>4. Cardinality(heard) \in Nat /\ Cardinality(heard \ {p}) \in Nat
    BY <2>2, <2>3, FS_CardinalityType
  <2>5. Cardinality(heard) = 1 /\ Cardinality(heard \ {p}) = 0
    BY <2>3, <2>4
  <2>6. heard = {p}
    BY <2>1, <2>3, <2>5, FS_EmptySet
  <2> DEFINE c == p[1]
  <2>7. c \in Ranks /\ p = <<c, r>> /\ <<c, r>> \in barrier
        /\ barrier_replies[r] < Cardinality(Children(r))
    BY <2>1, <2>2 DEF Pairs
  <2> HIDE DEF c
  <2>8. ~Passed(r)
    <3>1. ASSUME Passed(r) PROVE FALSE
      <4>1. ToldBy(r) = Children(r)
        BY <1>1, <3>1
      <4>2. Cardinality(ToldBy(r)) < Cardinality(Children(r))
        BY <1>1, <2>7
      <4> QED BY <1>2, <4>1, <4>2
    <3> QED BY <3>1
  <2>9. c \in Children(r) /\ c \notin ToldBy(r)
    <3>1. c \in Children(r) \/ r \in Children(c)
      BY <2>7 DEF BarrierInv, BarrierChannels
    <3>2. ASSUME r \in Children(c) PROVE FALSE
      <4>1. r \in Ranks \ {Root} /\ Parent[r] = c
        BY <3>2 DEF Children
      <4>2. phase[c] = "done"
        BY <2>7, <4>1 DEF BarrierInv, BarrierChannels
      <4> QED BY <2>7, <2>8, <4>2 DEF BarrierInv, BarrierUp
    <3> QED BY <2>7, <3>1, <3>2 DEF ToldBy
  <2>10. barrier_replies[r] + Cardinality(heard) = Cardinality(ToldBy(r) \cup {c})
    <3>1. Cardinality(ToldBy(r) \cup {c}) = Cardinality(ToldBy(r)) + 1
      BY <1>2, <2>9, FS_AddElement
    <3> QED BY <1>1, <1>2, <2>5, <3>1
  <2>11. {c} \in SUBSET Children(r) /\ heard = {<<d, r>> : d \in {c}}
    BY <2>6, <2>7, <2>9
  <2> QED BY <1>3, <2>8, <2>10, <2>11
<1> QED BY <1>4, <1>5

Hears(r, from) ==
    /\ ~Passed(r) /\ UNCHANGED <<barrier_up, phase>>
    /\ barrier_replies' = [barrier_replies EXCEPT ![r] = Cardinality(ToldBy(r) \cup from)]
    /\ \A x, y \in Ranks : <<x, y>> \in barrier' <=> <<x, y>> \in barrier /\ ~(y = r /\ x \in from)
Passes(r, from) ==
    /\ ~Passed(r) /\ r # Root /\ ToldBy(r) \cup from = Children(r)
    /\ barrier_up' = [barrier_up EXCEPT ![r] = TRUE] /\ UNCHANGED phase
    /\ barrier_replies' = [barrier_replies EXCEPT ![r] = Cardinality(Children(r))]
    /\ \A x, y \in Ranks : <<x, y>> \in barrier' <=>
         (<<x, y>> \in barrier /\ ~(y = r /\ x \in from)) \/ (x = r /\ y = Parent[r])
Finishes(r, from) ==
    /\ ToldBy(r) \cup from = Children(r)
    /\ r # Root => Passed(r) /\ <<Parent[r], r>> \in barrier
    /\ barrier_up' = [barrier_up EXCEPT ![r] = FALSE] /\ phase' = [phase EXCEPT ![r] = "done"]
    /\ barrier_replies' = [barrier_replies EXCEPT ![r] = 0]
    /\ \A x, y \in Ranks : <<x, y>> \in barrier' <=>
         \/ <<x, y>> \in barrier /\ ~(y = r /\ (x \in from \/ (r # Root /\ x = Parent[r])))
         \/ x = r /\ y \in Children(r)

LEMMA BarrierSteps ==
  ASSUME BarrierInv, NEW r \in Ranks, BarrierTest(r)
  PROVE  \E from \in SUBSET Children(r) : /\ Passed(r) => from = {}
                                          /\ \A c \in from : <<c, r>> \in barrier
                                          /\ Hears(r, from) \/ Passes(r, from) \/ Finishes(r, from)
<1>0. phase[r] = "cleanup"
  BY DEF BarrierTest
<1>1. PICK heard \in SUBSET {p \in barrier : p[2] = r /\ barrier_replies[r] < Cardinality(Children(r))} :
        LET replies == barrier_replies[r] + Cardinality(heard)
            complete == replies = Cardinality(Children(r))
        IN /\ Cardinality(heard) <= 1
           /\ \/ /\ ~complete /\ heard # {}
                 /\ barrier' = barrier \ heard
                 /\ barrier_replies' = [barrier_replies EXCEPT ![r] = replies]
                 /\ UNCHANGED <<barrier_up, phase>>
              \/ /\ complete /\ ~barrier_up[r] /\ r # Root
                 /\ barrier' = (barrier \ heard) \cup {<<r, Parent[r]>>}
                 /\ barrier_replies' = [barrier_replies EXCEPT ![r] = replies]
                 /\ barrier_up' = [barrier_up EXCEPT ![r] = TRUE]
                 /\ UNCHANGED phase
              \/ /\ IF r = Root THEN complete
                    ELSE barrier_up[r] /\ <<Parent[r], r>> \in barrier
                 /\ barrier' = (barrier \ (heard \cup IF r = Root THEN {} ELSE {<<Parent[r], r>>}))
                               \cup {<<r, c>> : c \in Children(r)}
                 /\ barrier_replies' = [barrier_replies EXCEPT ![r] = 0]
                 /\ barrier_up' = [barrier_up EXCEPT ![r] = FALSE]
                 /\ phase' = [phase EXCEPT ![r] = "done"]
  BY DEF BarrierTest
<1> DEFINE replies == barrier_replies[r] + Cardinality(heard)
<1>2. PICK from \in SUBSET Children(r) :
           /\ heard = {<<c, r>> : c \in from}
           /\ Passed(r) => from = {}
           /\ replies = Cardinality(ToldBy(r) \cup from)
           /\ replies = Cardinality(Children(r)) => ToldBy(r) \cup from = Children(r)
  BY <1>0, <1>1, HeardInBarrier, ZenonT(30)
<1> HIDE DEF replies
<1>3. (\A c \in from : <<c, r>> \in barrier) /\ Children(r) \subseteq Ranks
  BY <1>2, TreeShape
<1>4. \A x, y \in Ranks : <<x, y>> \in heard <=> y = r /\ x \in from
  BY <1>2
<1>5. CASE /\ replies # Cardinality(Children(r)) /\ heard # {}
           /\ barrier' = barrier \ heard
           /\ barrier_replies' = [barrier_replies EXCEPT ![r] = replies]
           /\ UNCHANGED <<barrier_up, phase>>
  <2>1. ~Passed(r)
    BY <1>2, <1>5
  <2> QED BY <1>2, <1>3, <1>4, <1>5, <2>1 DEF Hears
<1>6. CASE /\ replies = Cardinality(Children(r)) /\ ~barrier_up[r] /\ r # Root
           /\ barrier' = (barrier \ heard) \cup {<<r, Parent[r]>>}
           /\ barrier_replies' = [barrier_replies EXCEPT ![r] = replies]
           /\ barrier_up' = [barrier_up EXCEPT ![r] = TRUE]
           /\ UNCHANGED phase
  <2>1. ~Passed(r)
    BY <1>0, <1>6 DEF Passed
  <2> QED BY <1>2, <1>3, <1>4, <1>6, <2>1 DEF Passes
<1>7. CASE /\ IF r = Root THEN replies = Cardinality(Children(r))
              ELSE barrier_up[r] /\ <<Parent[r], r>> \in barrier
           /\ barrier' = (barrier \ (heard \cup IF r = Root THEN {} ELSE {<<Parent[r], r>>}))
                         \cup {<<r, c>> : c \in Children(r)}
           /\ barrier_replies' = [barrier_replies EXCEPT ![r] = 0]
           /\ barrier_up' = [barrier_up EXCEPT ![r] = FALSE]
           /\ phase' = [phase EXCEPT ![r] = "done"]
  <2>1. r # Root => Passed(r) /\ <<Parent[r], r>> \in barrier
    BY <1>7 DEF Passed
  <2>2. ToldBy(r) \cup from = Children(r)
    BY <1>2, <1>7, <2>1 DEF BarrierInv, BarrierUp
  <2>3. \A x, y \in Ranks : <<x, y>> \in barrier' <=>
         \/ <<x, y>> \in barrier /\ ~(y = r /\ (x \in from \/ (r # Root /\ x = Parent[r])))
         \/ x = r /\ y \in Children(r)
    BY <1>4, <1>7
  <2> QED BY <1>2, <1>3, <1>7, <2>1, <2>2, <2>3 DEF Finishes
<1> QED BY <1>1, <1>5, <1>6, <1>7 DEF replies


\* Before a rank has passed the barrier nobody is done, so its parent is silent.
LEMMA NobodyDone ==
  ASSUME BarrierInv, NEW r \in Ranks, ~Passed(r)
  PROVE  /\ \A x \in Ranks : phase[x] # "done"
         /\ \A x \in Ranks \ {Root} : <<Parent[x], x>> \notin barrier
<1>1. \A x \in Ranks : phase[x] # "done"
  BY DEF BarrierInv, BarrierUp
<1> QED BY <1>1, Relatives DEF BarrierInv, BarrierChannels

LEMMA HearsInv ==
  ASSUME BarrierInv, TypeOK', NEW r \in Ranks, NEW from \in SUBSET Children(r), Hears(r, from),
         Starts', \A x \in Ranks : barrier_started[x] => barrier_started'[x],
         \A c \in from : <<c, r>> \in barrier
  PROVE  BarrierInv'
<1>1. /\ \A x \in Ranks : (Passed(x)' <=> Passed(x)) /\ phase[x] # "done"
      /\ phase' = phase /\ ~Passed(r)
  BY NobodyDone DEF Hears, Passed
<1>2. \A x, y \in Ranks : <<x, y>> \in barrier' <=> <<x, y>> \in barrier /\ ~(y = r /\ x \in from)
  BY DEF Hears
<1>3. ToldBy(r)' = ToldBy(r) \cup from
  <2>1. \A c \in from : c \in Ranks \ {Root} /\ Parent[c] = r /\ Passed(c)
    BY DEF Children, BarrierInv, BarrierChannels
  <2>2. \A c \in Children(r) : c \in Ranks
    BY DEF Children
  <2> QED BY <1>1, <1>2, <2>1, <2>2 DEF ToldBy
<1>4. \A x \in Ranks : x # r => ToldBy(x)' = ToldBy(x)
  BY <1>1, <1>2, TreeShape DEF ToldBy
<1>5. BarrierUp'
  <2>1. barrier_replies'[r] = Cardinality(ToldBy(r) \cup from)
        /\ \A x \in Ranks : x # r => barrier_replies'[x] = barrier_replies[x]
    BY DEF Hears, BarrierInv, TypeOK
  <2>2. \A x \in Ranks : barrier_replies'[x] = Cardinality(ToldBy(x)')
    BY <1>1, <1>3, <1>4, <2>1 DEF BarrierInv, BarrierUp
  <2>3. \A x \in Ranks : Passed(x) => x # r /\ barrier_started'[x] /\ ToldBy(x)' = Children(x)
    BY <1>1, <1>4 DEF BarrierInv, BarrierUp
  <2>4. \A x \in Ranks : barrier_replies'[x] = Cardinality(ToldBy(x))'
    BY <2>2
  <2> QED BY <1>1, <2>3, <2>4 DEF BarrierUp
<1>6. BarrierChannels'
  BY <1>1, <1>2, Relatives DEF BarrierInv, BarrierChannels
<1> QED BY <1>5, <1>6 DEF BarrierInv

LEMMA PassesInv ==
  ASSUME BarrierInv, TypeOK', NEW r \in Ranks, NEW from \in SUBSET Children(r), Passes(r, from),
         Starts', \A x \in Ranks : barrier_started[x] => barrier_started'[x], barrier_started'[r],
         \A c \in from : <<c, r>> \in barrier
  PROVE  BarrierInv'
<1>1. /\ \A x \in Ranks : phase'[x] = phase[x] /\ phase[x] # "done"
      /\ \A x \in Ranks : x # r => (Passed(x)' <=> Passed(x))
      /\ ~Passed(r) /\ Passed(r)'
  BY NobodyDone DEF Passes, Passed, BarrierInv, TypeOK
<1>2. \A x, y \in Ranks : <<x, y>> \in barrier' <=>
         (<<x, y>> \in barrier /\ ~(y = r /\ x \in from)) \/ (x = r /\ y = Parent[r])
  BY DEF Passes
<1>3. r \in Ranks \ {Root} /\ Parent[r] \in Ranks /\ Parent[r] # r /\ Parent[r] \notin Children(r)
  BY Relatives DEF Passes
<1>4. ToldBy(r)' = Children(r)
  <2>1. ASSUME NEW c \in Children(r) PROVE Passed(c)' /\ <<c, r>> \notin barrier'
    <3>1. c \in Ranks \ {Root} /\ Parent[c] = r /\ c # r
      BY TreeShape DEF Children
    <3>2. Passed(c) /\ (<<c, r>> \in barrier => c \in from)
      BY <3>1 DEF Passes, ToldBy, BarrierInv, BarrierChannels
    <3> QED BY <1>1, <1>2, <3>1, <3>2
  <2> QED BY <2>1 DEF ToldBy
<1>5. \A x \in Ranks : x # r => ToldBy(x)' = ToldBy(x)
  <2> SUFFICES ASSUME NEW x \in Ranks, x # r, NEW c \in Children(x)
               PROVE  Passed(c)' /\ <<c, x>> \notin barrier' <=> Passed(c) /\ <<c, x>> \notin barrier
    BY DEF ToldBy
  <2>1. c \in Ranks \ {Root} /\ Parent[c] = x
    BY DEF Children
  <2>2. CASE c = r
    BY <1>1, <1>2, <2>1, <2>2
  <2>3. CASE c # r
    BY <1>1, <1>2, <2>1, <2>3
  <2> QED BY <2>2, <2>3
<1>6. BarrierUp'
  <2>1. barrier_replies'[r] = Cardinality(Children(r))
        /\ \A x \in Ranks : x # r => barrier_replies'[x] = barrier_replies[x]
    BY DEF Passes, BarrierInv, TypeOK
  <2>2. \A x \in Ranks : barrier_replies'[x] = Cardinality(ToldBy(x)')
    BY <1>1, <1>4, <1>5, <2>1 DEF BarrierInv, BarrierUp
  <2>3. \A x \in Ranks : Passed(x)' => barrier_started'[x] /\ ToldBy(x)' = Children(x)
    BY <1>1, <1>4, <1>5 DEF BarrierInv, BarrierUp
  <2>4. \A x \in Ranks : barrier_replies'[x] = Cardinality(ToldBy(x))'
    BY <2>2
  <2> QED BY <1>1, <2>3, <2>4 DEF BarrierUp
<1>7. BarrierChannels'
  <2>1. ASSUME NEW c \in Ranks \ {Root}
        PROVE  /\ <<c, Parent[c]>> \in barrier' => Passed(c)'
               /\ <<Parent[c], c>> \in barrier' => phase'[Parent[c]] = "done"
    <3>1. Parent[c] \in Ranks /\ ~(Parent[c] = r /\ c = Parent[r])
      BY <1>3, Relatives
    <3> QED BY <1>1, <1>2, <3>1 DEF BarrierInv, BarrierChannels
  <2>2. \A x, y \in Ranks : <<x, y>> \in barrier' => x \in Children(y) \/ y \in Children(x)
    BY <1>2, <1>3, Relatives DEF BarrierInv, BarrierChannels
  <2> QED BY <2>1, <2>2 DEF BarrierChannels
<1> QED BY <1>6, <1>7 DEF BarrierInv

\* When the root has heard of its children every rank has passed the barrier.
LEMMA AllPassed ==
  ASSUME \A x \in Ranks : Passed(x) \/ x = Root => \A c \in Children(x) : Passed(c)
  PROVE  \A x \in Ranks \ {Root} : Passed(x)
<1> DEFINE S == {x \in Ranks : Passed(x) \/ x = Root}
<1>1. S \in SUBSET Ranks /\ Root \in S
  BY RanksAssumption
<1>2. ASSUME NEW x \in Ranks \ {Root}, Parent[x] \in S PROVE x \in S
  <2>1. Parent[x] \in Ranks /\ x \in Children(Parent[x])
    BY Relatives
  <2> QED BY <1>2, <2>1
<1>3. S = Ranks
  BY <1>1, <1>2, RanksAssumption
<1> QED BY <1>3


LEMMA FinishesInv ==
  ASSUME BarrierInv, TypeOK', NEW r \in Ranks, NEW from \in SUBSET Children(r), Finishes(r, from),
         phase[r] = "cleanup", Passed(r) => from = {},
         Starts', \A x \in Ranks : barrier_started[x] => barrier_started'[x], barrier_started'[r],
         \A c \in from : <<c, r>> \in barrier
  PROVE  BarrierInv'
<1>1. /\ phase'[r] = "done" /\ Passed(r)'
      /\ \A x \in Ranks : x # r => (phase'[x] = phase[x] /\ (Passed(x)' <=> Passed(x)))
  BY DEF Finishes, Passed, BarrierInv, TypeOK
<1>2. \A x, y \in Ranks : <<x, y>> \in barrier' <=>
         \/ <<x, y>> \in barrier /\ ~(y = r /\ (x \in from \/ (r # Root /\ x = Parent[r])))
         \/ x = r /\ y \in Children(r)
  BY DEF Finishes
<1>3. ASSUME NEW c \in Children(r)
      PROVE  /\ c \in Ranks \ {Root} /\ Parent[c] = r /\ c # r
             /\ Passed(c) /\ Passed(c)' /\ <<c, r>> \notin barrier'
  <2>1. c \in Ranks \ {Root} /\ Parent[c] = r /\ c # r /\ r \notin Children(c)
    BY TreeShape DEF Children
  <2>2. Passed(c) /\ (<<c, r>> \in barrier => c \in from)
    BY <2>1 DEF Finishes, ToldBy, BarrierInv, BarrierChannels
  <2> QED BY <1>1, <1>2, <2>1, <2>2
<1>4. ToldBy(r)' = Children(r)
  BY <1>3 DEF ToldBy
<1>5. \A x \in Ranks \ {r} : Passed(x) => \A c \in Children(x) : Passed(c)
  BY DEF BarrierInv, BarrierUp, ToldBy
<1>6. \A x \in Ranks : Passed(x)'
  <2>1. CASE r = Root
    <3>1. \A x \in Ranks \ {Root} : Passed(x)
      BY <1>3, <1>5, <2>1, AllPassed
    <3> QED BY <1>1, <2>1, <3>1
  <2>2. CASE r # Root
    <3>1. phase[Parent[r]] = "done" /\ Parent[r] \in Ranks
      BY <2>2, Relatives DEF Finishes, BarrierInv, BarrierChannels
    <3>2. \A x \in Ranks : Passed(x)
      BY <3>1 DEF BarrierInv, BarrierUp
    <3> QED BY <1>1, <3>2
  <2> QED BY <2>1, <2>2
<1>7. \A x \in Ranks : x # r => ToldBy(x)' = ToldBy(x)
  <2> SUFFICES ASSUME NEW x \in Ranks, x # r, NEW c \in Children(x)
               PROVE  Passed(c)' /\ <<c, x>> \notin barrier' <=> Passed(c) /\ <<c, x>> \notin barrier
    BY DEF ToldBy
  <2>1. c \in Ranks \ {Root} /\ Parent[c] = x /\ x \notin Children(c)
    BY TreeShape DEF Children
  <2>2. CASE c = r
    <3>1. Passed(r)
      BY <2>1, <2>2 DEF Finishes
    <3> QED BY <1>1, <1>2, <2>1, <2>2, <3>1
  <2>3. CASE c # r
    BY <1>1, <1>2, <2>1, <2>3
  <2> QED BY <2>2, <2>3
<1>8. BarrierUp'
  <2>1. \A x \in Ranks : x # r => barrier_replies'[x] = barrier_replies[x]
    BY DEF Finishes, BarrierInv, TypeOK
  <2>2. \A x \in Ranks : phase'[x] # "done" => barrier_replies'[x] = Cardinality(ToldBy(x)')
    BY <1>1, <1>7, <2>1 DEF BarrierInv, BarrierUp
  <2>3. \A x \in Ranks : barrier_started'[x] /\ ToldBy(x)' = Children(x)
    <3>1. \A x \in Ranks : x # r => Passed(x)
      BY <1>1, <1>6
    <3> QED BY <1>4, <1>7, <3>1 DEF BarrierInv, BarrierUp
  <2>4. \A x \in Ranks : phase'[x] # "done" => barrier_replies'[x] = Cardinality(ToldBy(x))'
    BY <2>2
  <2> QED BY <1>6, <2>3, <2>4 DEF BarrierUp
<1>9. BarrierChannels'
  <2>1. ASSUME NEW c \in Ranks \ {Root}
        PROVE  <<Parent[c], c>> \in barrier' => phase'[Parent[c]] = "done"
    <3>1. Parent[c] \in Ranks
      BY Relatives
    <3> QED BY <1>1, <1>2, <3>1, ZenonT(30) DEF BarrierInv, BarrierChannels
  <2>2. \A x, y \in Ranks : <<x, y>> \in barrier' => x \in Children(y) \/ y \in Children(x)
    BY <1>2 DEF BarrierInv, BarrierChannels
  <2> QED BY <1>6, <2>1, <2>2 DEF BarrierChannels
<1> QED BY <1>8, <1>9 DEF BarrierInv

LEMMA BarrierTestKeeps ==
  ASSUME BarrierInv, TypeOK', NEW r \in Ranks, BarrierTest(r)
  PROVE  BarrierInv'
<1>1. /\ phase[r] = "cleanup" /\ (barrier_started[r] \/ work_requested[r] = NoRank)
      /\ barrier_started' = [barrier_started EXCEPT ![r] = TRUE]
      /\ work_requested' = work_requested
      /\ phase' = phase \/ phase' = [phase EXCEPT ![r] = "done"]
  BY DEF BarrierTest, MayStart
<1>2. /\ \A x \in Ranks : barrier_started[x] => barrier_started'[x]
      /\ \A x \in Ranks : x # r => barrier_started'[x] = barrier_started[x]
      /\ barrier_started'[r]
  BY <1>1 DEF BarrierInv, TypeOK
<1>3. \A x \in Ranks : phase'[x] = "work" <=> phase[x] = "work"
  BY <1>1 DEF BarrierInv, TypeOK
<1>4. Starts'
  BY <1>1, <1>2, <1>3 DEF BarrierInv, Starts
<1>5. PICK from \in SUBSET Children(r) : /\ Passed(r) => from = {}
                                         /\ \A c \in from : <<c, r>> \in barrier
                                         /\ Hears(r, from) \/ Passes(r, from) \/ Finishes(r, from)
  BY BarrierSteps
<1> QED BY <1>1, <1>2, <1>4, <1>5, HearsInv, PassesInv, FinishesInv

LEMMA InitBarrier == Init => BarrierInv
<1> SUFFICES ASSUME Init PROVE BarrierInv
  OBVIOUS
<1>1. \A r \in Ranks : ~Passed(r) /\ phase[r] = "work" /\ ~barrier_started[r] /\ barrier_replies[r] = 0
  BY DEF Init, Passed
<1>2. \A r \in Ranks : ToldBy(r) = {}
  BY <1>1, TreeShape DEF ToldBy
<1>3. BarrierUp
  BY <1>1, <1>2, FS_EmptySet DEF BarrierUp
<1> QED BY <1>1, <1>3, InitTypes DEF Init, BarrierInv, Starts, BarrierChannels

LEMMA NextBarrier == IInv /\ IInv' /\ BarrierInv /\ [Next]_vars => BarrierInv'
<1> SUFFICES ASSUME IInv, IInv', BarrierInv, [Next]_vars PROVE BarrierInv'
  OBVIOUS
<1>1. TypeOK' /\ \A x \in Ranks : phase[x] = "work" => ~barrier_started[x]
  BY DEF IInv, BarrierInv, Starts
<1>2. ASSUME UNCHANGED <<phase, work_requested, barriervars>> PROVE BarrierInv'
  BY <1>1, <1>2, BarrierKept DEF barriervars
<1>3. CASE UNCHANGED vars
  BY <1>2, <1>3 DEF vars
<1>4. ASSUME NEW r \in Ranks, Process(r) \/ Serve(r) \/ TakeReceipt(r) PROVE BarrierInv'
  BY <1>2, <1>4 DEF Process, Serve, TakeReceipt
<1>5. ASSUME NEW r \in Ranks, Ask(r) \/ Receive(r) PROVE BarrierInv'
  <2>1. /\ UNCHANGED <<phase, barriervars>>
        /\ \A x \in Ranks : work_requested'[x] \in {work_requested[x], NoRank} \/ phase[x] = "work"
    BY <1>5 DEF Ask, MayAsk, Receive, IInv, TypeOK
  <2> QED BY <1>1, <2>1, BarrierKept DEF barriervars
<1>6. ASSUME NEW r \in Ranks, CheckForTerm(r) PROVE BarrierInv'
  <2>1. phase[r] = "work" /\ UNCHANGED <<work_requested, barriervars>>
    BY <1>6 DEF CheckForTerm
  <2>2. \A x \in Ranks : phase'[x] = phase[x] \/ (phase[x] = "work" /\ phase'[x] = "cleanup")
    <3>1. phase' = phase \/ phase' = [phase EXCEPT ![r] = "cleanup"]
      BY <1>6, CheckForTermPhase DEF IInv
    <3> QED BY <2>1, <3>1 DEF IInv, TypeOK
  <2> QED BY <1>1, <2>1, <2>2, BarrierKept DEF barriervars
<1>7. ASSUME NEW r \in Ranks, BarrierTest(r) PROVE BarrierInv'
  BY <1>1, <1>7, BarrierTestKeeps
<1> QED BY <1>3, <1>4, <1>5, <1>6, <1>7 DEF Next, Call

LEMMA DoneClean == IInv /\ NoWorkLeft /\ BarrierInv => CleanExit
<1> SUFFICES ASSUME IInv, NoWorkLeft, BarrierInv, NEW d \in Ranks, phase[d] = "done"
             PROVE  /\ request = {} /\ reply = {} /\ \A p \in Pairs : term[p] = NoFlag /\ receipt[p] = 0
                    /\ \A r \in Ranks : phase[r] # "work" /\ work_requested[r] = NoRank
  BY DEF CleanExit
<1>1. \A r \in Ranks : phase[r] # "work" /\ work_requested[r] = NoRank
  BY DEF BarrierInv, BarrierUp, Starts
<1>2. \A p \in Pairs : term[p] = NoFlag /\ receipt[p] = 0
  <2> SUFFICES ASSUME NEW p \in Pairs PROVE term[p] = NoFlag /\ receipt[p] = 0
    OBVIOUS
  <2>1. p = <<p[1], p[2]>> /\ p[1] \in Ranks /\ p[2] \in Ranks
    BY DEF Pairs
  <2>2. term[<<p[1], p[2]>>] = NoFlag /\ receipt[<<p[1], p[2]>>] = 0
    BY <1>1, <2>1 DEF NoWorkLeft
  <2> QED BY <2>1, <2>2
<1>3. \A r, s \in Ranks : <<r, s>> \notin request /\ Between(r, s) = {}
  BY <1>1, HandshakeParts, RanksAssumption DEF HandshakeOf, IInv
<1>4. request = {} /\ reply = {}
  <2>1. \A p \in Pairs : p = <<p[1], p[2]>> /\ p[1] \in Ranks /\ p[2] \in Ranks
    BY DEF Pairs
  <2>2. request = {}
    BY <1>3, <2>1 DEF IInv, TypeOK
  <2>3. \A m \in reply : m.to \in Ranks /\ m.from \in Ranks /\ m \in Between(m.to, m.from)
    BY DEF IInv, TypeOK, Replies, Between
  <2>4. reply = {}
    BY <1>3, <2>3
  <2> QED BY <2>2, <2>4
<1> QED BY <1>1, <1>2, <1>4

\* When the first rank returns to the caller, every rank has left the loop and no message but
\* the barrier's is on its way: the next call of the library cannot receive one of this.
THEOREM ExitIsClean == Spec => []CleanExit
<1>1. Spec => []BarrierInv
  BY InitBarrier, NextBarrier, Invariance, PTL DEF Spec
<1> QED BY <1>1, DoneClean, Invariance, NoWorkIsLeft, PTL


=============================================================================
