--------------------------- MODULE RingLogProofs ---------------------------
(***************************************************************************)
(* The safety of the debug log for any ring size, channel capacity,        *)
(* backlog, writers, streams and number of records.                        *)
(***************************************************************************)
EXTENDS RingLog, FiniteSetTheorems, SequenceTheorems, TLAPS

(* How channels, hands and the ring are built. *)
LEMMA QueueTypes ==
    /\ <<>> \in Seq(Nat)
    /\ \A q, r \in Seq(Nat) : q \o r \in Seq(Nat)
    /\ \A q \in Seq(Nat) : q # <<>> =>
          Head(q) \in Nat /\ <<Head(q)>> \in Seq(Nat) /\ Tail(q) \in Seq(Nat)
    /\ \A q \in Seq(Nat), m \in Nat : Append(q, m) \in Seq(Nat)
  OBVIOUS

(* What LastOf returns: at most n elements, the last ones, in their order.  *)
LEMMA LastOfProperties ==
  ASSUME NEW q \in Seq(Nat), NEW n \in Nat
  PROVE  /\ LastOf(q, n) \in Seq(Nat)
         /\ Len(LastOf(q, n)) = Min(n, Len(q))
         /\ \A i \in 1..Min(n, Len(q)) : LastOf(q, n)[i] = q[Len(q) - Min(n, Len(q)) + i]
<1>. DEFINE k == Min(n, Len(q))
<1>1. k \in Nat /\ k <= Len(q) /\ Len(q) \in Nat
  BY DEF Min
<1>. HIDE DEF k
<1>2. LastOf(q, n) = SubSeq(q, Len(q) - k + 1, Len(q))
  BY DEF LastOf, k
<1>3. /\ SubSeq(q, Len(q) - k + 1, Len(q)) \in Seq(Nat)
      /\ Len(SubSeq(q, Len(q) - k + 1, Len(q))) = k
      /\ \A i \in 1..k : SubSeq(q, Len(q) - k + 1, Len(q))[i] = q[Len(q) - k + i]
  BY <1>1
<1>. QED
  BY <1>2, <1>3 DEF k

(* What Read returns is a sequence of records. *)
LEMMA ReadTypes ==
  ASSUME vals \in Seq(Nat), NEW since \in Nat, NEW count \in Nat
  PROVE  ReadEntries(since, count) \in Seq(Nat)
<1>1. Get(count) \in Seq(Nat)
  BY LastOfProperties DEF Get
<1>2. Since(since) \in Seq(Nat)
  <2>. DEFINE newer == {i \in DOMAIN vals : vals[i] > since}
  <2>1. IsFiniteSet(DOMAIN vals)
    <3>1. DOMAIN vals = 1..Len(vals) /\ Len(vals) \in Nat
      OBVIOUS
    <3>. QED
      BY <3>1, FS_Interval
  <2>2. IsFiniteSet(newer)
    BY <2>1, FS_Subset
  <2>3. Cardinality(newer) \in Nat
    BY <2>2, FS_CardinalityType
  <2>. QED
    BY <2>3, LastOfProperties DEF Since
<1>3. \A some \in Seq(Nat) : some # <<>> => SubSeq(some, 1, Min(count, Len(some))) \in Seq(Nat)
  BY DEF Min
<1>. QED
  BY <1>1, <1>2, <1>3, QueueTypes DEF ReadEntries

(* Every variable keeps its type. *)
THEOREM TypeInvariant == Spec => []TypeOK
<1>. USE RingAssumption
<1>1. Init => TypeOK
  BY DEF Init, TypeOK
<1>2. TypeOK /\ [Next]_vars => TypeOK'
  <2>. SUFFICES ASSUME TypeOK, [Next]_vars PROVE TypeOK'
    OBVIOUS
  <2>1. ASSUME NEW w \in Writers, PutStart(w)
        PROVE  TypeOK'
    <3>1. Append(vals, puts + 1) \in Seq(Nat)
      BY QueueTypes DEF TypeOK
    <3>2. vals' \in Seq(Nat)
      BY <2>1, <3>1, LastOfProperties DEF PutStart
    <3>. QED
      BY <2>1, <3>2 DEF PutStart, TypeOK, feedVars
  <2>2. ASSUME NEW s \in Streams, PutSend(s)
        PROVE  TypeOK'
    <3>1. Append(entries[s], puts) \in Seq(Nat)
      BY QueueTypes DEF TypeOK
    <3>. QED
      BY <2>2, <3>1 DEF PutSend, TypeOK, feedVars
  <2>3. ASSUME NEW s \in Streams, PutDrop(s)
        PROVE  TypeOK'
    BY <2>3 DEF PutDrop, TypeOK, feedVars
  <2>4. CASE PutEnd
    BY <2>4 DEF PutEnd, TypeOK, feedVars
  <2>5. ASSUME NEW t \in Sinces, NEW n \in Counts, Read(t, n)
        PROVE  TypeOK'
    <3>1. ReadEntries(t, n) \in Seq(Nat)
      BY ReadTypes DEF TypeOK
    <3>. QED
      BY <2>5, <3>1 DEF Read, TypeOK, ringVars, feedVars
  <2>6. ASSUME NEW s \in Streams, Register(s)
        PROVE  TypeOK'
    BY <2>6 DEF Register, TypeOK, feedVars
  <2>7. ASSUME NEW s \in Streams, Open(s)
        PROVE  TypeOK'
    <3>1. Get(Last) \in Seq(Nat)
      BY LastOfProperties DEF Get, TypeOK
    <3>. QED
      BY <2>7, <3>1 DEF Open, TypeOK, ringVars
  <2>8. ASSUME NEW s \in Streams, Replay(s)
        PROVE  TypeOK'
    <3>1. Append(records[s], Head(backlog[s])) \in Seq(Nat) /\ Tail(backlog[s]) \in Seq(Nat)
      BY <2>8, QueueTypes DEF Replay, TypeOK
    <3>. QED
      BY <2>8, <3>1 DEF Replay, TypeOK, ringVars
  <2>9. ASSUME NEW s \in Streams, Take(s)
        PROVE  TypeOK'
    <3>1. <<Head(entries[s])>> \in Seq(Nat) /\ Tail(entries[s]) \in Seq(Nat)
      BY <2>9, QueueTypes DEF Take, TypeOK
    <3>. QED
      BY <2>9, <3>1 DEF Take, TypeOK
  <2>10. ASSUME NEW s \in Streams, Pass(s)
         PROVE  TypeOK'
    <3>1. records[s] \o hold[s] \in Seq(Nat) /\ <<>> \in Seq(Nat)
      BY QueueTypes DEF TypeOK
    <3>. QED
      BY <2>10, <3>1 DEF Pass, TypeOK, ringVars
  <2>11. ASSUME NEW s \in Streams, End(s)
         PROVE  TypeOK'
    BY <2>11 DEF End, TypeOK, ringVars, feedVars
  <2>12. ASSUME NEW s \in Streams, Receive(s)
         PROVE  TypeOK'
    <3>1. Append(got[s], Head(records[s])) \in Seq(Nat) /\ Tail(records[s]) \in Seq(Nat)
      BY <2>12, QueueTypes DEF Receive, TypeOK
    <3>. QED
      BY <2>12, <3>1 DEF Receive, TypeOK, ringVars
  <2>13. ASSUME NEW s \in Streams, Stop(s)
         PROVE  TypeOK'
    BY <2>13 DEF Stop, TypeOK, ringVars, feedVars
  <2>14. CASE UNCHANGED vars
    BY <2>14 DEF vars, ringVars, feedVars, TypeOK
  <2>. QED
    BY <2>1, <2>2, <2>3, <2>4, <2>5, <2>6, <2>7, <2>8, <2>9, <2>10, <2>11, <2>12, <2>13, <2>14
       DEF Next, Put, Forwarder
<1>. QED
  BY <1>1, <1>2, PTL DEF Spec

-----------------------------------------------------------------------------
(* The ring and the map of streams: a Put in progress has only registered   *)
(* streams ahead of it, and a stream that was not registered yet is nowhere.*)
RingInv ==
    /\ RingIsTail
    /\ pending \subseteq streams
    /\ streams \cap closed = {}
    /\ IF lock = None THEN pending = {} ELSE puts > 0
    /\ \A s \in Streams : opening[s] = "no" => s \notin streams \cup closed

(* The ring after a Put. *)
LEMMA PutKeepsTail ==
  ASSUME TypeOK, RingIsTail, NEW w, PutStart(w)
  PROVE  RingIsTail'
<1>. DEFINE longer == Append(vals, puts + 1)
<1>1. /\ vals \in Seq(Nat) /\ puts \in Nat /\ Size \in Nat \ {0}
      /\ puts' = puts + 1 /\ vals' = LastOf(longer, Size)
  BY RingAssumption DEF TypeOK, PutStart
<1>2. longer \in Seq(Nat) /\ Len(longer) = Len(vals) + 1 /\ Len(vals) \in Nat
  BY <1>1
<1>3. ASSUME NEW i \in 1..Len(longer)
      PROVE  longer[i] = puts - Len(vals) + i
  <2>1. CASE i \in DOMAIN vals
    <3>1. longer[i] = vals[i]
      BY <1>1, <2>1
    <3>. QED
      BY <2>1, <3>1 DEF RingIsTail
  <2>2. CASE i \notin DOMAIN vals
    <3>1. i = Len(vals) + 1 /\ longer[Len(vals) + 1] = puts + 1
      BY <1>1, <1>2, <2>2
    <3>. QED
      BY <1>1, <1>2, <3>1
  <2>. QED
    BY <2>1, <2>2
<1>. HIDE DEF longer
<1>. DEFINE k == Min(Size, Len(longer))
<1>4. k = Min(puts + 1, Size) /\ k \in Nat /\ k <= Len(longer)
  BY <1>1, <1>2 DEF RingIsTail, Min
<1>5. /\ LastOf(longer, Size) \in Seq(Nat)
      /\ Len(LastOf(longer, Size)) = k
      /\ \A i \in 1..k : LastOf(longer, Size)[i] = longer[Len(longer) - k + i]
  BY <1>1, <1>2, LastOfProperties
<1>. HIDE DEF k
<1>6. Len(vals') = k /\ DOMAIN vals' = 1..k
  BY <1>1, <1>5
<1>7. ASSUME NEW i \in 1..k
      PROVE  vals'[i] = puts + 1 - k + i
  <2>1. vals'[i] = longer[Len(longer) - k + i]
    BY <1>1, <1>5
  <2>2. Len(longer) - k + i \in 1..Len(longer)
    BY <1>2, <1>4
  <2>3. longer[Len(longer) - k + i] = puts - Len(vals) + (Len(longer) - k + i)
    BY <1>3, <2>2
  <2>4. Len(longer) = Len(vals) + 1 /\ Len(vals) \in Nat /\ k \in Nat /\ i \in Nat /\ puts \in Nat
    BY <1>1, <1>2, <1>4
  <2>5. puts - Len(vals) + (Len(longer) - k + i) = puts + 1 - k + i
    BY <2>4
  <2>. QED
    BY <2>1, <2>3, <2>5
<1>. QED
  BY <1>1, <1>4, <1>6, <1>7 DEF RingIsTail

(* RingInv holds in every reachable state.                                  *)
LEMMA RingInvariant == Spec => []RingInv
<1>. USE RingAssumption
<1>1. Init => RingInv
  BY DEF Init, RingInv, RingIsTail, Min
<1>2. TypeOK /\ RingInv /\ [Next]_vars => RingInv'
  <2>. SUFFICES ASSUME TypeOK, RingInv, [Next]_vars PROVE RingInv'
    OBVIOUS
  <2>1. ASSUME NEW w \in Writers, PutStart(w)
        PROVE  RingInv'
    BY <2>1, PutKeepsTail DEF PutStart, RingInv, TypeOK
  <2>2. ASSUME NEW s \in Streams, PutSend(s)
        PROVE  RingInv'
    BY <2>2 DEF PutSend, RingInv, RingIsTail, TypeOK, ringVars
  <2>3. ASSUME NEW s \in Streams, PutDrop(s)
        PROVE  RingInv'
    BY <2>3 DEF PutDrop, RingInv, RingIsTail, TypeOK, ringVars
  <2>4. CASE PutEnd
    BY <2>4 DEF PutEnd, RingInv, RingIsTail, TypeOK, ringVars
  <2>5. ASSUME NEW t \in Sinces, NEW n \in Counts, Read(t, n)
        PROVE  RingInv'
    BY <2>5 DEF Read, RingInv, RingIsTail, TypeOK, ringVars
  <2>6. ASSUME NEW s \in Streams, Register(s)
        PROVE  RingInv'
    BY <2>6 DEF Register, RingInv, RingIsTail, TypeOK, ringVars
  <2>7. ASSUME NEW s \in Streams, Open(s)
        PROVE  RingInv'
    BY <2>7 DEF Open, RingInv, RingIsTail, TypeOK, ringVars
  <2>8. ASSUME NEW s \in Streams, Replay(s)
        PROVE  RingInv'
    BY <2>8 DEF Replay, RingInv, RingIsTail, TypeOK, ringVars
  <2>9. ASSUME NEW s \in Streams, Take(s)
        PROVE  RingInv'
    BY <2>9 DEF Take, RingInv, RingIsTail, TypeOK, ringVars
  <2>10. ASSUME NEW s \in Streams, Pass(s)
        PROVE  RingInv'
    BY <2>10 DEF Pass, RingInv, RingIsTail, TypeOK, ringVars
  <2>11. ASSUME NEW s \in Streams, End(s)
        PROVE  RingInv'
    BY <2>11 DEF End, RingInv, RingIsTail, TypeOK, ringVars
  <2>12. ASSUME NEW s \in Streams, Receive(s)
        PROVE  RingInv'
    BY <2>12 DEF Receive, RingInv, RingIsTail, TypeOK, ringVars
  <2>13. ASSUME NEW s \in Streams, Stop(s)
        PROVE  RingInv'
    BY <2>13 DEF Stop, RingInv, RingIsTail, TypeOK, ringVars
  <2>14. CASE UNCHANGED vars
    BY <2>14 DEF vars, ringVars, RingInv, RingIsTail
  <2>. QED
    BY <2>1, <2>2, <2>3, <2>4, <2>5, <2>6, <2>7, <2>8, <2>9, <2>10, <2>11, <2>12, <2>13, <2>14
       DEF Next, Put, Forwarder
<1>. QED
  BY <1>1, <1>2, TypeInvariant, PTL DEF Spec

(* However often the ring has wrapped, Get and Since read the newest        *)
(* entries, all of them and in order.                                       *)
THEOREM RingHoldsTail == Spec => []RingIsTail
<1>1. RingInv => RingIsTail
  BY DEF RingInv
<1>. QED
  BY <1>1, RingInvariant, PTL

(* Put sends on no closed channel and closes none twice.                    *)
THEOREM ClosedIsGone == Spec => []RegisteredOpen
<1>1. RingInv => RegisteredOpen
  BY DEF RingInv, RegisteredOpen
<1>. QED
  BY <1>1, RingInvariant, PTL

-----------------------------------------------------------------------------
(* The streams.  Each record on the way is the successor of the one ahead   *)
(* of it, except where the backlog ends.                                    *)
Ascends(q) == \A i \in 2..Len(q) : q[i] = q[i - 1] + 1
StepsBackOnce(q) ==
    \A i \in 2..Len(q) : q[i] # q[i - 1] + 1 =>
        i <= Last + 1 /\ q[i] <= q[i - 1] /\ \A j \in 2..(i - 1) : q[j] = q[j - 1] + 1
Written(q) == \A i \in 1..Len(q) : q[i] \in 1..puts
Reaches(q, n) == q # <<>> => q[Len(q)] = n

(* A stream that is not open carries nothing but what Put offered to it     *)
(* since it registered.                                                     *)
Unopened(s) ==
    /\ s \notin stopped
    /\ got[s] = <<>> /\ records[s] = <<>> /\ hold[s] = <<>> /\ backlog[s] = <<>>
    /\ opening[s] = "no" => entries[s] = <<>>
    /\ opening[s] = "registered" =>
          /\ s \in streams
          /\ Ascends(entries[s]) /\ Written(entries[s]) /\ Reaches(entries[s], Newest(s))

Opened(s) ==
    /\ backlog[s] # <<>> => hold[s] = <<>>
    /\ StepsBackOnce(Pipe(s)) /\ Written(Pipe(s))
    /\ s \in streams =>
          /\ Reaches(Pipe(s), Newest(s))
          /\ Pipe(s) = <<>> => Last = 0 \/ Newest(s) = 0
    /\ opening[s] = "ended" => s \in closed

PipeInv == \A s \in Streams :
    /\ opening[s] \in {"no", "registered"} => Unopened(s)
    /\ opening[s] \in {"open", "ended"} => Opened(s)

(* Concatenation of stages is associative. *)
LEMMA Concatenation == \A p, q, t \in Seq(Nat) : p \o (q \o t) = (p \o q) \o t
<1>. TAKE p, q, t \in Seq(Nat)
<1>. DEFINE l == p \o (q \o t)
            r == (p \o q) \o t
<1>1. /\ l \in Seq(Nat) /\ r \in Seq(Nat) /\ Len(l) = Len(r)
      /\ Len(l) = Len(p) + Len(q) + Len(t)
  OBVIOUS
<1>2. ASSUME NEW i \in 1..Len(l)
      PROVE  l[i] = r[i]
  <2>1. CASE i <= Len(p)
    BY <2>1
  <2>2. CASE i > Len(p) /\ i <= Len(p) + Len(q)
    BY <2>2
  <2>3. CASE i > Len(p) + Len(q)
    BY <2>3
  <2>. QED
    BY <2>1, <2>2, <2>3
<1>. HIDE DEF l, r
<1>3. l = r
  BY <1>1, <1>2, SeqEqual
<1>. QED
  BY <1>3 DEF l, r

(* The first element of a sequence moves to the one in front of it. *)
LEMMA HeadPassed ==
  \A p, q \in Seq(Nat) : q # <<>> => Append(p, Head(q)) \o Tail(q) = p \o q
<1>. SUFFICES ASSUME NEW p \in Seq(Nat), NEW q \in Seq(Nat), q # <<>>
              PROVE  Append(p, Head(q)) \o Tail(q) = p \o q
  OBVIOUS
<1>1. ASSUME NEW hd \in Seq(Nat), NEW tl \in Seq(Nat)
      PROVE  p \o (hd \o tl) = (p \o hd) \o tl
  BY Concatenation, Zenon
<1>2. Head(q) \in Nat /\ Tail(q) \in Seq(Nat) /\ <<Head(q)>> \in Seq(Nat)
  BY QueueTypes
<1>3. q = <<Head(q)>> \o Tail(q)
  OBVIOUS
<1>4. Append(p, Head(q)) = p \o <<Head(q)>>
  BY <1>2, AppendIsConcat
<1>. QED
  BY <1>1, <1>2, <1>3, <1>4

(* What happens to the stages of a pipe: a stage q takes the first record   *)
(* of the stage p behind it; it takes all of it; a stage gets a new record. *)
Handed(q, p, q2, p2) == p # <<>> /\ q2 = Append(q, Head(p)) /\ p2 = Tail(p)
Flushed(q, p, q2, p2) == q2 = q \o p /\ p2 = <<>>
Grown(q, n, q2) == q2 = Append(q, n)

(* Stages as a whole: the solvers see these names and not the sequences.    *)
Queues == Seq(Nat)
Empty == <<>>
Join(q, p) == q \o p
Chain(g, r, h, b, e) == Join(Join(Join(Join(g, r), h), b), e)

(* The stages of a pipe joined are a sequence of records again.             *)
LEMMA JoinType == \A q, p \in Queues : Join(q, p) \in Queues
  BY DEF Queues, Join

(* A stage that carries nothing adds nothing.                               *)
LEMMA JoinEmpty == \A q \in Queues : Join(q, Empty) = q
  BY DEF Queues, Join, Empty

(* It does not matter which stages are joined first.                        *)
LEMMA JoinAssociative == \A q, p, t \in Queues : Join(q, Join(p, t)) = Join(Join(q, p), t)
  BY Concatenation, Zenon DEF Queues, Join

(* Two stages carry the same after one took a record of the other.          *)
LEMMA JoinHanded ==
  \A q, p, q2, p2 \in Queues : Handed(q, p, q2, p2) => Join(q2, p2) = Join(q, p)
  BY HeadPassed DEF Queues, Join, Handed

(* A stage that took all of another carries both, the other nothing.        *)
LEMMA JoinFlushed ==
  \A q, p, q2, p2 : Flushed(q, p, q2, p2) => q2 = Join(q, p) /\ p2 = Empty
  BY DEF Join, Empty, Flushed

(* A record that enters the last stage is the last of the pipe.             *)
LEMMA JoinGrown ==
  \A q, p, p2 \in Queues, n \in Nat : Grown(p, n, p2) => Grown(Join(q, p), n, Join(q, p2))
<1>1. \A p, q \in Seq(Nat), n \in Nat : p \o Append(q, n) = Append(p \o q, n)
  OBVIOUS
<1>. QED
  BY <1>1 DEF Queues, Join, Grown

(* A record that moves one stage leaves the pipe as it is; one that enters  *)
(* it comes last.                                                           *)
LEMMA ChainType == \A g, r, h, b, e \in Queues : Chain(g, r, h, b, e) \in Queues
  BY JoinType DEF Chain

(* Taking a record across a stage that is empty changes no order.           *)
LEMMA HandedAcross ==
  \A f, q, p, q2, p2 \in Queues :
    Handed(q, p, q2, p2) => Join(Join(Join(f, q2), Empty), p2) = Join(Join(Join(f, q), Empty), p)
<1>. TAKE f, q, p, q2, p2 \in Queues
<1>. HAVE Handed(q, p, q2, p2)
<1>1. Join(Join(f, q2), p2) = Join(Join(f, q), p)
  BY JoinHanded, JoinAssociative
<1>2. Join(Join(f, q2), Empty) = Join(f, q2) /\ Join(Join(f, q), Empty) = Join(f, q)
  BY JoinType, JoinEmpty
<1>. QED
  BY <1>1, <1>2

(* Taking all of the stage behind changes no order.                         *)
LEMMA FlushedAcross ==
  \A f, q, p, q2, p2 \in Queues :
    Flushed(q, p, q2, p2) => Join(Join(f, q2), p2) = Join(Join(f, q), p)
<1>. TAKE f, q, p, q2, p2 \in Queues
<1>. HAVE Flushed(q, p, q2, p2)
<1>1. q2 = Join(q, p) /\ p2 = Empty
  BY JoinFlushed
<1>. QED
  BY <1>1, JoinType, JoinEmpty, JoinAssociative

(* What Put offers comes last in the pipe.                                  *)
LEMMA ChainGrows ==
  \A g, r, h, b, e, e2 \in Queues, n \in Nat :
    Grown(e, n, e2) => Grown(Chain(g, r, h, b, e), n, Chain(g, r, h, b, e2))
  BY JoinType, JoinGrown DEF Chain

(* The pipe of every stream, in terms of its stages. *)
LEMMA PipeIsChain ==
  ASSUME NEW s \in Streams
  PROVE  /\ Pipe(s) = Chain(got[s], records[s], hold[s], backlog[s], entries[s])
         /\ Pipe(s)' = Chain(got'[s], records'[s], hold'[s], backlog'[s], entries'[s])
  BY DEF Pipe, Chain, Join

(* A pipe is a sequence of records.                                         *)
LEMMA PipeType ==
  ASSUME NEW s \in Streams, TypeOK
  PROVE  Pipe(s) \in Queues
<1>1. /\ got[s] \in Queues /\ records[s] \in Queues /\ hold[s] \in Queues
      /\ backlog[s] \in Queues /\ entries[s] \in Queues
  BY DEF TypeOK, Queues
<1>2. Chain(got[s], records[s], hold[s], backlog[s], entries[s]) \in Queues
  BY <1>1, ChainType
<1>. QED
  BY <1>2, PipeIsChain

(* The next record put keeps the order of what it is appended to.           *)
LEMMA AppendNext ==
  ASSUME NEW q \in Seq(Nat), NEW n \in Nat, Reaches(q, n)
  PROVE  /\ Ascends(q) => Ascends(Append(q, n + 1))
         /\ StepsBackOnce(q) => StepsBackOnce(Append(q, n + 1))
         /\ Reaches(Append(q, n + 1), n + 1)
<1>. DEFINE p == Append(q, n + 1)
<1>1. /\ p # <<>> /\ Len(p) = Len(q) + 1 /\ Len(q) \in Nat
      /\ p[Len(p)] = n + 1 /\ \A i \in 1..Len(q) : p[i] = q[i]
  OBVIOUS
<1>2. Len(q) > 0 => q[Len(q)] = n
  BY DEF Reaches
<1>. HIDE DEF p
<1>3. ASSUME NEW i \in 2..Len(p)
      PROVE  \/ p[i] = p[i - 1] + 1
             \/ i \in 2..Len(q) /\ p[i] = q[i] /\ p[i - 1] = q[i - 1]
  <2>1. CASE i = Len(p)
    <3>1. i - 1 = Len(q) /\ Len(q) \in 1..Len(q)
      BY <1>1, <2>1
    <3>2. p[i - 1] = n
      BY <1>1, <1>2, <3>1
    <3>. QED
      BY <1>1, <2>1, <3>2
  <2>2. CASE i # Len(p)
    <3>1. i \in 2..Len(q) /\ i \in 1..Len(q) /\ i - 1 \in 1..Len(q)
      BY <1>1, <2>2
    <3>. QED
      BY <1>1, <3>1
  <2>. QED
    BY <2>1, <2>2
<1>4. ASSUME Ascends(q) PROVE Ascends(p)
  BY <1>3, <1>4 DEF Ascends
<1>5. ASSUME StepsBackOnce(q) PROVE StepsBackOnce(p)
  <2>. SUFFICES ASSUME NEW i \in 2..Len(p), p[i] # p[i - 1] + 1
                PROVE  /\ i <= Last + 1 /\ p[i] <= p[i - 1]
                       /\ \A j \in 2..(i - 1) : p[j] = p[j - 1] + 1
    BY DEF StepsBackOnce
  <2>1. i \in 2..Len(q) /\ p[i] = q[i] /\ p[i - 1] = q[i - 1]
    BY <1>3
  <2>2. i <= Last + 1 /\ q[i] <= q[i - 1] /\ \A j \in 2..(i - 1) : q[j] = q[j - 1] + 1
    BY <1>5, <2>1 DEF StepsBackOnce
  <2>3. ASSUME NEW j \in 2..(i - 1)
        PROVE  p[j] = q[j] /\ p[j - 1] = q[j - 1]
    <3>1. j \in 1..Len(q) /\ j - 1 \in 1..Len(q)
      BY <1>1, <2>1
    <3>. QED
      BY <1>1, <3>1
  <2>. QED
    BY <2>1, <2>2, <2>3
<1>6. Reaches(p, n + 1)
  BY <1>1 DEF Reaches
<1>. QED
  BY <1>4, <1>5, <1>6 DEF p

(* The same for the record a Put offers. *)
LEMMA PutNext ==
  \A q, q2 \in Queues :
    puts > 0 /\ puts \in Nat /\ Grown(q, puts, q2) /\ Reaches(q, puts - 1) /\ Written(q) =>
      /\ Ascends(q) => Ascends(q2)
      /\ StepsBackOnce(q) => StepsBackOnce(q2)
      /\ Reaches(q2, puts) /\ q2 # <<>>
      /\ \A i \in 1..Len(q2) : q2[i] \in 1..puts
<1>. TAKE q, q2 \in Queues
<1>. HAVE puts > 0 /\ puts \in Nat /\ Grown(q, puts, q2) /\ Reaches(q, puts - 1) /\ Written(q)
<1>1. puts - 1 \in Nat /\ puts - 1 + 1 = puts
  OBVIOUS
<1>2. q \in Seq(Nat) /\ q2 = Append(q, puts)
  BY DEF Queues, Grown
<1>3. Len(q2) = Len(q) + 1 /\ Len(q) \in Nat /\ q2 # <<>> /\ q2[Len(q) + 1] = puts
  BY <1>2
<1>4. \A i \in 1..Len(q) : q2[i] = q[i]
  BY <1>2
<1>5. ASSUME NEW i \in 1..Len(q2)
      PROVE  q2[i] \in 1..puts
  <2>1. i \in 1..Len(q) \/ i = Len(q) + 1
    BY <1>3
  <2>2. \A j \in 1..Len(q) : q[j] \in 1..puts
    BY DEF Written
  <2>. QED
    BY <1>3, <1>4, <2>1, <2>2
<1>6. /\ Ascends(q) => Ascends(q2)
      /\ StepsBackOnce(q) => StepsBackOnce(q2)
      /\ Reaches(q2, puts)
  <2>. DEFINE n == puts - 1
  <2>1. n \in Nat /\ q2 = Append(q, n + 1) /\ Reaches(q, n) /\ n + 1 = puts
    BY <1>1, <1>2
  <2>. HIDE DEF n
  <2>. QED
    BY <1>2, <2>1, AppendNext
<1>. QED
  BY <1>3, <1>5, <1>6

(* A backlog, and behind it what was put since: both end with record n, so  *)
(* the only step back is where the second begins.                           *)
LEMMA BacklogFirst ==
  ASSUME NEW b \in Seq(Nat), NEW e \in Seq(Nat), NEW n \in Nat,
         Ascends(b), Ascends(e), Reaches(b, n), Reaches(e, n), Len(b) <= Last,
         \A i \in 1..Len(e) : e[i] <= n
  PROVE  StepsBackOnce(b \o e) /\ Reaches(b \o e, n)
<1>. USE RingAssumption
<1>. DEFINE p == b \o e
<1>1. /\ Len(p) = Len(b) + Len(e) /\ Len(b) \in Nat /\ Len(e) \in Nat
      /\ (p = <<>>) <=> (Len(p) = 0)
      /\ \A i \in 1..Len(b) : p[i] = b[i]
      /\ \A i \in 1..Len(e) : p[Len(b) + i] = e[i]
      /\ Len(b) > 0 => b[Len(b)] = n
      /\ Len(e) > 0 => e[Len(e)] = n
  BY DEF Reaches
<1>. HIDE DEF p
<1>2. ASSUME NEW i \in 2..Len(b)
      PROVE  p[i] = p[i - 1] + 1
  <2>1. i \in 1..Len(b) /\ i - 1 \in 1..Len(b)
    BY <1>1
  <2>2. b[i] = b[i - 1] + 1
    BY DEF Ascends
  <2>. QED
    BY <1>1, <2>1, <2>2
<1>3. ASSUME NEW i \in (Len(b) + 2)..Len(p)
      PROVE  p[i] = p[i - 1] + 1
  <2>1. i - Len(b) \in 2..Len(e) /\ i - Len(b) \in 1..Len(e) /\ i - Len(b) - 1 \in 1..Len(e)
    BY <1>1
  <2>2. e[i - Len(b)] = e[i - Len(b) - 1] + 1
    BY <2>1 DEF Ascends
  <2>3. Len(b) + (i - Len(b)) = i /\ Len(b) + (i - Len(b) - 1) = i - 1
    BY <1>1
  <2>4. p[Len(b) + (i - Len(b))] = e[i - Len(b)] /\ p[Len(b) + (i - Len(b) - 1)] = e[i - Len(b) - 1]
    BY <1>1, <2>1
  <2>. QED
    BY <2>2, <2>3, <2>4
<1>4. ASSUME NEW i \in 2..Len(p), i = Len(b) + 1
      PROVE  p[i] <= p[i - 1]
  <2>1. Len(e) > 0 /\ Len(b) > 0 /\ 1 \in 1..Len(e) /\ i - 1 = Len(b) /\ Len(b) \in 1..Len(b)
    BY <1>1, <1>4
  <2>2. p[i] = e[1] /\ p[i - 1] = n
    BY <1>1, <1>4, <2>1
  <2>. QED
    BY <2>1, <2>2
<1>5. StepsBackOnce(p)
  <2>. SUFFICES ASSUME NEW i \in 2..Len(p), p[i] # p[i - 1] + 1
                PROVE  /\ i <= Last + 1 /\ p[i] <= p[i - 1]
                       /\ \A j \in 2..(i - 1) : p[j] = p[j - 1] + 1
    BY DEF StepsBackOnce
  <2>1. i = Len(b) + 1
    <3>1. i \notin 2..Len(b) /\ i \notin (Len(b) + 2)..Len(p)
      BY <1>2, <1>3
    <3>. QED
      BY <1>1, <3>1
  <2>2. i <= Last + 1 /\ i - 1 = Len(b)
    BY <1>1, <2>1
  <2>. QED
    BY <1>2, <1>4, <2>1, <2>2
<1>6. Reaches(p, n)
  <2>. SUFFICES ASSUME Len(p) > 0 PROVE p[Len(p)] = n
    BY <1>1 DEF Reaches
  <2>1. CASE Len(e) > 0
    <3>1. Len(e) \in 1..Len(e)
      BY <1>1, <2>1
    <3>. QED
      BY <1>1, <2>1, <3>1
  <2>2. CASE Len(e) = 0
    <3>1. Len(p) = Len(b) /\ Len(b) > 0 /\ Len(b) \in 1..Len(b)
      BY <1>1, <2>2
    <3>. QED
      BY <1>1, <3>1
  <2>. QED
    BY <1>1, <2>1, <2>2
<1>. QED
  BY <1>5, <1>6 DEF p

(* A step that touches nothing of a stream, or only counts a record the     *)
(* stream has still ahead of it.                                            *)
LEMMA OtherStream ==
  ASSUME TypeOK, NEW u \in Streams,
         UNCHANGED <<opening[u], entries[u], records[u], got[u], hold[u], backlog[u]>>,
         puts' \in Nat, puts <= puts',
         u \in streams' <=> u \in streams, u \in streams => Newest(u)' = Newest(u),
         u \in stopped' => u \in stopped, u \in closed => u \in closed'
  PROVE  (Unopened(u) => Unopened(u)') /\ (Opened(u) => Opened(u)')
<1>1. Pipe(u)' = Pipe(u)
  BY DEF Pipe
<1>2. \A q : Written(q) => \A i \in 1..Len(q) : q[i] \in 1..puts'
  BY DEF Written, TypeOK
<1>3. Unopened(u) => Unopened(u)'
  BY <1>2 DEF Unopened, Ascends, Written, Reaches
<1>4. Opened(u) => Opened(u)'
  BY <1>1, <1>2 DEF Opened, StepsBackOnce, Written, Reaches
<1>. QED
  BY <1>3, <1>4

(* A record of an open stream moves one stage. *)
LEMMA MovedStream ==
  ASSUME NEW s \in Streams, Opened(s), Pipe(s)' = Pipe(s),
         UNCHANGED <<opening, puts, pending, streams, closed>>,
         backlog'[s] # <<>> => hold'[s] = <<>>
  PROVE  Opened(s)'
  BY DEF Opened, StepsBackOnce, Written, Reaches, Newest

(* PipeInv holds in every reachable state.                                  *)
LEMMA PipeInvariant == Spec => []PipeInv
<1>. USE RingAssumption
<1>1. Init => PipeInv
  BY DEF Init, PipeInv, Unopened
<1>2. TypeOK /\ TypeOK' /\ RingInv /\ PipeInv /\ [Next]_vars => PipeInv'
  <2>. SUFFICES ASSUME TypeOK, TypeOK', RingInv, PipeInv, [Next]_vars PROVE PipeInv'
    OBVIOUS
  <2>. DEFINE Inv(s) == /\ opening[s] \in {"no", "registered"} => Unopened(s)
                        /\ opening[s] \in {"open", "ended"} => Opened(s)
  <2>0. /\ \A s \in Streams : Inv(s)
        /\ (\A s \in Streams : Inv(s)') => PipeInv'
    BY DEF PipeInv
  <2>. HIDE DEF Inv
  <2>1. ASSUME NEW w \in Writers, PutStart(w)
        PROVE  PipeInv'
    <3>1. ASSUME NEW u \in Streams
          PROVE  Inv(u)'
      <4>1. u \in streams => Newest(u)' = Newest(u)
        BY <2>1 DEF PutStart, RingInv, Newest, TypeOK
      <4>2. /\ UNCHANGED <<opening[u], entries[u], records[u], got[u], hold[u], backlog[u]>>
            /\ puts' \in Nat /\ puts <= puts'
            /\ UNCHANGED <<streams, stopped, closed>>
        BY <2>1 DEF PutStart, feedVars, TypeOK
      <4>3. (Unopened(u) => Unopened(u)') /\ (Opened(u) => Opened(u)')
        BY <4>1, <4>2, OtherStream
      <4>. QED
        BY <2>0, <4>2, <4>3 DEF Inv
    <3>. QED
      BY <2>0, <3>1
  <2>2. ASSUME NEW s \in Streams, PutSend(s)
        PROVE  PipeInv'
    <3>1. ASSUME NEW u \in Streams \ {s}
          PROVE  Inv(u)'
      <4>1. Newest(u)' = Newest(u)
        BY <2>2 DEF PutSend, Newest
      <4>2. /\ UNCHANGED <<opening[u], entries[u], records[u], got[u], hold[u], backlog[u]>>
            /\ puts' \in Nat /\ puts <= puts'
            /\ UNCHANGED <<streams, stopped, closed>>
        BY <2>2 DEF PutSend, feedVars, TypeOK
      <4>3. (Unopened(u) => Unopened(u)') /\ (Opened(u) => Opened(u)')
        BY <4>1, <4>2, OtherStream
      <4>. QED
        BY <2>0, <4>2, <4>3 DEF Inv
    <3>2. /\ s \in streams /\ puts \in Nat /\ puts > 0 /\ puts - 1 \in Nat
          /\ Newest(s) = puts - 1 /\ Newest(s)' = puts
          /\ opening[s] \in {"registered", "open"}
      BY <2>0, <2>2 DEF PutSend, RingInv, Newest, TypeOK, Inv, Opened
    <3>3. /\ UNCHANGED <<opening, got, records, hold, backlog, puts, streams, stopped, closed>>
          /\ entries'[s] = Append(entries[s], puts)
      BY <2>2 DEF PutSend, feedVars, TypeOK
    <3>4. Grown(entries[s], puts, entries'[s])
      BY <3>3 DEF Grown
    <3>5. CASE opening[s] = "registered"
      <4>1. entries[s] \in Queues /\ entries'[s] \in Queues /\ Unopened(s)
        BY <2>0, <3>5 DEF TypeOK, Inv, Queues
      <4>2. /\ Ascends(entries'[s]) /\ Reaches(entries'[s], puts)
            /\ \A i \in 1..Len(entries'[s]) : entries'[s][i] \in 1..puts
        BY <3>2, <3>4, <3>5, <4>1, PutNext DEF Unopened
      <4>3. Unopened(s)'
        BY <3>2, <3>3, <3>5, <4>1, <4>2 DEF Unopened, Ascends, Reaches, Written
      <4>. QED
        BY <2>0, <3>1, <3>3, <3>5, <4>3 DEF Inv
    <3>6. CASE opening[s] = "open"
      <4>1. Opened(s)
        BY <2>0, <3>6 DEF Inv
      <4>2. /\ got[s] \in Queues /\ records[s] \in Queues /\ hold[s] \in Queues
            /\ backlog[s] \in Queues /\ entries[s] \in Queues /\ entries'[s] \in Queues
        BY DEF TypeOK, Queues
      <4>. DEFINE old == Chain(got[s], records[s], hold[s], backlog[s], entries[s])
                  new == Chain(got[s], records[s], hold[s], backlog[s], entries'[s])
      <4>3. old \in Queues /\ new \in Queues /\ Grown(old, puts, new)
        BY <3>2, <3>4, <4>2, ChainType, ChainGrows
      <4>4. Pipe(s) = old /\ Pipe(s)' = new
        BY <3>3, PipeIsChain
      <4>. HIDE DEF old, new
      <4>5. Reaches(old, puts - 1) /\ Written(old) /\ StepsBackOnce(old)
        BY <3>2, <4>1, <4>4 DEF Opened
      <4>6. /\ StepsBackOnce(new) /\ Reaches(new, puts) /\ new # <<>>
            /\ \A i \in 1..Len(new) : new[i] \in 1..puts
        BY <3>2, <4>3, <4>5, PutNext
      <4>7. Opened(s)'
        BY <3>2, <3>3, <3>6, <4>1, <4>4, <4>6 DEF Opened, StepsBackOnce, Written, Reaches
      <4>. QED
        BY <2>0, <3>1, <3>3, <3>6, <4>7 DEF Inv
    <3>. QED
      BY <3>2, <3>5, <3>6
  <2>3. ASSUME NEW s \in Streams, PutDrop(s)
        PROVE  PipeInv'
    <3>1. ASSUME NEW u \in Streams \ {s}
          PROVE  Inv(u)'
      <4>1. Newest(u)' = Newest(u)
        BY <2>3 DEF PutDrop, Newest
      <4>2. /\ UNCHANGED <<opening[u], entries[u], records[u], got[u], hold[u], backlog[u]>>
            /\ puts' \in Nat /\ puts <= puts'
            /\ u \in streams' <=> u \in streams
            /\ stopped' = stopped /\ closed \subseteq closed'
        BY <2>3 DEF PutDrop, feedVars, TypeOK
      <4>3. (Unopened(u) => Unopened(u)') /\ (Opened(u) => Opened(u)')
        BY <4>1, <4>2, OtherStream
      <4>. QED
        BY <2>0, <4>2, <4>3 DEF Inv
    <3>2. opening[s] \in {"open", "ended"} /\ Opened(s)
      BY <2>0, <2>3 DEF PutDrop, Inv, Unopened, TypeOK
    <3>3. UNCHANGED Pipe(s)
      BY <2>3 DEF PutDrop, feedVars, Pipe
    <3>4. Opened(s)'
      BY <2>3, <3>2, <3>3 DEF PutDrop, feedVars, Opened, StepsBackOnce, Written
    <3>. QED
      BY <2>0, <2>3, <3>1, <3>2, <3>4 DEF PutDrop, Inv
  <2>4. CASE PutEnd
    <3>1. ASSUME NEW u \in Streams
          PROVE  Inv(u)'
      <4>1. Newest(u)' = Newest(u)
        BY <2>4 DEF PutEnd, Newest
      <4>2. /\ UNCHANGED <<opening[u], entries[u], records[u], got[u], hold[u], backlog[u]>>
            /\ puts' \in Nat /\ puts <= puts'
            /\ UNCHANGED <<streams, stopped, closed>>
        BY <2>4 DEF PutEnd, feedVars, TypeOK
      <4>3. (Unopened(u) => Unopened(u)') /\ (Opened(u) => Opened(u)')
        BY <4>1, <4>2, OtherStream
      <4>. QED
        BY <2>0, <4>2, <4>3 DEF Inv
    <3>. QED
      BY <2>0, <3>1
  <2>5. CASE UNCHANGED <<ringVars, stopped, opening, feedVars>>
    <3>1. ASSUME NEW u \in Streams
          PROVE  Inv(u)'
      <4>1. /\ UNCHANGED <<opening[u], entries[u], records[u], got[u], hold[u], backlog[u],
                          Newest(u)>>
            /\ puts' \in Nat /\ puts <= puts'
            /\ UNCHANGED <<streams, stopped, closed>>
        BY <2>5 DEF ringVars, feedVars, TypeOK, Newest
      <4>2. (Unopened(u) => Unopened(u)') /\ (Opened(u) => Opened(u)')
        BY <4>1, OtherStream
      <4>. QED
        BY <2>0, <4>1, <4>2 DEF Inv
    <3>. QED
      BY <2>0, <3>1
  <2>6. ASSUME NEW s \in Streams, Register(s)
        PROVE  PipeInv'
    <3>1. ASSUME NEW u \in Streams \ {s}
          PROVE  Inv(u)'
      <4>1. /\ UNCHANGED <<opening[u], entries[u], records[u], got[u], hold[u], backlog[u],
                          Newest(u)>>
            /\ puts' \in Nat /\ puts <= puts'
            /\ u \in streams' <=> u \in streams
            /\ u \in stopped' => u \in stopped
            /\ closed' = closed
        BY <2>6 DEF Register, ringVars, feedVars, TypeOK, Newest
      <4>2. (Unopened(u) => Unopened(u)') /\ (Opened(u) => Opened(u)')
        BY <4>1, OtherStream
      <4>. QED
        BY <2>0, <4>1, <4>2 DEF Inv
    <3>2. Unopened(s)
      BY <2>0, <2>6 DEF Register, Inv
    <3>3. Unopened(s)' /\ opening'[s] = "registered"
      BY <2>6, <3>2 DEF Register, Unopened, feedVars, TypeOK, Ascends, Written, Reaches
    <3>. QED
      BY <2>0, <3>1, <3>3 DEF Inv
  <2>7. ASSUME NEW s \in Streams, Open(s)
        PROVE  PipeInv'
    <3>1. ASSUME NEW u \in Streams \ {s}
          PROVE  Inv(u)'
      <4>1. /\ UNCHANGED <<opening[u], entries[u], records[u], got[u], hold[u], backlog[u],
                          Newest(u)>>
            /\ puts' \in Nat /\ puts <= puts'
            /\ u \in streams' <=> u \in streams
            /\ u \in stopped' => u \in stopped
            /\ closed' = closed
        BY <2>7 DEF Open, ringVars, feedVars, TypeOK, Newest
      <4>2. (Unopened(u) => Unopened(u)') /\ (Opened(u) => Opened(u)')
        BY <4>1, OtherStream
      <4>. QED
        BY <2>0, <4>1, <4>2 DEF Inv
    <3>2. /\ Unopened(s) /\ pending = {} /\ Newest(s) = puts /\ puts \in Nat /\ Last \in Nat
          /\ opening'[s] = "open"
      BY <2>0, <2>7 DEF Open, Inv, RingInv, Newest, TypeOK
    <3>3. /\ got[s] = <<>> /\ records[s] = <<>> /\ hold[s] = <<>>
          /\ Ascends(entries[s]) /\ Written(entries[s]) /\ Reaches(entries[s], puts)
          /\ entries[s] \in Seq(Nat)
      BY <2>7, <3>2 DEF Open, Unopened, TypeOK
    <3>. DEFINE b == Get(Last)
    <3>4. /\ b \in Seq(Nat) /\ Len(b) <= Last /\ Ascends(b) /\ Written(b) /\ Reaches(b, puts)
          /\ b = <<>> => Last = 0 \/ puts = 0
      <4>. DEFINE k == Min(Last, Len(vals))
      <4>1. /\ Len(vals) = Min(puts, Size) /\ DOMAIN vals = 1..Len(vals) /\ Len(vals) \in Nat
            /\ \A i \in DOMAIN vals : vals[i] = puts - Len(vals) + i
            /\ vals \in Seq(Nat)
        BY DEF RingInv, RingIsTail, TypeOK
      <4>2. k \in Nat /\ k <= Last /\ k <= Len(vals) /\ (k = 0 => Last = 0 \/ puts = 0) /\ k <= puts
        BY <3>2, <4>1 DEF Min
      <4>3. b \in Seq(Nat) /\ Len(b) = k /\ \A i \in 1..k : b[i] = vals[Len(vals) - k + i]
        BY <4>1, LastOfProperties DEF Get
      <4>. HIDE DEF b, k
      <4>4. ASSUME NEW i \in 1..k
            PROVE  b[i] = puts - k + i
        <5>1. Len(vals) - k + i \in DOMAIN vals
          BY <4>1, <4>2
        <5>2. vals[Len(vals) - k + i] = puts - Len(vals) + (Len(vals) - k + i)
          BY <4>1, <5>1
        <5>3. puts - Len(vals) + (Len(vals) - k + i) = puts - k + i
          BY <3>2, <4>1, <4>2
        <5>. QED
          BY <4>3, <5>2, <5>3
      <4>5. Ascends(b)
        <5>1. \A i \in 2..k : i \in 1..k /\ i - 1 \in 1..k
          BY <4>2
        <5>. QED
          BY <3>2, <4>2, <4>3, <4>4, <5>1 DEF Ascends
      <4>6. Written(b) /\ Reaches(b, puts)
        BY <3>2, <4>2, <4>3, <4>4 DEF Written, Reaches
      <4>. QED
        BY <4>2, <4>3, <4>5, <4>6
    <3>. HIDE DEF b
    <3>5. Pipe(s)' = b \o entries[s]
      <4>1. /\ got'[s] = <<>> /\ records'[s] = <<>> /\ hold'[s] = <<>> /\ backlog'[s] = b
            /\ entries'[s] = entries[s]
        BY <2>7, <3>3 DEF Open, ringVars, TypeOK, b
      <4>2. <<>> \o <<>> = <<>> /\ \A q \in Seq(Nat) : <<>> \o q = q
        OBVIOUS
      <4>. QED
        BY <3>4, <4>1, <4>2 DEF Pipe
    <3>6. StepsBackOnce(b \o entries[s]) /\ Reaches(b \o entries[s], puts)
      <4>1. \A i \in 1..Len(entries[s]) : entries[s][i] <= puts
        BY <3>2, <3>3 DEF Written
      <4>. QED
        BY <3>2, <3>3, <3>4, <4>1, BacklogFirst
    <3>7. Written(b \o entries[s]) /\ (b \o entries[s] = <<>> => Last = 0 \/ puts = 0)
      <4>. DEFINE e == entries[s]
      <4>1. /\ Len(b \o e) = Len(b) + Len(e) /\ Len(b) \in Nat /\ Len(e) \in Nat
            /\ \A i \in 1..(Len(b) + Len(e)) : (b \o e)[i] = IF i <= Len(b) THEN b[i] ELSE e[i - Len(b)]
            /\ b \o e = <<>> => b = <<>>
        BY <3>3, <3>4
      <4>. HIDE DEF e
      <4>2. Written(b) /\ Written(e)
        BY <3>3, <3>4 DEF e
      <4>3. Written(b \o e)
        BY <4>1, <4>2 DEF Written
      <4>. QED
        BY <3>4, <4>1, <4>3 DEF e
    <3>8. Opened(s)'
      BY <2>7, <3>2, <3>3, <3>5, <3>6, <3>7
         DEF Open, ringVars, TypeOK, Opened, StepsBackOnce, Written, Reaches, Newest
    <3>. QED
      BY <2>0, <3>1, <3>2, <3>8 DEF Inv
  <2>8. ASSUME NEW s \in Streams, Replay(s)
        PROVE  PipeInv'
    <3>1. ASSUME NEW u \in Streams \ {s}
          PROVE  Inv(u)'
      <4>1. /\ UNCHANGED <<opening[u], entries[u], records[u], got[u], hold[u], backlog[u],
                          Newest(u)>>
            /\ puts' \in Nat /\ puts <= puts'
            /\ u \in streams' <=> u \in streams
            /\ u \in stopped' => u \in stopped
            /\ closed' = closed
        BY <2>8 DEF Replay, ringVars, feedVars, TypeOK, Newest
      <4>2. (Unopened(u) => Unopened(u)') /\ (Opened(u) => Opened(u)')
        BY <4>1, OtherStream
      <4>. QED
        BY <2>0, <4>1, <4>2 DEF Inv
    <3>2. Opened(s) /\ opening[s] \in {"open", "ended"}
      BY <2>0, <2>8 DEF Replay, Inv, Unopened, TypeOK
    <3>3. Pipe(s)' = Pipe(s)
      <4>1. /\ got[s] \in Queues /\ records[s] \in Queues /\ hold[s] \in Queues
            /\ backlog[s] \in Queues /\ entries[s] \in Queues
            /\ got'[s] \in Queues /\ records'[s] \in Queues /\ hold'[s] \in Queues
            /\ backlog'[s] \in Queues /\ entries'[s] \in Queues
        BY DEF TypeOK, Queues
      <4>2. UNCHANGED <<got[s], hold[s], entries[s]>>
        BY <2>8 DEF Replay, ringVars
      <4>3. Handed(records[s], backlog[s], records'[s], backlog'[s]) /\ hold[s] = Empty
        BY <2>8, <3>2 DEF Replay, Handed, Empty, Opened, ringVars, TypeOK
      <4>. QED
        <5>1. Pipe(s) = Chain(got[s], records[s], hold[s], backlog[s], entries[s])
          BY PipeIsChain
        <5>2. Pipe(s)' = Chain(got'[s], records'[s], hold'[s], backlog'[s], entries'[s])
          BY PipeIsChain
        <5>3. Chain(got[s], records'[s], hold[s], backlog'[s], entries[s]) =
              Chain(got[s], records[s], hold[s], backlog[s], entries[s])
          <6>1. Join(Join(Join(got[s], records'[s]), Empty), backlog'[s]) =
                Join(Join(Join(got[s], records[s]), Empty), backlog[s])
            <7>1. /\ got[s] \in Queues /\ records[s] \in Queues /\ backlog[s] \in Queues
                  /\ records'[s] \in Queues /\ backlog'[s] \in Queues
              BY <4>1
            <7>2. Handed(records[s], backlog[s], records'[s], backlog'[s])
              BY <4>3
            <7>. QED
              BY <7>1, <7>2, HandedAcross
          <6>. QED
            BY <4>3, <6>1 DEF Chain
        <5>. QED
          BY <4>2, <5>1, <5>2, <5>3
    <3>4. /\ UNCHANGED <<opening, puts, pending, streams, closed>>
          /\ backlog'[s] # <<>> => hold'[s] = <<>>
      BY <2>8, <3>2 DEF Replay, Opened, ringVars, TypeOK
    <3>5. Opened(s)'
      BY <3>2, <3>3, <3>4, MovedStream
    <3>. QED
      BY <2>0, <3>1, <3>2, <3>4, <3>5 DEF Inv
  <2>9. ASSUME NEW s \in Streams, Take(s)
        PROVE  PipeInv'
    <3>1. ASSUME NEW u \in Streams \ {s}
          PROVE  Inv(u)'
      <4>1. /\ UNCHANGED <<opening[u], entries[u], records[u], got[u], hold[u], backlog[u],
                          Newest(u)>>
            /\ puts' \in Nat /\ puts <= puts'
            /\ u \in streams' <=> u \in streams
            /\ u \in stopped' => u \in stopped
            /\ closed' = closed
        BY <2>9 DEF Take, ringVars, feedVars, TypeOK, Newest
      <4>2. (Unopened(u) => Unopened(u)') /\ (Opened(u) => Opened(u)')
        BY <4>1, OtherStream
      <4>. QED
        BY <2>0, <4>1, <4>2 DEF Inv
    <3>2. Opened(s) /\ opening[s] \in {"open", "ended"}
      BY <2>0, <2>9 DEF Take, Inv, Unopened, TypeOK
    <3>3. Pipe(s)' = Pipe(s)
      <4>1. /\ got[s] \in Queues /\ records[s] \in Queues /\ hold[s] \in Queues
            /\ backlog[s] \in Queues /\ entries[s] \in Queues
            /\ got'[s] \in Queues /\ records'[s] \in Queues /\ hold'[s] \in Queues
            /\ backlog'[s] \in Queues /\ entries'[s] \in Queues
        BY DEF TypeOK, Queues
      <4>2. UNCHANGED <<got[s], records[s], backlog[s]>>
        BY <2>9 DEF Take, ringVars
      <4>3. Handed(hold[s], entries[s], hold'[s], entries'[s]) /\ backlog[s] = Empty
        BY <2>9, <3>2 DEF Take, Handed, Empty, Opened, ringVars, TypeOK
      <4>. QED
        <5>1. Pipe(s) = Chain(got[s], records[s], hold[s], backlog[s], entries[s])
          BY PipeIsChain
        <5>2. Pipe(s)' = Chain(got'[s], records'[s], hold'[s], backlog'[s], entries'[s])
          BY PipeIsChain
        <5>3. Chain(got[s], records[s], hold'[s], backlog[s], entries'[s]) =
              Chain(got[s], records[s], hold[s], backlog[s], entries[s])
          <6>. DEFINE front == Join(got[s], records[s])
          <6>1. front \in Queues
            BY <4>1, JoinType
          <6>. HIDE DEF front
          <6>2. Join(Join(Join(front, hold'[s]), Empty), entries'[s]) =
                Join(Join(Join(front, hold[s]), Empty), entries[s])
            <7>1. /\ hold[s] \in Queues /\ entries[s] \in Queues
                  /\ hold'[s] \in Queues /\ entries'[s] \in Queues
              BY <4>1
            <7>2. Handed(hold[s], entries[s], hold'[s], entries'[s])
              BY <4>3
            <7>. QED
              BY <6>1, <7>1, <7>2, HandedAcross
          <6>. QED
            BY <4>3, <6>2 DEF Chain, front
        <5>. QED
          BY <4>2, <5>1, <5>2, <5>3
    <3>4. /\ UNCHANGED <<opening, puts, pending, streams, closed>>
          /\ backlog'[s] # <<>> => hold'[s] = <<>>
      BY <2>9, <3>2 DEF Take, Opened, ringVars, TypeOK
    <3>5. Opened(s)'
      BY <3>2, <3>3, <3>4, MovedStream
    <3>. QED
      BY <2>0, <3>1, <3>2, <3>4, <3>5 DEF Inv
  <2>10. ASSUME NEW s \in Streams, Pass(s)
        PROVE  PipeInv'
    <3>1. ASSUME NEW u \in Streams \ {s}
          PROVE  Inv(u)'
      <4>1. /\ UNCHANGED <<opening[u], entries[u], records[u], got[u], hold[u], backlog[u],
                          Newest(u)>>
            /\ puts' \in Nat /\ puts <= puts'
            /\ u \in streams' <=> u \in streams
            /\ u \in stopped' => u \in stopped
            /\ closed' = closed
        BY <2>10 DEF Pass, ringVars, feedVars, TypeOK, Newest
      <4>2. (Unopened(u) => Unopened(u)') /\ (Opened(u) => Opened(u)')
        BY <4>1, OtherStream
      <4>. QED
        BY <2>0, <4>1, <4>2 DEF Inv
    <3>2. Opened(s) /\ opening[s] \in {"open", "ended"}
      BY <2>0, <2>10 DEF Pass, Inv, Unopened, TypeOK
    <3>3. Pipe(s)' = Pipe(s)
      <4>1. /\ got[s] \in Queues /\ records[s] \in Queues /\ hold[s] \in Queues
            /\ backlog[s] \in Queues /\ entries[s] \in Queues
            /\ got'[s] \in Queues /\ records'[s] \in Queues /\ hold'[s] \in Queues
            /\ backlog'[s] \in Queues /\ entries'[s] \in Queues
        BY DEF TypeOK, Queues
      <4>2. UNCHANGED <<got[s], backlog[s], entries[s]>>
        BY <2>10 DEF Pass, ringVars
      <4>3. Flushed(records[s], hold[s], records'[s], hold'[s])
        BY <2>10, <3>2 DEF Pass, Flushed, Opened, ringVars, TypeOK
      <4>. QED
        <5>1. Pipe(s) = Chain(got[s], records[s], hold[s], backlog[s], entries[s])
          BY PipeIsChain
        <5>2. Pipe(s)' = Chain(got'[s], records'[s], hold'[s], backlog'[s], entries'[s])
          BY PipeIsChain
        <5>3. Chain(got[s], records'[s], hold'[s], backlog[s], entries[s]) =
              Chain(got[s], records[s], hold[s], backlog[s], entries[s])
          <6>1. Join(Join(got[s], records'[s]), hold'[s]) = Join(Join(got[s], records[s]), hold[s])
            <7>1. /\ got[s] \in Queues /\ records[s] \in Queues /\ hold[s] \in Queues
                  /\ records'[s] \in Queues /\ hold'[s] \in Queues
              BY <4>1
            <7>. QED
              BY <4>3, <7>1, FlushedAcross
          <6>. QED
            BY <6>1 DEF Chain
        <5>. QED
          BY <4>2, <5>1, <5>2, <5>3
    <3>4. /\ UNCHANGED <<opening, puts, pending, streams, closed>>
          /\ backlog'[s] # <<>> => hold'[s] = <<>>
      BY <2>10, <3>2 DEF Pass, Opened, ringVars, TypeOK
    <3>5. Opened(s)'
      BY <3>2, <3>3, <3>4, MovedStream
    <3>. QED
      BY <2>0, <3>1, <3>2, <3>4, <3>5 DEF Inv
  <2>11. ASSUME NEW s \in Streams, Receive(s)
        PROVE  PipeInv'
    <3>1. ASSUME NEW u \in Streams \ {s}
          PROVE  Inv(u)'
      <4>1. /\ UNCHANGED <<opening[u], entries[u], records[u], got[u], hold[u], backlog[u],
                          Newest(u)>>
            /\ puts' \in Nat /\ puts <= puts'
            /\ u \in streams' <=> u \in streams
            /\ u \in stopped' => u \in stopped
            /\ closed' = closed
        BY <2>11 DEF Receive, ringVars, feedVars, TypeOK, Newest
      <4>2. (Unopened(u) => Unopened(u)') /\ (Opened(u) => Opened(u)')
        BY <4>1, OtherStream
      <4>. QED
        BY <2>0, <4>1, <4>2 DEF Inv
    <3>2. Opened(s) /\ opening[s] \in {"open", "ended"}
      BY <2>0, <2>11 DEF Receive, Inv, Unopened, TypeOK
    <3>3. Pipe(s)' = Pipe(s)
      <4>1. /\ got[s] \in Queues /\ records[s] \in Queues /\ hold[s] \in Queues
            /\ backlog[s] \in Queues /\ entries[s] \in Queues
            /\ got'[s] \in Queues /\ records'[s] \in Queues /\ hold'[s] \in Queues
            /\ backlog'[s] \in Queues /\ entries'[s] \in Queues
        BY DEF TypeOK, Queues
      <4>2. UNCHANGED <<hold[s], backlog[s], entries[s]>>
        BY <2>11 DEF Receive, ringVars
      <4>3. Handed(got[s], records[s], got'[s], records'[s])
        BY <2>11, <3>2 DEF Receive, Handed, Opened, ringVars, TypeOK
      <4>. QED
        <5>1. Pipe(s) = Chain(got[s], records[s], hold[s], backlog[s], entries[s])
          BY PipeIsChain
        <5>2. Pipe(s)' = Chain(got'[s], records'[s], hold'[s], backlog'[s], entries'[s])
          BY PipeIsChain
        <5>3. Chain(got'[s], records'[s], hold[s], backlog[s], entries[s]) =
              Chain(got[s], records[s], hold[s], backlog[s], entries[s])
          BY <4>1, <4>3, JoinHanded DEF Chain
        <5>. QED
          BY <4>2, <5>1, <5>2, <5>3
    <3>4. /\ UNCHANGED <<opening, puts, pending, streams, closed>>
          /\ backlog'[s] # <<>> => hold'[s] = <<>>
      BY <2>11, <3>2 DEF Receive, Opened, ringVars, TypeOK
    <3>5. Opened(s)'
      BY <3>2, <3>3, <3>4, MovedStream
    <3>. QED
      BY <2>0, <3>1, <3>2, <3>4, <3>5 DEF Inv
  <2>12. ASSUME NEW s \in Streams, End(s)
         PROVE  PipeInv'
    <3>1. ASSUME NEW u \in Streams \ {s}
          PROVE  Inv(u)'
      <4>1. /\ UNCHANGED <<opening[u], entries[u], records[u], got[u], hold[u], backlog[u],
                          Newest(u)>>
            /\ puts' \in Nat /\ puts <= puts'
            /\ u \in streams' <=> u \in streams
            /\ u \in stopped' => u \in stopped
            /\ closed' = closed
        BY <2>12 DEF End, ringVars, feedVars, TypeOK, Newest
      <4>2. (Unopened(u) => Unopened(u)') /\ (Opened(u) => Opened(u)')
        BY <4>1, OtherStream
      <4>. QED
        BY <2>0, <4>1, <4>2 DEF Inv
    <3>2. Opened(s) /\ Pipe(s)' = Pipe(s) /\ opening'[s] \in {"open", "ended"}
      BY <2>0, <2>12 DEF End, Inv, Pipe, ringVars, feedVars, TypeOK
    <3>3. Opened(s)'
      BY <2>12, <3>2 DEF End, Opened, StepsBackOnce, Written, Reaches, Newest, ringVars, feedVars, TypeOK
    <3>. QED
      BY <2>0, <3>1, <3>2, <3>3 DEF Inv
  <2>13. ASSUME NEW s \in Streams, Stop(s)
         PROVE  PipeInv'
    <3>1. ASSUME NEW u \in Streams \ {s}
          PROVE  Inv(u)'
      <4>1. /\ UNCHANGED <<opening[u], entries[u], records[u], got[u], hold[u], backlog[u],
                          Newest(u)>>
            /\ puts' \in Nat /\ puts <= puts'
            /\ u \in streams' <=> u \in streams
            /\ u \in stopped' => u \in stopped
            /\ closed' = closed
        BY <2>13 DEF Stop, ringVars, feedVars, TypeOK, Newest
      <4>2. (Unopened(u) => Unopened(u)') /\ (Opened(u) => Opened(u)')
        BY <4>1, OtherStream
      <4>. QED
        BY <2>0, <4>1, <4>2 DEF Inv
    <3>2. Opened(s) /\ Pipe(s)' = Pipe(s) /\ opening'[s] \in {"open", "ended"}
      BY <2>0, <2>13 DEF Stop, Inv, Pipe, ringVars, feedVars, TypeOK
    <3>3. Opened(s)'
      BY <2>13, <3>2 DEF Stop, Opened, StepsBackOnce, Written, Reaches, Newest, ringVars, feedVars, TypeOK
    <3>. QED
      BY <2>0, <3>1, <3>2, <3>3 DEF Inv
  <2>. QED
    BY <2>1, <2>2, <2>3, <2>4, <2>5, <2>6, <2>7, <2>8, <2>9, <2>10, <2>11, <2>12, <2>13
       DEF Next, Put, Forwarder, Read, vars
<1>. QED
  BY <1>1, <1>2, TypeInvariant, RingInvariant, PTL DEF Spec

(* Whatever is put while a stream registers, reads its backlog, replays it  *)
(* and forwards: the client misses no record, up to the newest one.         *)
THEOREM StreamsMissNothing == Spec => []StreamGapFree
<1>1. ASSUME TypeOK, PipeInv PROVE StreamGapFree
  <2>. SUFFICES ASSUME NEW s \in Streams, opening[s] = "open"
                PROVE  /\ \A i \in 2..Len(Pipe(s)) : Pipe(s)[i] <= Pipe(s)[i - 1] + 1
                       /\ s \in streams => IF Pipe(s) = <<>> THEN Last = 0 \/ Newest(s) = 0
                                                 ELSE Pipe(s)[Len(Pipe(s))] = Newest(s)
    BY DEF StreamGapFree
  <2>1. Opened(s)
    BY <1>1 DEF PipeInv
  <2>2. Pipe(s) \in Seq(Nat)
    BY <1>1, PipeType DEF Queues
  <2>3. ASSUME NEW i \in 2..Len(Pipe(s))
        PROVE  Pipe(s)[i] <= Pipe(s)[i - 1] + 1
    <3>1. i \in 1..Len(Pipe(s)) /\ i - 1 \in 1..Len(Pipe(s))
      BY <2>2
    <3>2. Pipe(s)[i] \in Nat /\ Pipe(s)[i - 1] \in Nat
      BY <2>2, <3>1
    <3>3. Pipe(s)[i] = Pipe(s)[i - 1] + 1 \/ Pipe(s)[i] <= Pipe(s)[i - 1]
      BY <2>1 DEF Opened, StepsBackOnce
    <3>. QED
      BY <3>2, <3>3
  <2>. QED
    BY <2>1, <2>3 DEF Opened, Reaches
<1>. QED
  BY <1>1, TypeInvariant, PipeInvariant, PTL

-----------------------------------------------------------------------------
(* What the client has received is the front of the pipe, and the head of   *)
(* the records channel is what comes next in it.                            *)
Starts(p, q) == Len(q) <= Len(p) /\ \A i \in 1..Len(q) : p[i] = q[i]

(* Stages joined start with the first of them.                              *)
LEMMA JoinStarts == \A q, p \in Queues : Starts(Join(q, p), q)
  BY DEF Queues, Join, Starts

(* A start of a start is a start.                                           *)
LEMMA StartsTwice ==
  \A q, p, t \in Queues : Starts(q, p) /\ Starts(p, t) => Starts(q, t)
  BY DEF Queues, Starts

(* The pipe starts with what the client has and the records channel.        *)
LEMMA ChainStarts == \A g, r, h, b, e \in Queues : Starts(Chain(g, r, h, b, e), Join(g, r))
<1>. TAKE g, r, h, b, e \in Queues
<1>. DEFINE f == Join(g, r)
            k == Join(f, h)
            l == Join(k, b)
            m == Join(l, e)
<1>1. f \in Queues /\ k \in Queues /\ l \in Queues /\ m \in Queues
  BY JoinType
<1>2. Starts(k, f) /\ Starts(l, k) /\ Starts(m, l)
  BY <1>1, JoinStarts
<1>3. Chain(g, r, h, b, e) = m
  BY DEF Chain
<1>. HIDE DEF f, k, l, m
<1>4. Starts(m, f)
  BY <1>1, <1>2, StartsTwice
<1>. QED
  BY <1>3, <1>4 DEF f

(* After the first stage comes the head of the second.                      *)
LEMMA JoinNext ==
  \A q, p \in Queues : p # <<>> => Len(q) + 1 <= Len(Join(q, p)) /\ Join(q, p)[Len(q) + 1] = Head(p)
<1>. TAKE q, p \in Queues
<1>. HAVE p # <<>>
<1>1. /\ q \in Seq(Nat) /\ p \in Seq(Nat) /\ Len(q) \in Nat /\ Len(p) \in Nat /\ Len(p) > 0
      /\ Head(p) = p[1]
  BY DEF Queues
<1>2. Len(q \o p) = Len(q) + Len(p) /\ (q \o p)[Len(q) + 1] = p[1]
  BY <1>1
<1>. QED
  BY <1>1, <1>2 DEF Join

(* A pipe starts with what the client has; the next it receives follows.    *)
LEMMA PipeFront ==
  ASSUME NEW s \in Streams, TypeOK, records[s] # <<>>
  PROVE  LET q == got[s]
             p == Pipe(s)
         IN  /\ Len(q) + 1 <= Len(p)
             /\ \A i \in 1..Len(q) : p[i] = q[i]
             /\ p[Len(q) + 1] = Head(records[s])
<1>1. /\ got[s] \in Queues /\ records[s] \in Queues /\ hold[s] \in Queues
      /\ backlog[s] \in Queues /\ entries[s] \in Queues
  BY DEF TypeOK, Queues
<1>2. Starts(Pipe(s), Join(got[s], records[s]))
  BY <1>1, ChainStarts, PipeIsChain
<1>. DEFINE f == Join(got[s], records[s])
<1>3. /\ Len(f) \in Nat /\ Len(got[s]) \in Nat /\ Len(Pipe(s)) \in Nat
  <2>1. f \in Queues /\ Pipe(s) \in Queues
    BY <1>1, JoinType, PipeType
  <2>. QED
    BY <1>1, <2>1 DEF Queues
<1>4. Len(f) <= Len(Pipe(s)) /\ \A i \in 1..Len(f) : Pipe(s)[i] = f[i]
  BY <1>2 DEF Starts
<1>5. Len(got[s]) + 1 <= Len(f) /\ f[Len(got[s]) + 1] = Head(records[s])
  BY <1>1, JoinNext
<1>6. \A i \in 1..Len(got[s]) : f[i] = got[s][i]
  BY <1>1, JoinStarts DEF Starts
<1>. HIDE DEF f
<1>7. Len(got[s]) + 1 \in 1..Len(f) /\ \A i \in 1..Len(got[s]) : i \in 1..Len(f)
  BY <1>3, <1>5
<1>. QED
  BY <1>3, <1>4, <1>5, <1>6, <1>7

(* The log implements the feed it promises its subscribers: a client        *)
(* receives a record LogFeed allows, and only PutStart writes one.          *)
THEOREM ImplementsLogFeed == Spec => FeedSpec
<1>1. Init => Feed!Init
  BY DEF Init, Feed!Init
<1>2. TypeOK /\ PipeInv /\ [Next]_vars => [Feed!Next]_(Feed!feedVars)
  <2>. SUFFICES ASSUME TypeOK, PipeInv, [Next]_vars PROVE [Feed!Next]_(Feed!feedVars)
    OBVIOUS
  <2>1. ASSUME NEW w \in Writers, PutStart(w)
        PROVE  Feed!Next
    BY <2>1 DEF PutStart, feedVars, Feed!Next, Feed!Write
  <2>2. ASSUME NEW s \in Streams, Receive(s)
        PROVE  Feed!Next
    <3>. DEFINE q == got[s]
                n == Head(records[s])
                p == Pipe(s)
    <3>1. records[s] # <<>> /\ got' = [got EXCEPT ![s] = Append(@, n)] /\ puts' = puts
      BY <2>2 DEF Receive, ringVars
    <3>2. Opened(s)
      BY <3>1 DEF PipeInv, Unopened, TypeOK
    <3>3. q \in Seq(Nat) /\ Len(q) \in Nat /\ p \in Seq(Nat)
      <4>1. p \in Queues
        BY PipeType
      <4>. QED
        BY <4>1 DEF Queues, TypeOK
    <3>4. /\ Len(q) + 1 <= Len(p) /\ \A i \in 1..Len(q) : p[i] = q[i]
          /\ p[Len(q) + 1] = n
      BY <3>1, PipeFront
    <3>5. Written(p) /\ StepsBackOnce(p)
      BY <3>2 DEF Opened
    <3>. HIDE DEF q, n, p
    <3>6. n \in 1..puts
      BY <3>3, <3>4, <3>5 DEF Written
    <3>7. Feed!Continues(q, n)
      <4>. SUFFICES ASSUME q # <<>>, n # q[Len(q)] + 1
                    PROVE  Len(q) <= Last /\ Feed!Ascends(q) /\ n <= q[Len(q)]
        BY DEF Feed!Continues
      <4>. DEFINE i == Len(q) + 1
      <4>1. i \in 2..Len(p) /\ i - 1 = Len(q) /\ Len(q) \in 1..Len(q)
        BY <3>3, <3>4
      <4>2. p[i] = n /\ p[i - 1] = q[Len(q)]
        BY <3>4, <4>1
      <4>3. /\ i <= Last + 1 /\ p[i] <= p[i - 1]
            /\ \A j \in 2..(i - 1) : p[j] = p[j - 1] + 1
        BY <3>5, <4>1, <4>2 DEF StepsBackOnce
      <4>4. Len(q) <= Last
        BY <3>3, <4>3, RingAssumption DEF RingAssumption
      <4>5. ASSUME NEW j \in 2..Len(q)
            PROVE  q[j] = q[j - 1] + 1
        <5>1. j \in 1..Len(q) /\ j - 1 \in 1..Len(q) /\ j \in 2..(i - 1)
          BY <3>3
        <5>. QED
          BY <3>4, <4>3, <5>1
      <4>. QED
        BY <4>2, <4>3, <4>4, <4>5 DEF Feed!Ascends
    <3>8. Feed!Receive(s, n)
      BY <3>1, <3>6, <3>7 DEF Feed!Receive, q
    <3>. QED
      BY <3>6, <3>8 DEF Feed!Next
  <2>3. ASSUME UNCHANGED <<puts, got>>
        PROVE  UNCHANGED Feed!feedVars
    BY <2>3 DEF Feed!feedVars
  <2>4. ASSUME NEW s \in Streams,
               PutSend(s) \/ PutDrop(s) \/ Register(s) \/ Open(s) \/ Forwarder(s) \/ Stop(s)
        PROVE  UNCHANGED <<puts, got>>
    BY <2>4 DEF PutSend, PutDrop, Register, Open, Forwarder, Replay, Take, Pass, End, Stop,
                ringVars, feedVars
  <2>5. ASSUME PutEnd \/ UNCHANGED vars \/ \E t \in Sinces, n \in Counts : Read(t, n)
        PROVE  UNCHANGED <<puts, got>>
    BY <2>5 DEF PutEnd, Read, vars, ringVars, feedVars
  <2>. QED
    BY <2>1, <2>2, <2>3, <2>4, <2>5 DEF Next, Put
<1>. QED
  BY <1>1, <1>2, TypeInvariant, PipeInvariant, PTL DEF Spec, FeedSpec, Feed!Spec

(* Whom a Put waits for: a registered stream whose channel is open and that *)
(* has, or is about to get, its forwarding goroutine; never one whose       *)
(* goroutine has returned (buffer.go Put, memory.go Stream).  That a stream *)
(* about to get it may never get it is what StreamReturns is violated by.   *)
PutWaitsForForwarders ==
    \A s \in pending : s \in streams \ closed /\ opening[s] \in {"registered", "open"}

(* No Put waits for a stream whose forwarding goroutine has returned.       *)
THEOREM PutWaitsForNoneThatEnded == Spec => []PutWaitsForForwarders
<1>1. TypeOK /\ RingInv /\ PipeInv => PutWaitsForForwarders
  BY DEF TypeOK, RingInv, PipeInv, Opened, PutWaitsForForwarders
<1>. QED
  BY <1>1, TypeInvariant, RingInvariant, PipeInvariant, PTL

=============================================================================
