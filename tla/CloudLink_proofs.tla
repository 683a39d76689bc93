--------------------------- MODULE CloudLink_proofs ---------------------------
(***************************************************************************)
(* The cloud connection for every number of heap blocks, queue length, number*)
(* of topics, packet identifiers and packets under way: who owns a report,    *)
(* what s_connected promises, and that the LED follows the platform.          *)
(***************************************************************************)
EXTENDS CloudLink, SequenceTheorems, TLAPS

-----------------------------------------------------------------------------
(* Reports. Every step of the system does one of these things to them.        *)

ReportStep ==
  \/ \E kind \in Kinds : SensorAllocates(kind)
  \/ SensorPosts \/ PostEvent \/ Receives \/ Frees
  \/ \E b \in Blocks : OtherUse(b)
  \/ UNCHANGED reports

LEMMA NextIsReportStep == ASSUME [Next]_vars PROVE ReportStep
<1>1. CASE UNCHANGED vars
  BY <1>1 DEF vars, ReportStep
<1>2. CASE Connects \/ Reads \/ Pings \/ Ends \/ Environment \/ Fault
  BY <1>2 DEF Connects, Reads, Pings, Ends, Environment, Fault, ReportStep
<1>3. CASE SensorQueues \/ SendReceives \/ SendDrops \/ SendPublishes
  BY <1>3 DEF SensorQueues, SendReceives, SendDrops, SendPublishes, ReportStep
<1>4. CASE \/ \E kind \in Kinds : SensorReports(kind)
           \/ \E b \in Blocks : HeapUse(b)
  BY <1>4 DEF SensorReports, HeapUse, ReportStep
<1> QED BY <1>1, <1>2, <1>3, <1>4 DEF Next

ReportInv == ReportTypeOK /\ BlocksAccounted

\* A block that was in nobody's hand is put at the end of the queue.
LEMMA QueueTakes ==
  ASSUME queue \in Seq(Blocks), NEW b \in Blocks, queue' = Append(queue, b)
  PROVE  /\ queue' \in Seq(Blocks) /\ Len(queue') = Len(queue) + 1
         /\ Queued' = Queued \cup {b}
         /\ (b \notin Queued /\ \A i, j \in DOMAIN queue : queue[i] = queue[j] => i = j)
              => \A i, j \in DOMAIN queue' : queue'[i] = queue'[j] => i = j
<1> DEFINE n == Len(queue)
<1>1. n \in Nat /\ DOMAIN queue = 1 .. n
  OBVIOUS
<1>2. queue' \in Seq(Blocks) /\ Len(queue') = n + 1 /\ DOMAIN queue' = 1 .. n + 1
  OBVIOUS
<1>3. queue'[n + 1] = b /\ \A i \in 1 .. n : queue'[i] = queue[i]
  BY <1>1
<1>4. Queued' = Queued \cup {b}
  BY <1>1, <1>2, <1>3 DEF Queued
<1>5. ASSUME b \notin Queued, \A i, j \in DOMAIN queue : queue[i] = queue[j] => i = j
      PROVE  \A i, j \in DOMAIN queue' : queue'[i] = queue'[j] => i = j
  <2>1. \A i \in 1 .. n : queue[i] # b
    BY <1>1, <1>5 DEF Queued
  <2> QED BY <1>1, <1>2, <1>3, <1>5, <2>1
<1> QED BY <1>2, <1>4, <1>5

\* The first block is taken out of the queue.
LEMMA QueueGives ==
  ASSUME queue \in Seq(Blocks), queue # <<>>, queue' = Tail(queue),
         \A i, j \in DOMAIN queue : queue[i] = queue[j] => i = j
  PROVE  /\ queue' \in Seq(Blocks) /\ Len(queue') = Len(queue) - 1
         /\ Head(queue) \in Queued /\ Queued' = Queued \ {Head(queue)}
         /\ \A i, j \in DOMAIN queue' : queue'[i] = queue'[j] => i = j
<1> DEFINE n == Len(queue)
<1>1. n \in Nat \ {0} /\ DOMAIN queue = 1 .. n /\ Head(queue) = queue[1]
  OBVIOUS
<1>2. /\ queue' \in Seq(Blocks) /\ Len(queue') = n - 1 /\ DOMAIN queue' = 1 .. n - 1
      /\ \A i \in 1 .. n - 1 : queue'[i] = queue[i + 1]
  BY <1>1
<1>3. \A i, j \in DOMAIN queue' : queue'[i] = queue'[j] => i = j
  BY <1>1, <1>2
<1>4. Queued' = Queued \ {Head(queue)}
  <2>1. Queued' \subseteq Queued \ {Head(queue)}
    BY <1>1, <1>2 DEF Queued
  <2>2. ASSUME NEW x \in Queued, x # Head(queue) PROVE x \in Queued'
    <3>1. PICK i \in 1 .. n : x = queue[i]
      BY <1>1 DEF Queued
    <3>2. i - 1 \in 1 .. n - 1 /\ queue'[i - 1] = x
      BY <1>1, <1>2, <2>2, <3>1
    <3> QED BY <1>2, <3>2 DEF Queued
  <2> QED BY <2>1, <2>2
<1>5. Head(queue) \in Queued
  BY <1>1 DEF Queued
<1> QED BY <1>1, <1>2, <1>3, <1>4, <1>5

LEMMA ReportInductive == ASSUME ReportInv, ReportStep PROVE ReportInv'
<1> USE ReportAssumption DEF ReportInv, ReportTypeOK, BlocksAccounted
<1>0. /\ NoBlock \notin Blocks /\ QueueLen \in Nat \ {0} /\ Queued \subseteq Blocks
      /\ Len(queue) \in Nat
  BY DEF Queued
<1>1. ASSUME NEW kind \in Kinds, SensorAllocates(kind) PROVE ReportInv'
  <2>1. PICK b \in Blocks \ heap : heap' = heap \cup {b} /\ sensor' = b /\ Filled(b, kind)
    BY <1>1 DEF SensorAllocates
  <2>2. queue' = queue /\ sender' = sender /\ Queued' = Queued /\ sensor = NoBlock
    BY <1>1 DEF SensorAllocates, Queued
  <2>3. what' \in [Blocks -> Kinds] /\ type' \in [Blocks -> Kinds]
    BY <2>1 DEF Filled, Kinds
  <2> QED BY <1>0, <2>1, <2>2, <2>3
<1>2. CASE SensorPosts
  <2> sensor \in Blocks /\ sensor \notin Queued /\ sensor' = NoBlock /\ sender' = sender
      /\ what' = what /\ type' = type
    BY <1>2 DEF SensorPosts
  <2>1. CASE Len(queue) < QueueLen /\ queue' = Append(queue, sensor) /\ heap' = heap
    BY <1>0, <2>1, QueueTakes
  <2>2. CASE queue' = queue /\ heap' = heap \ {sensor}
    <3> Queued' = Queued
      BY <2>2 DEF Queued
    <3> QED BY <1>0, <2>2
  <2> QED BY <1>2, <2>1, <2>2 DEF SensorPosts
<1>3. CASE PostEvent
  <2> sensor' = sensor /\ sender' = sender
    BY <1>3 DEF PostEvent
  <2>1. ASSUME NEW b \in Blocks \ heap, Filled(b, "event"), EventQueued(b) PROVE ReportInv'
    <3>1. what' \in [Blocks -> Kinds] /\ type' \in [Blocks -> Kinds]
      BY <2>1 DEF Filled, Kinds
    <3>2. b \in Blocks /\ b \notin Queued /\ b # sensor /\ b # sender
      BY <2>1
    <3>3. heap' = heap \cup {b} /\ queue' = Append(queue, b) /\ Len(queue) < QueueLen
      BY <2>1 DEF EventQueued
    <3>4. /\ queue' \in Seq(Blocks) /\ Len(queue') = Len(queue) + 1
          /\ Queued' = Queued \cup {b}
          /\ \A i, j \in DOMAIN queue' : queue'[i] = queue'[j] => i = j
      BY <3>2, <3>3, QueueTakes
    <3> QED BY <1>0, <3>1, <3>2, <3>3, <3>4
  <2>2. ASSUME NEW b \in Blocks \ heap, Filled(b, "event"), EventDropped PROVE ReportInv'
    <3>1. what' \in [Blocks -> Kinds] /\ type' \in [Blocks -> Kinds]
      BY <2>2 DEF Filled, Kinds
    <3>2. heap' = heap /\ queue' = queue /\ Queued' = Queued
      BY <2>2 DEF EventDropped, Queued
    <3> QED BY <3>1, <3>2
  <2>3. CASE UNCHANGED <<heap, queue, what, type>>
    BY <2>3 DEF Queued
  <2> QED BY <1>3, <2>1, <2>2, <2>3 DEF PostEvent
<1>4. CASE Receives
  <2> sender = NoBlock /\ queue # <<>> /\ sender' = Head(queue) /\ queue' = Tail(queue)
      /\ UNCHANGED <<heap, sensor, what, type>>
    BY <1>4 DEF Receives
  <2>1. /\ queue' \in Seq(Blocks) /\ Len(queue') = Len(queue) - 1
        /\ Head(queue) \in Queued /\ Queued' = Queued \ {Head(queue)}
        /\ \A i, j \in DOMAIN queue' : queue'[i] = queue'[j] => i = j
    BY QueueGives
  <2> QED BY <1>0, <2>1
<1>5. CASE Frees
  <2> sender \in Blocks /\ heap' = heap \ {sender} /\ sender' = NoBlock /\ Queued' = Queued
      /\ UNCHANGED <<queue, sensor, what, type>>
    BY <1>5 DEF Frees, Queued
  <2> QED BY <1>0
<1>6. ASSUME NEW b \in Blocks, OtherUse(b) PROVE ReportInv'
  <2> UNCHANGED <<heap, queue, sensor, sender, what>> /\ Queued' = Queued
    BY <1>6 DEF OtherUse, Queued
  <2> type' \in [Blocks -> Kinds]
    BY <1>6 DEF OtherUse, Kinds
  <2> QED OBVIOUS
<1>7. CASE UNCHANGED reports
  BY <1>7 DEF reports, Queued
<1> QED BY <1>1, <1>2, <1>3, <1>4, <1>5, <1>6, <1>7 DEF ReportStep

LEMMA ReportStart == Init => ReportInv
BY ReportAssumption DEF Init, ReportInit, ReportInv, ReportTypeOK, BlocksAccounted, Queued, Kinds

\* No report is lost from the heap, freed twice or owned twice: BlocksAccounted
\* for every heap and every length of the queue.
THEOREM BlocksStayAccounted == Spec => []BlocksAccounted
<1>1. ReportInv /\ [Next]_vars => ReportInv'
  BY NextIsReportStep, ReportInductive
<1>2. ReportInv => BlocksAccounted
  BY DEF ReportInv
<1> QED BY ReportStart, <1>1, <1>2, PTL DEF Spec

-----------------------------------------------------------------------------
(* The reports on their way to the platform keep their place and their text.  *)

\* What is written in the blocks of a line l.
Texts(l, w, t) == [i \in DOMAIN l |-> <<w[l[i]], t[l[i]]>>]

LEMMA TextsType ==
  ASSUME NEW l \in Seq(Blocks), NEW w \in [Blocks -> Kinds], NEW t \in [Blocks -> Kinds]
  PROVE  /\ Texts(l, w, t) \in Seq(Kinds \X Kinds) /\ Len(Texts(l, w, t)) = Len(l)
         /\ \A i \in 1 .. Len(l) : Texts(l, w, t)[i] = <<w[l[i]], t[l[i]]>>
<1> DEFINE K == Kinds \X Kinds
           text(b) == <<w[b], t[b]>>
           f == Texts(l, w, t)
<1>1. DOMAIN l = 1 .. Len(l) /\ Len(l) \in Nat /\ \A i \in 1 .. Len(l) : l[i] \in Blocks
  BY ElementOfSeq
<1>2. \A b \in Blocks : text(b) \in K
  OBVIOUS
<1>3. f = [i \in 1 .. Len(l) |-> text(l[i])]
  BY <1>1 DEF Texts
<1> HIDE DEF K, text, f
<1>4. f \in [1 .. Len(l) -> K] /\ \A i \in 1 .. Len(l) : f[i] = text(l[i])
  BY <1>1, <1>2, <1>3
<1>5. f \in Seq(K) /\ Len(f) = Len(l)
  BY <1>1, <1>4
<1> QED BY <1>4, <1>5 DEF f, K, text

\* A block at the end adds a text, and the texts of the others stay.
LEMMA TextsGrow ==
  ASSUME NEW l \in Seq(Blocks), NEW b \in Blocks,
         NEW w \in [Blocks -> Kinds], NEW t \in [Blocks -> Kinds],
         NEW v \in [Blocks -> Kinds], NEW u \in [Blocks -> Kinds],
         \A i \in 1 .. Len(l) : v[l[i]] = w[l[i]] /\ u[l[i]] = t[l[i]]
  PROVE  Texts(Append(l, b), v, u) = Append(Texts(l, w, t), <<v[b], u[b]>>)
<1> DEFINE K == Kinds \X Kinds
           old == Texts(l, w, t)
           new == Texts(Append(l, b), v, u)
           r == <<v[b], u[b]>>
<1>1. /\ Append(l, b) \in Seq(Blocks) /\ Len(Append(l, b)) = Len(l) + 1 /\ Len(l) \in Nat
      /\ Append(l, b)[Len(l) + 1] = b /\ \A i \in 1 .. Len(l) : Append(l, b)[i] = l[i]
  BY AppendProperties
<1>2. old \in Seq(K) /\ Len(old) = Len(l) /\ \A i \in 1 .. Len(l) : old[i] = <<w[l[i]], t[l[i]]>>
  BY TextsType
<1>3. /\ new \in Seq(K) /\ Len(new) = Len(l) + 1
      /\ \A i \in 1 .. Len(l) + 1 : new[i] = <<v[Append(l, b)[i]], u[Append(l, b)[i]]>>
  <2>1. /\ new \in Seq(K) /\ Len(new) = Len(Append(l, b))
        /\ \A i \in 1 .. Len(Append(l, b)) :
              new[i] = <<v[Append(l, b)[i]], u[Append(l, b)[i]]>>
    BY <1>1, TextsType, Zenon
  <2> QED BY <1>1, <2>1, Zenon
<1>4. r \in K
  OBVIOUS
<1>5. new[Len(l) + 1] = r
  BY <1>1, <1>3
<1>6. ASSUME NEW i \in 1 .. Len(l) PROVE new[i] = old[i]
  <2>1. i \in 1 .. Len(l) + 1
    BY <1>1
  <2>2. new[i] = <<v[Append(l, b)[i]], u[Append(l, b)[i]]>>
    BY <1>3, <2>1, Zenon
  <2>3. Append(l, b)[i] = l[i]
    BY <1>1, Zenon
  <2>4. v[l[i]] = w[l[i]] /\ u[l[i]] = t[l[i]]
    OBVIOUS
  <2>5. old[i] = <<w[l[i]], t[l[i]]>>
    BY <1>2, Zenon
  <2> HIDE DEF new, old
  <2> QED BY <2>2, <2>3, <2>4, <2>5, Zenon
<1> HIDE DEF old, new, r, K
<1>7. /\ Append(old, r) \in Seq(K) /\ Len(Append(old, r)) = Len(l) + 1
      /\ Append(old, r)[Len(l) + 1] = r
      /\ \A i \in 1 .. Len(l) : Append(old, r)[i] = old[i]
  BY <1>2, <1>4, AppendProperties
<1>8. \A i \in 1 .. Len(l) + 1 : new[i] = Append(old, r)[i]
  BY <1>1, <1>5, <1>6, <1>7
<1>9. new = Append(old, r)
  BY <1>3, <1>7, <1>8, SeqEqual
<1> QED BY <1>9 DEF new, old, r

\* Without its first block the line is without its first text.
LEMMA TextsShrink ==
  ASSUME NEW b \in Blocks, NEW q \in Seq(Blocks),
         NEW w \in [Blocks -> Kinds], NEW t \in [Blocks -> Kinds]
  PROVE  /\ Texts(<<b>> \o q, w, t) # <<>>
         /\ Texts(q, w, t) = Tail(Texts(<<b>> \o q, w, t))
<1> DEFINE K == Kinds \X Kinds
           old == Texts(<<b>> \o q, w, t)
           new == Texts(q, w, t)
<1>1. /\ <<b>> \o q \in Seq(Blocks) /\ Len(<<b>> \o q) = Len(q) + 1 /\ Len(q) \in Nat
      /\ \A i \in 1 .. Len(q) : (<<b>> \o q)[i + 1] = q[i]
  OBVIOUS
<1>2. /\ old \in Seq(K) /\ Len(old) = Len(q) + 1
      /\ \A i \in 1 .. Len(q) + 1 : old[i] = <<w[(<<b>> \o q)[i]], t[(<<b>> \o q)[i]]>>
  BY <1>1, TextsType
<1>3. new \in Seq(K) /\ Len(new) = Len(q) /\ \A i \in 1 .. Len(q) : new[i] = <<w[q[i]], t[q[i]]>>
  BY TextsType
<1> HIDE DEF old, new, K
<1>4. old # <<>>
  BY <1>1, <1>2
<1>5. /\ Tail(old) \in Seq(K) /\ Len(Tail(old)) = Len(q)
      /\ \A i \in 1 .. Len(q) : Tail(old)[i] = old[i + 1]
  BY <1>1, <1>2, <1>4, HeadTailProperties
<1>6. ASSUME NEW i \in 1 .. Len(q) PROVE new[i] = Tail(old)[i]
  <2>1. i + 1 \in 1 .. Len(q) + 1 /\ (<<b>> \o q)[i + 1] = q[i]
    BY <1>1
  <2>2. old[i + 1] = <<w[(<<b>> \o q)[i + 1]], t[(<<b>> \o q)[i + 1]]>>
    BY <1>2, <2>1, Zenon
  <2>3. new[i] = <<w[q[i]], t[q[i]]>>
    BY <1>3, Zenon
  <2>4. Tail(old)[i] = old[i + 1]
    BY <1>5, Zenon
  <2> QED BY <2>1, <2>2, <2>3, <2>4, Zenon
<1>7. new = Tail(old)
  BY <1>3, <1>5, <1>6, SeqEqual
<1> QED BY <1>4, <1>7 DEF old, new

LEMMA LineType ==
  ASSUME ReportInv
  PROVE  Line \in Seq(Blocks) /\ \A i \in 1 .. Len(Line) : Line[i] \in heap
<1>0. queue \in Seq(Blocks) /\ \A i \in 1 .. Len(queue) : queue[i] \in heap
  BY DEF ReportInv, ReportTypeOK, BlocksAccounted, Queued
<1>1. CASE sender = NoBlock
  BY <1>0, <1>1 DEF Line
<1>2. CASE sender # NoBlock
  <2>1. sender \in Blocks /\ sender \in heap
    BY <1>2 DEF ReportInv, ReportTypeOK, BlocksAccounted
  <2> QED BY <1>0, <1>2, <2>1 DEF Line
<1> QED BY <1>1, <1>2

\* The line as it was, with what was written to blocks that nobody had.
LEMMA LineStays ==
  ASSUME ReportInv, ReportInv', Line' = Line,
         \A b \in heap : what'[b] = what[b] /\ type'[b] = type[b]
  PROVE  Written' = Written
<1>1. DOMAIN Line = 1 .. Len(Line)
  BY LineType
<1> QED BY <1>1, LineType DEF Written

\* A block that is handed over goes to the end of the line.
LEMMA LineGrows ==
  ASSUME ReportInv, ReportInv', NEW b \in Blocks, queue' = Append(queue, b), sender' = sender,
         \A c \in heap : what'[c] = what[c] /\ type'[c] = type[c]
  PROVE  \E r \in Kinds \X Kinds : Written' = Append(Written, r)
<1>0. /\ queue \in Seq(Blocks) /\ sender \in Blocks \cup {NoBlock}
      /\ what \in [Blocks -> Kinds] /\ type \in [Blocks -> Kinds]
      /\ what' \in [Blocks -> Kinds] /\ type' \in [Blocks -> Kinds]
  BY DEF ReportInv, ReportTypeOK
<1>1. Line' = Append(Line, b)
  <2>1. CASE sender = NoBlock
    BY <2>1 DEF Line
  <2>2. CASE sender \in Blocks
    <3>1. <<sender>> \o Append(queue, b) = Append(<<sender>> \o queue, b)
      BY <1>0, <2>2
    <3> QED BY <2>2, <3>1, ReportAssumption DEF Line
  <2> QED BY <1>0, <2>1, <2>2
<1>2. Texts(Append(Line, b), what', type') = Append(Texts(Line, what, type), <<what'[b], type'[b]>>)
  <2>1. Line \in Seq(Blocks)
        /\ \A i \in 1 .. Len(Line) : what'[Line[i]] = what[Line[i]] /\ type'[Line[i]] = type[Line[i]]
    BY LineType
  <2>2. /\ what \in [Blocks -> Kinds] /\ type \in [Blocks -> Kinds]
        /\ what' \in [Blocks -> Kinds] /\ type' \in [Blocks -> Kinds]
    BY <1>0
  <2>3. \A l \in Seq(Blocks) : \A w, t, v, u \in [Blocks -> Kinds] :
          (\A i \in 1 .. Len(l) : v[l[i]] = w[l[i]] /\ u[l[i]] = t[l[i]])
            => Texts(Append(l, b), v, u) = Append(Texts(l, w, t), <<v[b], u[b]>>)
    BY TextsGrow, Zenon
  <2> QED BY <2>1, <2>2, <2>3, Zenon
<1>3. Written' = Append(Written, <<what'[b], type'[b]>>)
  BY <1>1, <1>2 DEF Written, Texts
<1> QED BY <1>0, <1>3

LEMMA ReportStepKeepsPlace ==
  ASSUME ReportInv, ReportInv', ReportStep
  PROVE  \/ Written' = Written
         \/ \E r \in Kinds \X Kinds : Written' = Append(Written, r)
         \/ Written # <<>> /\ Written' = Tail(Written)
<1>0. /\ queue \in Seq(Blocks) /\ sender \in Blocks \cup {NoBlock} /\ heap \subseteq Blocks
      /\ what \in [Blocks -> Kinds] /\ type \in [Blocks -> Kinds]
  BY DEF ReportInv, ReportTypeOK
<1>f. ASSUME NEW b \in Blocks \ heap, NEW kind, Filled(b, kind)
      PROVE  \A c \in heap : what'[c] = what[c] /\ type'[c] = type[c]
  BY <1>0, <1>f DEF Filled
<1>1. ASSUME NEW kind \in Kinds, SensorAllocates(kind) PROVE Written' = Written
  <2>1. Line' = Line
    BY <1>1 DEF SensorAllocates, Line
  <2>2. \A c \in heap : what'[c] = what[c] /\ type'[c] = type[c]
    BY <1>f, <1>1 DEF SensorAllocates
  <2> QED BY <2>1, <2>2, LineStays
<1>2. ASSUME SensorPosts
      PROVE  Written' = Written \/ \E r \in Kinds \X Kinds : Written' = Append(Written, r)
  <2>1. sensor \in Blocks /\ sender' = sender /\ what' = what /\ type' = type
    BY <1>2 DEF SensorPosts, ReportInv, ReportTypeOK
  <2>2. CASE queue' = Append(queue, sensor)
    BY <2>1, <2>2, LineGrows
  <2>3. CASE queue' = queue
    <3>1. Line' = Line
      BY <2>1, <2>3 DEF Line
    <3> QED BY <2>1, <3>1, LineStays
  <2> QED BY <1>2, <2>2, <2>3 DEF SensorPosts
<1>3. ASSUME PostEvent
      PROVE  Written' = Written \/ \E r \in Kinds \X Kinds : Written' = Append(Written, r)
  <2>1. sender' = sender
    BY <1>3 DEF PostEvent
  <2>2. ASSUME NEW b \in Blocks \ heap, Filled(b, "event"), EventQueued(b)
        PROVE  \E r \in Kinds \X Kinds : Written' = Append(Written, r)
    <3>1. \A c \in heap : what'[c] = what[c] /\ type'[c] = type[c]
      BY <1>f, <2>2
    <3>2. queue' = Append(queue, b)
      BY <2>2 DEF EventQueued
    <3> QED BY <2>1, <3>1, <3>2, LineGrows
  <2>3. ASSUME NEW b \in Blocks \ heap, Filled(b, "event"), EventDropped
        PROVE  Written' = Written
    <3>1. \A c \in heap : what'[c] = what[c] /\ type'[c] = type[c]
      BY <1>f, <2>3
    <3>2. Line' = Line
      BY <2>1, <2>3 DEF EventDropped, Line
    <3> QED BY <3>1, <3>2, LineStays
  <2>4. CASE UNCHANGED <<heap, queue, what, type>>
    <3>1. Line' = Line
      BY <2>1, <2>4 DEF Line
    <3> QED BY <2>4, <3>1, LineStays
  <2> QED BY <1>3, <2>2, <2>3, <2>4 DEF PostEvent
<1>4. ASSUME Receives PROVE Written' = Written
  <2>1. /\ sender = NoBlock /\ queue # <<>> /\ sender' = Head(queue) /\ queue' = Tail(queue)
        /\ what' = what /\ type' = type
    BY <1>4 DEF Receives
  <2>2. Head(queue) \in Blocks /\ queue = <<Head(queue)>> \o Tail(queue)
    BY <1>0, <2>1
  <2>3. Line' = Line
    BY <2>1, <2>2, ReportAssumption DEF Line
  <2> QED BY <2>1, <2>3, LineStays
<1>5. ASSUME Frees PROVE Written # <<>> /\ Written' = Tail(Written)
  <2>1. sender # NoBlock /\ sender' = NoBlock /\ UNCHANGED <<queue, what, type>>
    BY <1>5 DEF Frees
  <2>2. Line = <<sender>> \o queue /\ Line' = queue
    BY <2>1 DEF Line
  <2>3. Written = Texts(<<sender>> \o queue, what, type) /\ Written' = Texts(queue, what, type)
    BY <2>1, <2>2 DEF Written, Texts
  <2> QED BY <1>0, <2>1, <2>3, TextsShrink
<1>6. ASSUME NEW b \in Blocks, OtherUse(b) PROVE Written' = Written
  <2>1. Line' = Line
    BY <1>6 DEF OtherUse, Line
  <2>2. \A c \in heap : what'[c] = what[c] /\ type'[c] = type[c]
    BY <1>0, <1>6 DEF OtherUse
  <2> QED BY <2>1, <2>2, LineStays
<1>7. ASSUME UNCHANGED reports PROVE Written' = Written
  BY <1>7 DEF reports, Written, Line
<1> QED BY <1>1, <1>2, <1>3, <1>4, <1>5, <1>6, <1>7 DEF ReportStep

\* A report keeps its place and its text until it is sent: ReportsKeepPlace for every
\* heap and every length of the queue.
THEOREM ReportsStayInPlace == Spec => ReportsKeepPlace
<1>1. ReportInv /\ [Next]_vars => ReportInv'
  BY NextIsReportStep, ReportInductive
<1>2. ReportInv /\ ReportInv' /\ [Next]_vars =>
        [\/ Written' = Written
         \/ \E r \in Kinds \X Kinds : Written' = Append(Written, r)
         \/ Written # <<>> /\ Written' = Tail(Written)]_reports
  BY NextIsReportStep, ReportStepKeepsPlace
<1> QED BY ReportStart, <1>1, <1>2, PTL DEF Spec, ReportsKeepPlace

-----------------------------------------------------------------------------
(* The MQTT thread. A step of the connection is one of these.                 *)

ThreadStep ==
  \/ Open \/ LoggedIn \/ Subscribed \/ Online \/ ConnectFails
  \/ Handles \/ CannotAck \/ Ping \/ Pong \/ PingFails \/ ReadFails \/ GoOffline \/ Close
LineStep == Break \/ GivesUp \/ SetDesired

\* The platform's answer to a report.
ReplyComes ==
  /\ toDev' = Append(toDev, Reply)
  /\ UNCHANGED <<mt, s_connected, PacketID, conn, subs, led, desired>>

MqttStep == ThreadStep \/ LineStep \/ (ReplyComes /\ Len(toDev) < LineCap) \/ UNCHANGED mqtt

LEMMA NextIsMqttStep == ASSUME [Next]_vars PROVE MqttStep
<1> USE DEF MqttStep, ThreadStep, LineStep
<1>1. CASE UNCHANGED vars
  BY <1>1 DEF vars
<1>2. CASE Connects \/ Reads \/ Pings \/ Ends \/ Environment \/ Fault
  BY <1>2 DEF Connects, Reads, Pings, Ends, Environment, Fault
<1>3. CASE SensorQueues \/ SendReceives \/ SendDrops
  BY <1>3 DEF SensorQueues, SendReceives, SendDrops
<1>4. CASE SendPublishes
  BY <1>4 DEF SendPublishes, ReplyComes, mqtt
<1>5. CASE \/ \E kind \in Kinds : SensorReports(kind)
           \/ \E b \in Blocks : HeapUse(b)
  BY <1>5 DEF SensorReports, HeapUse
<1> QED BY <1>1, <1>2, <1>3, <1>4, <1>5 DEF Next

\* Where the thread is, together with what it holds: the flag is up only behind
\* the last SUBACK and before GoOffline, and only Open works without a socket.
SessionInv ==
  /\ mt # "open" => conn # "closed"
  /\ s_connected => mt \in {"run", "ping", "close"} /\ subs = TopicCount
  /\ mt \in {"run", "ping"} => s_connected

LEMMA SessionInductive == ASSUME SessionInv, MqttStep PROVE SessionInv'
<1> USE MqttAssumption DEF SessionInv
<1>1. CASE Open \/ GoOffline \/ Close \/ ConnectFails
  BY <1>1 DEF Open, GoOffline, Close, ConnectFails, Restart
<1>2. CASE LoggedIn \/ Subscribed \/ Online
  BY <1>2 DEF LoggedIn, Subscribed, Online, Subscribe
<1>3. CASE Handles \/ CannotAck \/ Ping \/ Pong \/ PingFails \/ ReadFails
  BY <1>3 DEF Handles, CannotAck, TakesMessage, Ping, Pong, PingFails, ReadFails
<1>4. CASE Break \/ GivesUp \/ SetDesired \/ ReplyComes
  BY <1>4 DEF Break, GivesUp, Restart, SetDesired, ReplyComes
<1>5. CASE UNCHANGED mqtt
  BY <1>5 DEF mqtt
<1> QED BY <1>1, <1>2, <1>3, <1>4, <1>5 DEF MqttStep, ThreadStep, LineStep

LEMMA SessionStart == Init => SessionInv
BY DEF Init, MqttInit, SessionInv

\* s_connected promises a socket on which every topic is subscribed, whatever
\* mqtt_send, the line and the broker do: OnlineMeansSubscribed.
THEOREM OnlineIsSubscribed == Spec => []OnlineMeansSubscribed
<1>1. SessionInv /\ [Next]_vars => SessionInv'
  BY NextIsMqttStep, SessionInductive
<1>2. SessionInv => OnlineMeansSubscribed
  BY DEF SessionInv, OnlineMeansSubscribed
<1> QED BY SessionStart, <1>1, <1>2, PTL DEF Spec

-----------------------------------------------------------------------------
(* Types of the connection, with how much is under way in each state.         *)

MqttTypeInv ==
  /\ MqttTypeOK
  /\ mt \in {"open", "login"} => subs = 0
  /\ mt \in {"open", "login", "sub", "run"} => Len(toDev) <= LineCap

LEMMA PacketTypes ==
  /\ Connack \in Packets /\ Pingresp \in Packets /\ Reply \in Packets
  /\ \A d \in BOOLEAN : Led(d) \in Packets
  /\ \A n \in Nat : Suback(n % IdMod) \in Packets
<1>1. \A n \in Nat : n % IdMod \in 0 .. IdMod - 1
  BY MqttAssumption
<1> QED BY <1>1 DEF Packets

LEMMA LineTypes ==
  ASSUME NEW q \in Seq(Packets)
  PROVE  /\ Len(q) \in Nat
         /\ \A p \in Packets : Append(q, p) \in Seq(Packets) /\ Len(Append(q, p)) = Len(q) + 1
         /\ q # <<>> => /\ Tail(q) \in Seq(Packets) /\ Len(Tail(q)) = Len(q) - 1
                        /\ Head(q) \in Packets
         /\ \A n \in 0 .. Len(q) : /\ SubSeq(q, 1, n) \in Seq(Packets)
                                    /\ Len(SubSeq(q, 1, n)) = n
OBVIOUS

LEMMA EmptyLine == ASSUME NEW q, q = <<>> PROVE q \in Seq(Packets) /\ Len(q) = 0
OBVIOUS

LEMMA ShortLine ==
  ASSUME NEW p \in Packets, NEW q, q = <<p>> PROVE q \in Seq(Packets) /\ Len(q) = 1
OBVIOUS

\* The connection is closed and the thread starts again.
LEMMA RestartTypes == ASSUME MqttTypeInv, Restart PROVE MqttTypeInv'
<1>1. toDev' \in Seq(Packets) /\ Len(toDev') = 0
  BY EmptyLine DEF Restart
<1> QED BY <1>1, MqttAssumption DEF Restart, MqttTypeInv, MqttTypeOK

LEMMA MqttTypeInductive == ASSUME MqttTypeInv, MqttStep PROVE MqttTypeInv'
<1> USE MqttAssumption DEF MqttTypeInv, MqttTypeOK
<1>0. /\ toDev \in Seq(Packets) /\ Len(toDev) \in Nat
      /\ toDev # <<>> => /\ Tail(toDev) \in Seq(Packets) /\ Len(Tail(toDev)) = Len(toDev) - 1
  BY LineTypes
<1>1. CASE Open
  <2>1. toDev' \in Seq(Packets) /\ Len(toDev') = 1
    BY <1>1, PacketTypes, ShortLine DEF Open
  <2>2. /\ mt' = "login" /\ s_connected' \in BOOLEAN /\ conn' = "open" /\ subs' = 0
        /\ PacketID' = PacketID /\ led' = led /\ desired' = desired
    BY <1>1 DEF Open
  <2> QED BY <2>1, <2>2
<1>2. CASE GoOffline \/ Close \/ ConnectFails
  BY <1>2, RestartTypes DEF GoOffline, Close, ConnectFails
<1>3. ASSUME toDev # <<>>, subs < TopicCount, Subscribe(Tail(toDev)), mt \in {"login", "sub"}
      PROVE  MqttTypeInv'
  <2>1. Suback(PacketID % IdMod) \in Packets
    <3>1. PacketID \in Nat
      OBVIOUS
    <3> QED BY <3>1, PacketTypes
  <2>2. toDev' \in Seq(Packets) /\ Len(toDev') <= LineCap
    BY <1>0, <1>3, <2>1, LineTypes DEF Subscribe, Answered
  <2>3. PacketID' \in 1 .. IdMod /\ subs' \in 0 .. TopicCount
    BY <1>3 DEF Subscribe
  <2> QED BY <1>3, <2>2, <2>3 DEF Subscribe
<1>4. CASE LoggedIn \/ Subscribed
  BY <1>3, <1>4 DEF LoggedIn, Subscribed, RightSuback
<1>5. CASE Online
  <2>1. (IF desired = NoValue THEN Reply ELSE Led(desired)) \in Packets
    BY PacketTypes
  <2>2. toDev' \in Seq(Packets) /\ Len(toDev') <= LineCap
    BY <1>0, <1>5, <2>1, LineTypes DEF Online, Answered, RightSuback
  <2> QED BY <1>5, <2>2 DEF Online
<1>6. CASE Handles \/ CannotAck
  <2>1. led' \in BOOLEAN
    <3>1. \A p \in Packets : p.kind = "led" => p.on \in BOOLEAN
      BY DEF Packets, Connack, Pingresp, Reply, Suback, Led
    <3>2. toDev # <<>> => Head(toDev) \in Packets
      BY LineTypes
    <3> QED BY <1>6, <3>1, <3>2 DEF Handles, CannotAck, TakesMessage
  <2>2. toDev # <<>> /\ toDev' = Tail(toDev) /\ mt = "run"
        /\ UNCHANGED <<mt, s_connected, PacketID, conn, subs, desired>>
    BY <1>6 DEF Handles, CannotAck, TakesMessage
  <2> QED BY <1>0, <2>1, <2>2
<1>7. CASE Ping
  <2>1. Pingresp \in Packets
    BY PacketTypes
  <2>2. toDev' \in Seq(Packets) /\ Len(toDev') <= LineCap + 1
    BY <1>0, <1>7, <2>1, LineTypes DEF Ping, Answered
  <2> QED BY <1>7, <2>2 DEF Ping
<1>8. CASE Pong \/ PingFails \/ ReadFails
  BY <1>0, <1>8 DEF Pong, PingFails, ReadFails
<1>9. CASE Break
  <2>1. toDev' \in Seq(Packets) /\ Len(toDev') <= Len(toDev)
    BY <1>0, <1>9, LineTypes DEF Break
  <2> QED BY <1>0, <1>9, <2>1 DEF Break
<1>10. CASE GivesUp
  BY <1>10, RestartTypes DEF GivesUp
<1>11. CASE SetDesired
  <2>1. Led(desired') \in Packets /\ desired' \in BOOLEAN
    BY <1>11, PacketTypes DEF SetDesired
  <2>2. toDev' = toDev \/ (toDev' \in Seq(Packets) /\ Len(toDev') <= LineCap)
    BY <1>0, <1>11, <2>1, LineTypes DEF SetDesired
  <2> QED BY <1>0, <1>11, <2>1, <2>2 DEF SetDesired
<1>12. CASE ReplyComes /\ Len(toDev) < LineCap
  <2>1. toDev' \in Seq(Packets) /\ Len(toDev') <= LineCap
    BY <1>0, <1>12, PacketTypes, LineTypes DEF ReplyComes
  <2> QED BY <1>12, <2>1 DEF ReplyComes
<1>13. CASE UNCHANGED mqtt
  BY <1>13 DEF mqtt
<1> QED
  BY <1>1, <1>2, <1>4, <1>5, <1>6, <1>7, <1>8, <1>9, <1>10, <1>11, <1>12, <1>13
     DEF MqttStep, ThreadStep, LineStep

LEMMA MqttTypeStart == Init => MqttTypeInv
<1> SUFFICES ASSUME Init PROVE MqttTypeInv
  OBVIOUS
<1>1. toDev \in Seq(Packets) /\ Len(toDev) = 0
  BY EmptyLine DEF Init, MqttInit
<1>2. /\ mt = "open" /\ s_connected \in BOOLEAN /\ PacketID = 1 /\ conn = "closed"
      /\ subs = 0 /\ led \in BOOLEAN /\ desired \in BOOLEAN \cup {NoValue}
  BY DEF Init, MqttInit
<1> QED BY <1>1, <1>2, MqttAssumption DEF MqttTypeInv, MqttTypeOK

\* Every variable keeps its type, and the line its bound: TypeOK.
THEOREM TypeCorrect == Spec => []TypeOK
<1>1. Init => ReportInv /\ MqttTypeInv
  BY MqttTypeStart, ReportStart DEF Init
<1>2. ReportInv /\ MqttTypeInv /\ [Next]_vars => (ReportInv /\ MqttTypeInv)'
  BY NextIsReportStep, ReportInductive, NextIsMqttStep, MqttTypeInductive
<1>3. ReportInv /\ MqttTypeInv => TypeOK
  BY DEF ReportInv, MqttTypeInv, TypeOK
<1> QED BY <1>1, <1>2, <1>3, PTL DEF Spec

-----------------------------------------------------------------------------
(* The LED. What q will make of a LED that is l now is the last message about *)
(* it in q, or l when there is none.                                          *)

LastWord(q, d) ==
  \A i \in DOMAIN q :
    (q[i].kind = "led" /\ \A j \in DOMAIN q : j > i => q[j].kind # "led") => q[i].on = d
Silent(q) == \A i \in DOMAIN q : q[i].kind # "led"
LeadsTo(q, l, d) == LastWord(q, d) /\ (Silent(q) => l = d)

InSession == s_connected /\ conn = "open" /\ mt \in {"run", "ping"}
LedInv == InSession /\ desired # NoValue => LeadsTo(toDev, led, desired)

LEMMA PacketKinds ==
  /\ Connack.kind # "led" /\ Pingresp.kind # "led" /\ Reply.kind # "led"
  /\ \A d : Led(d).kind = "led" /\ Led(d).on = d
BY DEF Connack, Pingresp, Reply, Led

\* A message with the wanted value settles it, whatever was before.
LEMMA LedMessageLeads ==
  ASSUME NEW q \in Seq(Packets), NEW d \in BOOLEAN, NEW l
  PROVE  LeadsTo(Append(q, Led(d)), l, d)
<1> DEFINE r == Append(q, Led(d))
           n == Len(q)
<1>1. n \in Nat /\ DOMAIN r = 1 .. n + 1 /\ r[n + 1] = Led(d)
  BY PacketTypes
<1> HIDE DEF r
<1>2. LastWord(r, d)
  <2> SUFFICES ASSUME NEW i \in DOMAIN r, \A j \in DOMAIN r : j > i => r[j].kind # "led"
               PROVE  r[i].on = d
    BY DEF LastWord
  <2>1. i = n + 1
    BY <1>1, PacketKinds
  <2> QED BY <1>1, <2>1, PacketKinds
<1>3. ~Silent(r)
  <2>1. n + 1 \in DOMAIN r
    BY <1>1
  <2> QED BY <1>1, <2>1, PacketKinds DEF Silent
<1> QED BY <1>2, <1>3 DEF LeadsTo, r

\* Any other packet behind the rest changes nothing.
LEMMA OtherPacketLeads ==
  ASSUME NEW q \in Seq(Packets), NEW p \in Packets, p.kind # "led", NEW d, NEW l,
         LeadsTo(q, l, d)
  PROVE  LeadsTo(Append(q, p), l, d)
<1> DEFINE r == Append(q, p)
           n == Len(q)
<1>1. /\ n \in Nat /\ DOMAIN q = 1 .. n /\ DOMAIN r = 1 .. n + 1 /\ r[n + 1] = p
      /\ \A i \in 1 .. n : r[i] = q[i]
  OBVIOUS
<1> HIDE DEF r
<1>2. LastWord(r, d)
  <2> SUFFICES ASSUME NEW i \in DOMAIN r, r[i].kind = "led",
                      \A j \in DOMAIN r : j > i => r[j].kind # "led"
               PROVE  r[i].on = d
    BY DEF LastWord
  <2>1. i \in 1 .. n /\ q[i] = r[i]
    BY <1>1
  <2>2. \A j \in DOMAIN q : j > i => q[j].kind # "led"
    BY <1>1
  <2> QED BY <1>1, <2>1, <2>2 DEF LeadsTo, LastWord
<1>3. ASSUME Silent(r) PROVE l = d
  <2>1. Silent(q)
    BY <1>1, <1>3 DEF Silent
  <2> QED BY <2>1 DEF LeadsTo
<1> QED BY <1>2, <1>3 DEF LeadsTo, r

\* Handling the first packet leads to the same value as before.
LEMMA HandledLeads ==
  ASSUME NEW q \in Seq(Packets), q # <<>>, NEW d, NEW l, LeadsTo(q, l, d),
         NEW m, m = IF Head(q).kind = "led" THEN Head(q).on ELSE l
  PROVE  LeadsTo(Tail(q), m, d)
<1> DEFINE r == Tail(q)
           n == Len(q)
<1>1. /\ n \in Nat \ {0} /\ DOMAIN q = 1 .. n /\ DOMAIN r = 1 .. n - 1 /\ Head(q) = q[1]
      /\ \A i \in 1 .. n - 1 : r[i] = q[i + 1]
  OBVIOUS
<1> HIDE DEF r
<1>2. LastWord(r, d)
  <2> SUFFICES ASSUME NEW i \in DOMAIN r, r[i].kind = "led",
                      \A j \in DOMAIN r : j > i => r[j].kind # "led"
               PROVE  r[i].on = d
    BY DEF LastWord
  <2>1. i + 1 \in DOMAIN q /\ q[i + 1] = r[i]
    BY <1>1
  <2>2. ASSUME NEW j \in DOMAIN q, j > i + 1 PROVE q[j].kind # "led"
    <3>1. j - 1 \in DOMAIN r /\ j - 1 > i /\ r[j - 1] = q[j]
      BY <1>1, <2>2
    <3> QED BY <3>1
  <2> QED BY <2>1, <2>2 DEF LeadsTo, LastWord
<1>3. ASSUME Silent(r) PROVE m = d
  <2>1. \A j \in DOMAIN q : j > 1 => q[j].kind # "led"
    <3> SUFFICES ASSUME NEW j \in DOMAIN q, j > 1 PROVE q[j].kind # "led"
      OBVIOUS
    <3>1. j - 1 \in DOMAIN r /\ r[j - 1] = q[j]
      BY <1>1
    <3> QED BY <1>3, <3>1 DEF Silent
  <2>2. 1 \in DOMAIN q
    BY <1>1
  <2>3. CASE Head(q).kind = "led"
    BY <1>1, <2>1, <2>2, <2>3 DEF LeadsTo, LastWord
  <2>4. CASE Head(q).kind # "led"
    <3>1. Silent(q)
      BY <1>1, <2>1, <2>4 DEF Silent
    <3> QED BY <2>4, <3>1 DEF LeadsTo
  <2> QED BY <2>3, <2>4
<1> QED BY <1>2, <1>3 DEF LeadsTo, r

LEMMA LedInductive ==
  ASSUME MqttTypeInv, SessionInv, LedInv, MqttStep PROVE LedInv'
<1> SUFFICES ASSUME InSession', (desired # NoValue)' PROVE LeadsTo(toDev', led', desired')
  BY DEF LedInv
<1>0. toDev \in Seq(Packets) /\ desired \in BOOLEAN \cup {NoValue}
  BY DEF MqttTypeInv, MqttTypeOK
<1>1. CASE Online
  <2>1. /\ toDev' = Append(Tail(toDev), Led(desired)) /\ desired' = desired /\ toDev # <<>>
        /\ desired # NoValue
    BY <1>1 DEF Online, Answered, InSession, RightSuback
  <2>2. Tail(toDev) \in Seq(Packets)
    BY <1>0, <2>1
  <2> QED BY <1>0, <2>1, <2>2, LedMessageLeads
<1>2. CASE Handles
  <2>1. /\ toDev # <<>> /\ toDev' = Tail(toDev) /\ desired' = desired /\ InSession
        /\ led' = IF Head(toDev).kind = "led" THEN Head(toDev).on ELSE led
    BY <1>2 DEF Handles, TakesMessage, InSession
  <2> QED BY <1>0, <2>1, HandledLeads DEF LedInv
<1>3. CASE Ping
  <2>1. toDev' = Append(toDev, Pingresp) /\ desired' = desired /\ led' = led /\ InSession
    BY <1>3 DEF Ping, Answered, InSession
  <2> QED BY <1>0, <2>1, OtherPacketLeads, PacketTypes, PacketKinds DEF LedInv
<1>4. CASE Pong
  <2>1. /\ toDev # <<>> /\ toDev' = Tail(toDev) /\ Head(toDev) = Pingresp
        /\ desired' = desired /\ led' = led /\ InSession
    BY <1>4 DEF Pong, InSession
  <2>2. led' = IF Head(toDev).kind = "led" THEN Head(toDev).on ELSE led
    BY <2>1, PacketKinds
  <2> QED BY <1>0, <2>1, <2>2, HandledLeads DEF LedInv
<1>5. CASE SetDesired
  <2>1. InSession /\ subs > 0 /\ conn = "open"
    BY <1>5, MqttAssumption DEF SetDesired, InSession, SessionInv
  <2>2. toDev' = Append(toDev, Led(desired')) /\ desired' \in BOOLEAN
    BY <1>5, <2>1 DEF SetDesired
  <2> QED BY <1>0, <2>2, LedMessageLeads
<1>6. CASE ReplyComes
  <2>1. toDev' = Append(toDev, Reply) /\ desired' = desired /\ led' = led /\ InSession
    BY <1>6 DEF ReplyComes, InSession
  <2> QED BY <1>0, <2>1, OtherPacketLeads, PacketTypes, PacketKinds DEF LedInv
<1>7. CASE UNCHANGED mqtt
  BY <1>7 DEF mqtt, LedInv, InSession
<1>8. CASE Open \/ LoggedIn \/ Subscribed \/ ConnectFails \/ CannotAck \/ PingFails
           \/ ReadFails \/ GoOffline \/ Close \/ Break \/ GivesUp
  BY <1>8 DEF Open, LoggedIn, Subscribed, Subscribe, ConnectFails, Restart, CannotAck,
     TakesMessage, PingFails, ReadFails, GoOffline, Close, Break, GivesUp, InSession
<1> QED BY <1>1, <1>2, <1>3, <1>4, <1>5, <1>6, <1>7, <1>8 DEF MqttStep, ThreadStep, LineStep

\* In a session the LED is on its way to what the user wants, also after any
\* number of connections, lost messages and dropped packets: LedFollows.
THEOREM LedIsFollowing == Spec => []LedFollows
<1> DEFINE Inv == MqttTypeInv /\ SessionInv /\ LedInv
<1>1. Init => Inv
  BY MqttTypeStart, SessionStart DEF Init, MqttInit, LedInv, InSession
<1>2. Inv /\ [Next]_vars => Inv'
  BY NextIsMqttStep, MqttTypeInductive, SessionInductive, LedInductive
<1>3. Inv => LedFollows
  BY DEF LedInv, InSession, LeadsTo, Silent, LedFollows
<1> QED BY <1>1, <1>2, <1>3, PTL DEF Spec
=============================================================================
