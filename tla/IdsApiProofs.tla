---------------------------- MODULE IdsApiProofs ----------------------------
(***************************************************************************)
(* Proofs about IdsApi for every set of streams, every limit on rings,     *)
(* queues and clients, and every bound on what the world does.             *)
(***************************************************************************)
EXTENDS IdsApi, SequenceTheorems, FiniteSetTheorems, TLAPS

-----------------------------------------------------------------------------
(* Sequences.                                                              *)

\* What is appended to a sequence.
LEMMA AppendElements ==
  ASSUME NEW S, NEW s \in Seq(S), NEW e \in S
  PROVE  /\ Append(s, e) \in Seq(S) /\ Len(Append(s, e)) = Len(s) + 1
         /\ \A i \in 1..Len(s) : Append(s, e)[i] = s[i]
         /\ Append(s, e)[Len(s) + 1] = e
BY AppendProperties

\* The end of a sequence from place m on.
LEMMA FromElements ==
  ASSUME NEW S, NEW s \in Seq(S), NEW m \in Nat \ {0}
  PROVE  /\ SubSeq(s, m, Len(s)) \in Seq(S)
         /\ Len(SubSeq(s, m, Len(s))) = IF m <= Len(s) THEN Len(s) - m + 1 ELSE 0
         /\ \A i \in 1..(Len(s) - m + 1) : SubSeq(s, m, Len(s))[i] = s[m + i - 1]
<1>1. Len(s) \in Nat /\ \A i \in m..Len(s) : s[i] \in S
  BY LenProperties, ElementOfSeq
<1> QED
  BY <1>1, SubSeqProperties

\* The same places hold the same.
LEMMA SameSeq ==
  ASSUME NEW S, NEW s \in Seq(S), NEW t \in Seq(S), Len(s) = Len(t),
         \A i \in 1..Len(s) : s[i] = t[i]
  PROVE  s = t
BY SeqEqual

\* One more element is one more at the end of every end.
LEMMA FromAppend ==
  ASSUME NEW S, NEW s \in Seq(S), NEW e \in S, NEW m \in 1..(Len(s) + 1)
  PROVE  Append(SubSeq(s, m, Len(s)), e) = SubSeq(Append(s, e), m, Len(Append(s, e)))
<1> DEFINE a == SubSeq(s, m, Len(s))
           b == Append(s, e)
           r == SubSeq(b, m, Len(b))
<1>1. Len(s) \in Nat /\ m \in Nat \ {0}
  BY LenProperties
<1>2. /\ b \in Seq(S) /\ Len(b) = Len(s) + 1
      /\ \A i \in 1..Len(s) : b[i] = s[i]
      /\ b[Len(s) + 1] = e
  BY AppendElements
<1> HIDE DEF b
<1>3. /\ a \in Seq(S) /\ Len(a) = Len(s) - m + 1
      /\ \A i \in 1..(Len(s) - m + 1) : a[i] = s[m + i - 1]
  BY <1>1, FromElements
<1>4. /\ r \in Seq(S) /\ Len(r) = Len(s) - m + 2
      /\ \A i \in 1..(Len(s) - m + 2) : r[i] = b[m + i - 1]
  BY <1>1, <1>2, FromElements
<1> HIDE DEF a, r
<1>5. /\ Append(a, e) \in Seq(S) /\ Len(Append(a, e)) = Len(a) + 1
      /\ \A i \in 1..Len(a) : Append(a, e)[i] = a[i]
      /\ Append(a, e)[Len(a) + 1] = e
  BY <1>3, AppendElements
<1>6. ASSUME NEW i \in 1..Len(Append(a, e))
      PROVE  Append(a, e)[i] = r[i]
  <2>1. CASE i \in 1..Len(a)
    <3>1. m + i - 1 \in 1..Len(s) /\ i \in 1..(Len(s) - m + 1) /\ i \in 1..(Len(s) - m + 2)
      BY <1>1, <1>3, <2>1
    <3>2. Append(a, e)[i] = s[m + i - 1]
      BY <1>3, <1>5, <2>1, <3>1
    <3>3. r[i] = s[m + i - 1]
      BY <1>2, <1>4, <3>1
    <3> QED
      BY <3>2, <3>3
  <2>2. CASE i = Len(a) + 1
    <3>1. m + i - 1 = Len(s) + 1 /\ i \in 1..(Len(s) - m + 2)
      BY <1>1, <1>3, <2>2
    <3> QED
      BY <1>2, <1>4, <1>5, <2>2, <3>1
  <2> QED
    BY <1>1, <1>3, <1>5, <1>6, <2>1, <2>2
<1> QED
  BY <1>1, <1>3, <1>4, <1>5, <1>6, SameSeq DEF a, b, r

\* The newest elements are the end of a sequence, RingSize of them at most.
LEMMA NewestElements ==
  ASSUME NEW S, NEW s \in Seq(S)
  PROVE  LET r == Newest(s) IN
         /\ r \in Seq(S) /\ Len(r) <= RingSize /\ Len(r) <= Len(s) /\ Len(r) \in Nat
         /\ Len(r) < RingSize => Len(r) = Len(s)
         /\ \A i \in 1..Len(r) : r[i] = s[Len(s) - Len(r) + i]
<1>1. Len(s) \in Nat /\ RingSize \in Nat \ {0}
  BY LenProperties, LimitsAssumption
<1>2. CASE Len(s) <= RingSize
  BY <1>1, <1>2 DEF Newest
<1>3. CASE Len(s) > RingSize
  <2> DEFINE m == Len(s) - RingSize + 1
  <2>1. m \in Nat \ {0} /\ m <= Len(s) /\ Len(s) - m + 1 = RingSize
    BY <1>1, <1>3
  <2>2. Newest(s) = SubSeq(s, m, Len(s))
    BY <1>1, <1>3 DEF Newest
  <2>3. /\ Newest(s) \in Seq(S) /\ Len(Newest(s)) = RingSize
        /\ \A i \in 1..RingSize : Newest(s)[i] = s[m + i - 1]
    BY <2>1, <2>2, FromElements
  <2>4. \A i \in 1..RingSize : m + i - 1 = Len(s) - RingSize + i
    BY <1>1
  <2> QED
    BY <1>1, <1>3, <2>3, <2>4
<1> QED
  BY <1>1, <1>2, <1>3

\* A ring forgets nothing that is among its newest.
LEMMA NewestOfNewest ==
  ASSUME NEW S, NEW s \in Seq(S), NEW e \in S
  PROVE  Newest(Append(Newest(s), e)) = Newest(Append(s, e))
<1> DEFINE a == Newest(s)
           b == Append(a, e)
           c == Append(s, e)
           x == Newest(b)
           y == Newest(c)
<1>1. RingSize \in Nat \ {0} /\ Len(s) \in Nat
  BY LenProperties, LimitsAssumption
<1>2. /\ a \in Seq(S) /\ Len(a) <= RingSize /\ Len(a) <= Len(s) /\ Len(a) \in Nat
      /\ Len(a) < RingSize => Len(a) = Len(s)
      /\ \A i \in 1..Len(a) : a[i] = s[Len(s) - Len(a) + i]
  BY NewestElements
<1> HIDE DEF a
<1>3. /\ b \in Seq(S) /\ Len(b) = Len(a) + 1 /\ b[Len(a) + 1] = e
      /\ \A i \in 1..Len(a) : b[i] = a[i]
  BY <1>2, AppendElements
<1>4. /\ c \in Seq(S) /\ Len(c) = Len(s) + 1 /\ c[Len(s) + 1] = e
      /\ \A i \in 1..Len(s) : c[i] = s[i]
  BY AppendElements
<1> HIDE DEF b, c
<1>5. /\ x \in Seq(S) /\ Len(x) <= RingSize /\ Len(x) <= Len(b) /\ Len(x) \in Nat
      /\ Len(x) < RingSize => Len(x) = Len(b)
      /\ \A i \in 1..Len(x) : x[i] = b[Len(b) - Len(x) + i]
  BY <1>3, NewestElements
<1>6. /\ y \in Seq(S) /\ Len(y) <= RingSize /\ Len(y) <= Len(c) /\ Len(y) \in Nat
      /\ Len(y) < RingSize => Len(y) = Len(c)
      /\ \A i \in 1..Len(y) : y[i] = c[Len(c) - Len(y) + i]
  BY <1>4, NewestElements
<1> HIDE DEF x, y
<1>7. Len(x) = Len(y)
  <2>1. /\ Len(x) <= RingSize /\ Len(x) <= Len(a) + 1
        /\ Len(x) < RingSize => Len(x) = Len(a) + 1
    BY <1>3, <1>5
  <2>2. /\ Len(y) <= RingSize /\ Len(y) <= Len(s) + 1
        /\ Len(y) < RingSize => Len(y) = Len(s) + 1
    BY <1>4, <1>6
  <2>3. Len(a) <= RingSize /\ Len(a) <= Len(s) /\ (Len(a) < RingSize => Len(a) = Len(s))
    BY <1>2
  <2>4. Len(x) \in Nat /\ Len(y) \in Nat /\ Len(a) \in Nat
    BY <1>2, <1>5, <1>6
  <2> QED
    BY <1>1, <2>1, <2>2, <2>3, <2>4
<1>8. ASSUME NEW j \in 1..(Len(a) + 1)
      PROVE  b[j] = c[Len(s) - Len(a) + j]
  <2>1. CASE j = Len(a) + 1
    BY <1>1, <1>2, <1>3, <1>4, <2>1
  <2>2. CASE j \in 1..Len(a)
    <3>1. Len(s) - Len(a) + j \in 1..Len(s)
      BY <1>1, <1>2, <2>2
    <3> QED
      BY <1>2, <1>3, <1>4, <2>2, <3>1
  <2> QED
    BY <1>2, <2>1, <2>2
<1>9. ASSUME NEW i \in 1..Len(x)
      PROVE  x[i] = y[i]
  <2>1. Len(b) - Len(x) + i \in 1..(Len(a) + 1)
    BY <1>2, <1>3, <1>5
  <2>2. Len(s) - Len(a) + (Len(b) - Len(x) + i) = Len(c) - Len(y) + i
    BY <1>1, <1>2, <1>3, <1>4, <1>5, <1>7
  <2> QED
    BY <1>5, <1>6, <1>7, <1>8, <2>1, <2>2
<1> QED
  BY <1>5, <1>6, <1>7, <1>9, SameSeq DEF a, b, c, x, y

-----------------------------------------------------------------------------
(* The invariant.                                                          *)

\* What is on the disk: bytes of events, and a file that was renamed away is whole
\* and not the last.
FilesOK ==
  /\ files \in [Inodes -> Seq(Byte)] /\ rest \in Seq(Byte)
  /\ current \in Inodes /\ gone \in BOOLEAN
  /\ rest # <<>> => ~gone
  /\ gone => current < MaxFiles
  /\ written \in 0..MaxEvents
  /\ truncations \in 0..MaxTruncations
  /\ restarts \in 0..MaxRestarts

\* The tail thread: past its open it has a file, past an alert's line an alert.
TailOK ==
  /\ pc \in {"stat", "open", "read", "append", "broadcast"}
  /\ {seen, inode, handle} \subseteq Inodes \cup {NoFile}
  /\ at \in Nat /\ pos \in Nat /\ passed \subseteq 1..MaxEvents
  /\ event \in EventType \cup {NoEvent}
  /\ pc \in {"read", "append", "broadcast"} => handle # NoFile
  /\ pc \in {"append", "broadcast"} => event \in EventType

RingsOK ==
  /\ alerts \in Seq(EventType) /\ Len(alerts) <= RingSize
  /\ flows \in Seq(EventType) /\ Len(flows) <= RingSize
  /\ sent \in Seq(EventType)
  /\ RingLeads

\* The streams: a listed one has been written no more than was broadcast.
StreamsOK ==
  /\ clients \subseteq open /\ open \subseteq Streams
  /\ IsFiniteSet(clients) /\ Cardinality(clients) <= MaxClients
  /\ queue \in [Streams -> Seq(EventType)]
  /\ \A c \in Streams : Len(queue[c]) <= QueueSize
  /\ past \in [Streams -> Nat]
  /\ \A c \in clients : past[c] <= Len(sent)
  /\ ListedMissNothing

IInv == FilesOK /\ TailOK /\ RingsOK /\ StreamsOK

-----------------------------------------------------------------------------
(* What a step leaves alone.                                               *)

LEMMA FilesKept ==
  ASSUME FilesOK, UNCHANGED <<fileVars, written, truncations>>,
         restarts' \in 0..MaxRestarts
  PROVE  FilesOK'
BY DEF FilesOK, fileVars

LEMMA TailKept ==
  ASSUME TailOK, UNCHANGED tailVars
  PROVE  TailOK'
BY DEF TailOK, tailVars

LEMMA RingsKept ==
  ASSUME RingsOK, UNCHANGED <<ringVars, sent, event>>,
         pc' = "broadcast" <=> pc = "broadcast"
  PROVE  RingsOK'
<1>1. alerts' = alerts /\ flows' = flows /\ sent' = sent /\ event' = event
  BY DEF ringVars
<1>2. RingLeads'
  BY <1>1 DEF RingsOK, RingLeads, Newest
<1> QED
  BY <1>1, <1>2 DEF RingsOK

LEMMA StreamsKept ==
  ASSUME StreamsOK, UNCHANGED <<streamVars, sent>>
  PROVE  StreamsOK'
BY DEF StreamsOK, streamVars, ListedMissNothing

-----------------------------------------------------------------------------
(* The world.                                                              *)

\* The bytes of a line.
LEMMA BytesType ==
  ASSUME NEW e \in EventType
  PROVE  Bytes(e) \in Seq(Byte)
<1>1. \A p \in {"first", "lead", "cont", "last"} : [event |-> e, part |-> p] \in Byte
  BY DEF Byte
<1> QED
  BY <1>1 DEF Bytes

\* A part of a sequence of bytes.
LEMMA PartOf ==
  ASSUME NEW s \in Seq(Byte), NEW m \in Nat \ {0}, NEW n \in Nat, n <= Len(s)
  PROVE  /\ SubSeq(s, m, n) \in Seq(Byte)
         /\ Len(SubSeq(s, m, n)) = IF m <= n THEN n - m + 1 ELSE 0
<1>1. Len(s) \in Nat /\ \A i \in m..n : s[i] \in Byte
  BY LenProperties, ElementOfSeq
<1> QED
  BY <1>1, SubSeqProperties

\* Bytes are added to the end of the current file.
LEMMA FileGrows ==
  ASSUME FilesOK, NEW b \in Seq(Byte), files' = [files EXCEPT ![current] = @ \o b]
  PROVE  files' \in [Inodes -> Seq(Byte)]
<1>1. files[current] \in Seq(Byte)
  BY DEF FilesOK
<1>2. files[current] \o b \in Seq(Byte)
  BY <1>1, ConcatProperties
<1> QED
  BY <1>2 DEF FilesOK

\* A line is written only while there is room for one.
LEMMA WriteKeeps ==
  ASSUME FilesOK, NEW l \in Lines, NEW n \in 1..3, Write(l, n)
  PROVE  FilesOK'
<1> DEFINE e == [number |-> written + 1, kind |-> l.kind, wide |-> l.wide]
           line == Bytes(e)
<1>1. /\ files' = [files EXCEPT ![current] = @ \o SubSeq(line, 1, n)]
      /\ rest' = SubSeq(line, n + 1, Len(line)) /\ n <= Len(line)
      /\ written' = written + 1 /\ written < MaxEvents /\ ~gone
      /\ UNCHANGED <<current, gone, truncations, restarts>>
  BY DEF Write
<1>2. written \in Nat /\ MaxEvents \in Nat
  BY LimitsAssumption DEF FilesOK
<1>3. written + 1 \in 1..MaxEvents
  BY <1>1, <1>2
<1>4. e \in EventType
  BY <1>3, LinesAssumption DEF EventType
<1> HIDE DEF e
<1>5. line \in Seq(Byte) /\ Len(line) \in Nat
  BY <1>4, BytesType, LenProperties
<1> HIDE DEF line
<1>6. SubSeq(line, 1, n) \in Seq(Byte)
  BY <1>1, <1>5, PartOf
<1>7. rest' \in Seq(Byte)
  BY <1>1, <1>5, FromElements
<1>8. files' \in [Inodes -> Seq(Byte)]
  BY <1>1, <1>6, FileGrows
<1>9. written' \in 0..MaxEvents
  BY <1>1, <1>2
<1> QED
  BY <1>1, <1>7, <1>8, <1>9 DEF FilesOK

LEMMA WorldKeeps ==
  ASSUME FilesOK, World
  PROVE  FilesOK'
<1>1. CASE \E l \in Lines, n \in 1..3 : Write(l, n)
  BY <1>1, WriteKeeps
<1>2. CASE WriteRest
  <2>1. /\ files' = [files EXCEPT ![current] = @ \o rest] /\ rest' = <<>>
        /\ UNCHANGED <<current, gone, written, truncations, restarts>>
    BY <1>2 DEF WriteRest, bounds
  <2>2. rest \in Seq(Byte)
    BY DEF FilesOK
  <2>3. files' \in [Inodes -> Seq(Byte)]
    BY <2>1, <2>2, FileGrows
  <2>4. rest' \in Seq(Byte)
    BY <2>1, EmptySeq
  <2> QED
    BY <2>1, <2>3, <2>4 DEF FilesOK
<1>3. CASE Rotate
  BY <1>3 DEF Rotate, FilesOK, bounds
<1>4. CASE Create
  <2>1. gone' = FALSE /\ current' = current + 1 /\ rest' = rest /\ files' = files /\ gone
    BY <1>4 DEF Create
  <2>2. current < MaxFiles /\ current \in Inodes
    BY <2>1 DEF FilesOK
  <2>3. current' \in Inodes
    BY <2>1, <2>2, LimitsAssumption DEF Inodes
  <2>4. UNCHANGED <<written, truncations, restarts>>
    BY <1>4 DEF Create, bounds
  <2> QED
    BY <2>1, <2>3, <2>4 DEF FilesOK
<1>5. CASE Truncate
  <2>1. /\ files' = [files EXCEPT ![current] = <<>>] /\ truncations' = truncations + 1
        /\ truncations < MaxTruncations
        /\ UNCHANGED <<current, gone, rest, written, restarts>>
    BY <1>5 DEF Truncate
  <2>2. <<>> \in Seq(Byte)
    BY EmptySeq
  <2>3. files' \in [Inodes -> Seq(Byte)]
    BY <2>1, <2>2 DEF FilesOK
  <2>4. truncations' \in 0..MaxTruncations
    BY <2>1, LimitsAssumption DEF FilesOK
  <2> QED
    BY <2>1, <2>3, <2>4 DEF FilesOK
<1> QED
  BY <1>1, <1>2, <1>3, <1>4, <1>5 DEF World

-----------------------------------------------------------------------------
(* The tail thread.                                                        *)

\* What readline returns: at least a byte, of events that were written, and no
\* more characters than it is long.
LEMMA LineRead ==
  ASSUME FilesOK, TailOK, pc = "read", NEW n \in at + 1..Len(files[handle])
  PROVE  /\ Len(Upto(n)) \in Nat \ {0} /\ Characters(Upto(n)) \in Nat
         /\ \A i \in DOMAIN Upto(n) : Upto(n)[i].event \in EventType
         /\ 1 \in DOMAIN Upto(n)
<1> DEFINE line == Upto(n)
<1>1. handle \in Inodes /\ at \in Nat
  BY DEF TailOK
<1>2. files[handle] \in Seq(Byte) /\ Len(files[handle]) \in Nat
  BY <1>1, LenProperties DEF FilesOK
<1>3. at + 1 \in Nat \ {0} /\ n \in Nat /\ n <= Len(files[handle]) /\ at + 1 <= n
  BY <1>1, <1>2
<1>4. line \in Seq(Byte) /\ Len(line) = n - (at + 1) + 1
  BY <1>2, <1>3, PartOf DEF Upto
<1> HIDE DEF line
<1>5. Len(line) \in Nat \ {0} /\ DOMAIN line = 1..Len(line)
  BY <1>1, <1>3, <1>4, LenProperties
<1>6. ASSUME NEW i \in DOMAIN line
      PROVE  line[i].event \in EventType
  <2>1. i \in 1..Len(line)
    BY <1>5
  <2>2. line[i] \in Byte
    BY <1>4, <2>1, ElementOfSeq
  <2> QED
    BY <2>2 DEF Byte
<1>7. Characters(line) \in Nat
  <2> DEFINE C == {i \in DOMAIN line : line[i].part # "cont"}
  <2>1. IsFiniteSet(DOMAIN line) /\ C \in SUBSET DOMAIN line
    BY <1>5, FS_Interval
  <2>2. IsFiniteSet(C)
    BY <2>1, FS_Subset
  <2> HIDE DEF C
  <2>3. Cardinality(C) \in Nat
    BY <2>2, FS_CardinalityType
  <2> QED
    BY <2>3 DEF Characters, C
<1> QED
  BY <1>5, <1>6, <1>7 DEF line

\* An event that is kept is one of the newest in its ring.
LEMMA RingTypes ==
  ASSUME NEW ring \in Seq(EventType), NEW e \in EventType
  PROVE  Newest(Append(ring, e)) \in Seq(EventType) /\ Len(Newest(Append(ring, e))) <= RingSize
<1>1. Append(ring, e) \in Seq(EventType)
  BY AppendElements
<1> QED
  BY <1>1, NewestElements

\* The steps that look for a file: nothing is read, nothing kept.
LEMMA SeekKeeps ==
  ASSUME FilesOK, TailOK, RingsOK, Stat \/ Open
  PROVE  TailOK' /\ RingsOK'
<1>1. CASE Stat
  <2>1. /\ seen' = current /\ pc = "stat" /\ pc' \in {"open", "read"}
        /\ pc' = "read" => handle # NoFile
        /\ at' = pos
        /\ UNCHANGED <<inode, handle, pos, event, passed, ringVars, sent>>
    BY <1>1 DEF Stat, Replaced, Renamed
  <2> QED
    BY <2>1, RingsKept DEF TailOK, FilesOK
<1>2. CASE Open
  <2>1. /\ pc = "open" /\ pc' \in {"stat", "read"}
        /\ handle' \in {current, NoFile} /\ inode' \in {inode, seen}
        /\ at' \in {at, 0} /\ pos' \in {pos, 0}
        /\ pc' = "read" => handle' = current
        /\ UNCHANGED <<seen, event, passed, ringVars, sent>>
    BY <1>2 DEF Open
  <2>2. current # NoFile
    BY LimitsAssumption DEF FilesOK, Inodes, NoFile
  <2> QED
    BY <2>1, <2>2, RingsKept DEF TailOK, FilesOK
<1> QED
  BY <1>1, <1>2

\* What is read is counted; a flow goes to its ring, an alert is held.
LEMMA TakeKeeps ==
  ASSUME FilesOK, TailOK, RingsOK, pc = "read",
         NEW n \in at + 1..Len(files[handle]), Take(Upto(n)),
         UNCHANGED <<seen, inode, handle, alerts, sent>>
  PROVE  TailOK' /\ RingsOK'
<1> DEFINE line == Upto(n)
           e == line[1].event
<1>1. /\ Len(line) \in Nat \ {0} /\ Characters(line) \in Nat /\ 1 \in DOMAIN line
      /\ \A i \in DOMAIN line : line[i].event \in EventType
  BY LineRead
<1>2. /\ at' = at + Len(line) /\ pos' = pos + Characters(line)
      /\ passed' = passed \cup {line[i].event.number : i \in DOMAIN line}
      /\ \/ UNCHANGED <<pc, event, flows>>
         \/ flows' = Newest(Append(flows, e)) /\ UNCHANGED <<pc, event>>
         \/ pc' = "append" /\ event' = e /\ UNCHANGED flows
  BY DEF Take
<1> HIDE DEF line
<1>3. e \in EventType
  BY <1>1
<1>4. \A i \in DOMAIN line : line[i].event.number \in 1..MaxEvents
  BY <1>1 DEF EventType
<1>5. passed' \subseteq 1..MaxEvents
  BY <1>2, <1>4 DEF TailOK
<1>6. at' \in Nat /\ pos' \in Nat
  BY <1>1, <1>2 DEF TailOK
<1> HIDE DEF e
<1>7. handle # NoFile
  BY DEF TailOK
<1>8. event' \in EventType \cup {NoEvent} /\ pc' \in {"read", "append"}
      /\ (pc' = "append" => event' \in EventType)
  BY <1>2, <1>3 DEF TailOK
<1>9. TailOK'
  BY <1>5, <1>6, <1>7, <1>8 DEF TailOK
<1>10. RingLeads'
  <2>1. pc' # "broadcast" /\ pc # "broadcast"
    BY <1>8
  <2> QED
    BY <2>1 DEF RingsOK, RingLeads, Newest
<1>11. flows' \in Seq(EventType) /\ Len(flows') <= RingSize
  BY <1>2, <1>3, RingTypes DEF RingsOK
<1> QED
  BY <1>9, <1>10, <1>11 DEF RingsOK

\* A readline that returns nothing, or raises, leaves the count.
LEMMA ReadKeeps ==
  ASSUME FilesOK, TailOK, RingsOK, ReadLine
  PROVE  TailOK' /\ RingsOK'
<1>1. /\ pc = "read" /\ UNCHANGED <<seen, inode, handle, alerts, sent>>
  BY DEF ReadLine
<1>2. CASE Pause
  <2>1. pc' = "stat" /\ UNCHANGED <<at, pos, event, flows, passed>>
    BY <1>2 DEF Pause
  <2>2. RingsOK'
    BY <1>1, <2>1, RingsKept DEF ringVars
  <2> QED
    BY <1>1, <2>1, <2>2 DEF TailOK
<1>3. CASE \E n \in at + 1..Len(files[handle]) : Take(Upto(n))
  BY <1>1, <1>3, TakeKeeps
<1> QED
  BY <1>2, <1>3 DEF ReadLine

\* The alert in hand goes to the ring before any stream has it.
LEMMA AppendKeeps ==
  ASSUME TailOK, RingsOK, AppendAlert
  PROVE  TailOK' /\ RingsOK'
<1>1. /\ pc = "append" /\ pc' = "broadcast" /\ alerts' = Newest(Append(alerts, event))
      /\ UNCHANGED <<seen, inode, handle, at, pos, event, passed, flows, sent>>
  BY DEF AppendAlert
<1>2. event \in EventType /\ handle # NoFile /\ sent \in Seq(EventType)
  BY <1>1 DEF TailOK, RingsOK
<1>3. alerts = Newest(sent)
  BY <1>1 DEF RingsOK, RingLeads
<1>4. alerts' = Newest(Append(sent, event))
  BY <1>1, <1>2, <1>3, NewestOfNewest
<1>5. RingLeads'
  BY <1>1, <1>4 DEF RingLeads, Newest
<1>6. alerts' \in Seq(EventType) /\ Len(alerts') <= RingSize
  BY <1>1, <1>2, RingTypes DEF RingsOK
<1>7. TailOK'
  BY <1>1, <1>2 DEF TailOK
<1> QED
  BY <1>1, <1>5, <1>6, <1>7 DEF RingsOK

\* A broadcast adds the alert to the queue of every stream that stays listed.
LEMMA BroadcastKeeps ==
  ASSUME TailOK, RingsOK, StreamsOK, Broadcast
  PROVE  TailOK' /\ RingsOK' /\ StreamsOK'
<1>1. /\ pc = "broadcast" /\ pc' = "read" /\ sent' = Append(sent, event)
      /\ clients' = {c \in clients : HasRoom(c)}
      /\ queue' = [c \in Streams |-> IF c \in clients /\ HasRoom(c)
                                     THEN Append(queue[c], event) ELSE queue[c]]
      /\ UNCHANGED <<seen, inode, handle, at, pos, event, passed, alerts, flows, open,
                     past>>
  BY DEF Broadcast, StillListed, ringVars
<1>2. event \in EventType /\ handle # NoFile /\ sent \in Seq(EventType)
  BY <1>1 DEF TailOK, RingsOK
<1>3. sent' \in Seq(EventType) /\ Len(sent') = Len(sent) + 1 /\ Len(sent) \in Nat
  BY <1>1, <1>2, AppendElements, LenProperties
<1>4. TailOK'
  BY <1>1, <1>2 DEF TailOK
<1>5. RingLeads'
  BY <1>1 DEF RingsOK, RingLeads, Newest
<1>6. RingsOK'
  BY <1>1, <1>3, <1>5 DEF RingsOK
<1>7. ASSUME NEW c \in Streams
      PROVE  queue'[c] \in Seq(EventType) /\ Len(queue'[c]) <= QueueSize
  <2>1. queue[c] \in Seq(EventType) /\ Len(queue[c]) <= QueueSize /\ Len(queue[c]) \in Nat
    BY LenProperties DEF StreamsOK
  <2>2. CASE c \in clients /\ HasRoom(c)
    <3>1. queue'[c] = Append(queue[c], event) /\ Len(queue[c]) < QueueSize
      BY <1>1, <2>2 DEF HasRoom
    <3>2. queue'[c] \in Seq(EventType) /\ Len(queue'[c]) = Len(queue[c]) + 1
      BY <1>2, <2>1, <3>1, AppendElements
    <3> QED
      BY <2>1, <3>1, <3>2, LimitsAssumption
  <2>3. CASE ~(c \in clients /\ HasRoom(c))
    BY <1>1, <2>1, <2>3
  <2> QED
    BY <2>2, <2>3
<1>8. queue' \in [Streams -> Seq(EventType)]
  BY <1>1, <1>7
<1>9. ASSUME NEW c \in clients'
      PROVE  /\ past'[c] <= Len(sent')
             /\ queue'[c] = SubSeq(sent', past'[c] + 1, Len(sent'))
  <2> DEFINE m == past[c] + 1
  <2>1. c \in clients /\ HasRoom(c) /\ c \in Streams
    BY <1>1 DEF StreamsOK
  <2>2. past[c] \in Nat /\ past[c] <= Len(sent)
    BY <2>1 DEF StreamsOK
  <2>3. queue[c] = SubSeq(sent, m, Len(sent))
    BY <2>1 DEF StreamsOK, ListedMissNothing
  <2>4. m \in 1..(Len(sent) + 1) /\ past'[c] + 1 = m
    BY <1>1, <1>3, <2>2
  <2>5. queue'[c] = Append(queue[c], event)
    BY <1>1, <2>1
  <2> HIDE DEF m
  <2>6. queue'[c] = SubSeq(sent', m, Len(sent'))
    BY <1>1, <1>2, <2>3, <2>4, <2>5, FromAppend
  <2>7. past'[c] <= Len(sent')
    BY <1>1, <1>3, <2>2
  <2> QED
    BY <2>4, <2>6, <2>7
<1>10. clients' \subseteq clients
  BY <1>1
<1>11. IsFiniteSet(clients') /\ Cardinality(clients') <= MaxClients
  <2>1. IsFiniteSet(clients') /\ Cardinality(clients') <= Cardinality(clients)
    BY <1>10, FS_Subset DEF StreamsOK
  <2>2. Cardinality(clients') \in Nat /\ Cardinality(clients) \in Nat
    BY <2>1, FS_CardinalityType DEF StreamsOK
  <2> QED
    BY <2>1, <2>2, LimitsAssumption DEF StreamsOK
<1>12. ListedMissNothing'
  BY <1>9 DEF ListedMissNothing
<1>13. StreamsOK'
  BY <1>1, <1>7, <1>8, <1>9, <1>10, <1>11, <1>12 DEF StreamsOK
<1> QED
  BY <1>4, <1>6, <1>13

-----------------------------------------------------------------------------
(* The streams.                                                            *)

\* A stream that connects owes nothing and is owed nothing.
LEMMA ConnectKeeps ==
  ASSUME RingsOK, StreamsOK, NEW c \in Streams, Connect(c)
  PROVE  StreamsOK'
<1>1. /\ Cardinality(clients) < MaxClients
      /\ clients' = clients \cup {c} /\ open' = open \cup {c}
      /\ queue' = [queue EXCEPT ![c] = <<>>]
      /\ past' = [past EXCEPT ![c] = Len(sent)]
      /\ sent' = sent /\ c \notin open
  BY DEF Connect
<1>2. sent \in Seq(EventType) /\ Len(sent) \in Nat
  BY LenProperties DEF RingsOK
<1>3. <<>> \in Seq(EventType) /\ Len(<<>>) = 0
  BY EmptySeq
<1>4. IsFiniteSet(clients') /\ Cardinality(clients') <= MaxClients
  <2>1. /\ IsFiniteSet(clients')
        /\ Cardinality(clients') \in {Cardinality(clients), Cardinality(clients) + 1}
    BY <1>1, FS_AddElement DEF StreamsOK
  <2>2. Cardinality(clients) \in Nat
    BY FS_CardinalityType DEF StreamsOK
  <2> QED
    BY <1>1, <2>1, <2>2, LimitsAssumption
<1>5. ASSUME NEW d \in clients'
      PROVE  /\ past'[d] <= Len(sent')
             /\ queue'[d] = SubSeq(sent', past'[d] + 1, Len(sent'))
  <2>1. CASE d = c
    <3>1. past'[d] = Len(sent) /\ queue'[d] = <<>>
      BY <1>1, <2>1 DEF StreamsOK
    <3>2. SubSeq(sent, Len(sent) + 1, Len(sent)) = <<>>
      BY <1>2, SubSeqEmpty
    <3>3. sent' = sent
      BY <1>1
    <3> QED
      BY <1>2, <3>1, <3>2, <3>3
  <2>2. CASE d # c
    <3>1. d \in clients /\ d \in Streams
      BY <1>1, <2>2 DEF StreamsOK
    <3>2. past'[d] = past[d] /\ queue'[d] = queue[d]
      BY <1>1, <2>2, <3>1 DEF StreamsOK
    <3> QED
      BY <1>1, <3>1, <3>2 DEF StreamsOK, ListedMissNothing
  <2> QED
    BY <2>1, <2>2
<1>6. ASSUME NEW d \in Streams
      PROVE  Len(queue'[d]) <= QueueSize
  BY <1>1, <1>3, LimitsAssumption DEF StreamsOK
<1>7. /\ queue' \in [Streams -> Seq(EventType)]
      /\ past' \in [Streams -> Nat]
  BY <1>1, <1>2, <1>3 DEF StreamsOK
<1>8. ListedMissNothing'
  BY <1>5 DEF ListedMissNothing
<1>9. clients' \subseteq open' /\ open' \subseteq Streams
  BY <1>1 DEF StreamsOK
<1> QED
  BY <1>4, <1>5, <1>6, <1>7, <1>8, <1>9 DEF StreamsOK

\* What a stream takes from its queue it has taken of what was broadcast.
LEMMA DeliverKeeps ==
  ASSUME RingsOK, StreamsOK, NEW c \in Streams, Deliver(c)
  PROVE  StreamsOK'
<1>1. /\ queue[c] # <<>> /\ queue' = [queue EXCEPT ![c] = Tail(queue[c])]
      /\ past' = [past EXCEPT ![c] = past[c] + 1]
      /\ UNCHANGED <<clients, open, sent>>
  BY DEF Deliver
<1>2. sent \in Seq(EventType) /\ Len(sent) \in Nat
  BY LenProperties DEF RingsOK
<1>3. /\ queue[c] \in Seq(EventType) /\ Len(queue[c]) \in Nat \ {0}
      /\ Len(queue[c]) <= QueueSize
  BY <1>1, EmptySeq DEF StreamsOK
<1>4. Tail(queue[c]) \in Seq(EventType) /\ Len(Tail(queue[c])) = Len(queue[c]) - 1
  BY <1>1, <1>3, HeadTailProperties
<1>5. /\ queue' \in [Streams -> Seq(EventType)] /\ past' \in [Streams -> Nat]
  BY <1>1, <1>4 DEF StreamsOK
<1>6. ASSUME NEW d \in Streams
      PROVE  Len(queue'[d]) <= QueueSize
  <2>1. CASE d = c
    BY <1>1, <1>3, <1>4, <2>1, LimitsAssumption DEF StreamsOK
  <2>2. CASE d # c
    BY <1>1, <2>2 DEF StreamsOK
  <2> QED
    BY <2>1, <2>2
<1>7. ASSUME NEW d \in clients
      PROVE  /\ past'[d] <= Len(sent)
             /\ queue'[d] = SubSeq(sent, past'[d] + 1, Len(sent))
  <2>1. /\ d \in Streams /\ past[d] \in Nat /\ past[d] <= Len(sent)
        /\ queue[d] = SubSeq(sent, past[d] + 1, Len(sent))
    BY DEF StreamsOK, ListedMissNothing
  <2>2. CASE d = c
    <3> DEFINE m == past[d] + 1
    <3>1. m \in Nat \ {0}
      BY <2>1
    <3>2. Len(queue[d]) = IF m <= Len(sent) THEN Len(sent) - m + 1 ELSE 0
      <4>1. queue[d] = SubSeq(sent, m, Len(sent))
        BY <2>1
      <4> HIDE DEF m
      <4> QED
        BY <1>2, <3>1, <4>1, FromElements
    <3>3. m \in 1..Len(sent) /\ Len(sent) \in m..Len(sent)
      BY <1>2, <1>3, <2>2, <3>1, <3>2
    <3>4. Tail(queue[d]) = SubSeq(sent, m + 1, Len(sent))
      <4> HIDE DEF m
      <4>1. Tail(SubSeq(sent, m, Len(sent))) = SubSeq(sent, m + 1, Len(sent))
        BY <1>2, <3>3, HeadTailOfSubSeq
      <4> QED
        BY <2>1, <4>1 DEF m
    <3>5. past'[d] = past[d] + 1 /\ queue'[d] = Tail(queue[d])
      BY <1>1, <2>2 DEF StreamsOK
    <3>6. past'[d] + 1 = m + 1
      BY <2>1, <3>5
    <3>7. past'[d] <= Len(sent)
      BY <1>2, <2>1, <3>3, <3>5
    <3> HIDE DEF m
    <3> QED
      BY <3>4, <3>5, <3>6, <3>7
  <2>3. CASE d # c
    <3>1. past'[d] = past[d] /\ queue'[d] = queue[d]
      BY <1>1, <2>1, <2>3 DEF StreamsOK
    <3> QED
      BY <2>1, <3>1
  <2> QED
    BY <2>2, <2>3
<1>8. ListedMissNothing'
  BY <1>1, <1>7 DEF ListedMissNothing
<1> QED
  BY <1>1, <1>5, <1>6, <1>7, <1>8 DEF StreamsOK

\* A stream that leaves takes its place with it.
LEMMA LeaveKeeps ==
  ASSUME StreamsOK, NEW c \in Streams, Leave(c)
  PROVE  StreamsOK'
<1>1. /\ clients' = clients \ {c} /\ open' = open \ {c}
      /\ queue' = [queue EXCEPT ![c] = <<>>]
      /\ past' = [past EXCEPT ![c] = 0] /\ sent' = sent
  BY DEF Leave
<1>2. <<>> \in Seq(EventType) /\ Len(<<>>) = 0
  BY EmptySeq
<1>3. IsFiniteSet(clients') /\ Cardinality(clients') <= MaxClients
  <2>1. IsFiniteSet(clients') /\ Cardinality(clients') <= Cardinality(clients)
    BY <1>1, FS_Subset DEF StreamsOK
  <2>2. Cardinality(clients') \in Nat /\ Cardinality(clients) \in Nat
    BY <2>1, FS_CardinalityType DEF StreamsOK
  <2> QED
    BY <2>1, <2>2, LimitsAssumption DEF StreamsOK
<1>4. /\ past' \in [Streams -> Nat]
      /\ \A d \in Streams \ {c} : queue'[d] = queue[d] /\ past'[d] = past[d]
  BY <1>1 DEF StreamsOK
<1>5. /\ queue' \in [Streams -> Seq(EventType)]
      /\ \A d \in Streams : Len(queue'[d]) <= QueueSize
  BY <1>1, <1>2, LimitsAssumption DEF StreamsOK
<1>6. ListedMissNothing'
  BY <1>1, <1>4 DEF ListedMissNothing, StreamsOK
<1>7. \A d \in clients' : past'[d] <= Len(sent')
  BY <1>1, <1>4 DEF StreamsOK
<1>8. clients' \subseteq open' /\ open' \subseteq Streams
  BY <1>1 DEF StreamsOK
<1> QED
  BY <1>3, <1>4, <1>5, <1>6, <1>7, <1>8 DEF StreamsOK

-----------------------------------------------------------------------------
(* A process that begins, and the invariant.                               *)

\* Of nothing there is nothing too much.
LEMMA Nothing ==
  /\ <<>> \in Seq(EventType) /\ Len(<<>>) = 0 /\ Newest(<<>>) = <<>>
  /\ IsFiniteSet({}) /\ Cardinality({}) = 0
  /\ 0 \in 0..MaxEvents /\ 0 \in 0..MaxTruncations /\ 0 \in 0..MaxRestarts
  /\ 0 <= RingSize /\ 0 <= QueueSize /\ 0 <= MaxClients
<1>1. <<>> \in Seq(EventType) /\ Len(<<>>) = 0
  BY EmptySeq
<1>2. Newest(<<>>) = <<>>
  BY <1>1, LimitsAssumption DEF Newest
<1> QED
  BY <1>1, <1>2, FS_EmptySet, LimitsAssumption

\* A process begins with nothing read and nobody listening.
LEMMA Initially == Init => IInv
<1> SUFFICES ASSUME Init PROVE IInv
  OBVIOUS
<1>1. Fresh
  BY DEF Init
<1>2. FilesOK
  <2>1. 1 \in Inodes
    BY LimitsAssumption DEF Inodes
  <2>2. files \in [Inodes -> Seq(Byte)] /\ rest \in Seq(Byte)
    BY EmptySeq DEF Init
  <2> QED
    BY <2>1, <2>2, Nothing DEF Init, FilesOK
<1>3. TailOK
  BY <1>1, Nothing DEF Fresh, TailOK
<1>4. RingsOK
  BY <1>1, Nothing DEF Fresh, RingsOK, RingLeads
<1>5. StreamsOK
  BY <1>1, Nothing DEF Fresh, StreamsOK, ListedMissNothing
<1> QED
  BY <1>2, <1>3, <1>4, <1>5 DEF IInv

\* The supervisor's restart: a fresh process before the same files.
LEMMA RestartKeeps ==
  ASSUME IInv, Restart
  PROVE  IInv'
<1>1. FilesOK'
  <2>1. restarts' \in 0..MaxRestarts
    BY LimitsAssumption DEF Restart, IInv, FilesOK
  <2> QED
    BY <2>1, FilesKept DEF IInv, Restart
<1>2. TailOK'
  BY Nothing DEF Restart, TailOK
<1>3. RingLeads'
  BY Nothing DEF Restart, RingLeads, Newest
<1>4. RingsOK'
  BY <1>3, Nothing DEF Restart, RingsOK
<1>5. StreamsOK'
  BY Nothing DEF Restart, StreamsOK, ListedMissNothing
<1> QED
  BY <1>1, <1>2, <1>4, <1>5 DEF IInv

LEMMA InvStep == IInv /\ [Next]_vars => IInv'
<1> SUFFICES ASSUME IInv, [Next]_vars PROVE IInv'
  OBVIOUS
<1>1. CASE Stat \/ Open \/ ReadLine \/ AppendAlert
  <2>1. TailOK' /\ RingsOK'
    BY <1>1, SeekKeeps, ReadKeeps, AppendKeeps DEF IInv
  <2>2. FilesOK' /\ StreamsOK'
    BY <1>1, FilesKept, StreamsKept
       DEF IInv, Stat, Open, ReadLine, AppendAlert, bounds, FilesOK
  <2> QED
    BY <2>1, <2>2 DEF IInv
<1>2. CASE Broadcast
  <2>1. FilesOK'
    BY <1>2, FilesKept DEF IInv, Broadcast, bounds, FilesOK
  <2> QED
    BY <1>2, <2>1, BroadcastKeeps DEF IInv
<1>3. CASE World
  <2>1. UNCHANGED <<tailVars, ringVars, streamVars, sent>>
    BY <1>3 DEF World, Write, WriteRest, Rotate, Create, Truncate
  <2>2. TailOK' /\ RingsOK' /\ StreamsOK'
    BY <2>1, TailKept, RingsKept, StreamsKept DEF IInv, tailVars
  <2> QED
    BY <1>3, <2>2, WorldKeeps DEF IInv
<1>4. CASE \E c \in Streams : Connect(c) \/ Deliver(c) \/ Leave(c)
  <2>1. PICK c \in Streams : Connect(c) \/ Deliver(c) \/ Leave(c)
    BY <1>4
  <2>2. UNCHANGED <<fileVars, tailVars, ringVars, sent, bounds>>
    BY <2>1 DEF Connect, Deliver, Leave
  <2>3. FilesOK' /\ TailOK' /\ RingsOK'
    BY <2>2, FilesKept, TailKept, RingsKept DEF IInv, tailVars, bounds, FilesOK
  <2> QED
    BY <2>1, <2>3, ConnectKeeps, DeliverKeeps, LeaveKeeps DEF IInv
<1>5. CASE Restart
  BY <1>5, RestartKeeps
<1>6. CASE UNCHANGED vars
  <2>1. UNCHANGED <<fileVars, tailVars, ringVars, streamVars, sent, bounds>>
    BY <1>6 DEF vars
  <2> QED
    BY <2>1, FilesKept, TailKept, RingsKept, StreamsKept
       DEF IInv, tailVars, bounds, FilesOK
<1> QED
  BY <1>1, <1>2, <1>3, <1>4, <1>5, <1>6 DEF Next, TailLoop

-----------------------------------------------------------------------------
(* The theorems.                                                           *)

\* The strengthened invariant holds in every state.
THEOREM Invariant == Spec => []IInv
BY Initially, InvStep, PTL DEF Spec

\* The type invariant: rings, queues and the list of clients keep their limits.
THEOREM TypeCorrect == Spec => []TypeOK
<1>1. IInv => TypeOK
  BY DEF IInv, FilesOK, TailOK, RingsOK, StreamsOK, TypeOK
<1> QED
  BY <1>1, Invariant, PTL

\* _broadcast and _stream: a stream misses nothing while it is listed.
THEOREM ListedNeverMiss == Spec => []ListedMissNothing
<1>1. IInv => ListedMissNothing
  BY DEF IInv, StreamsOK
<1> QED
  BY <1>1, Invariant, PTL

\* tail_loop puts an alert in the ring before it broadcasts it.
THEOREM RingAlwaysLeads == Spec => []RingLeads
<1>1. IInv => RingLeads
  BY DEF IInv, RingsOK
<1> QED
  BY <1>1, Invariant, PTL
=============================================================================
