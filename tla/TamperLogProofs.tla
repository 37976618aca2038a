-------------------------- MODULE TamperLogProofs --------------------------
(***************************************************************************)
(* Proofs about TamperLog for every number of handlers, every length of    *)
(* the ring, and every bound on operations, faults and starts.             *)
(***************************************************************************)
EXTENDS TamperLog, SequenceTheorems, FiniteSetTheorems, NaturalsInduction,
        WellFoundedInduction, TLAPS

-----------------------------------------------------------------------------
(* The invariant.                                                          *)

Line == [n : Nat, kind : Kinds, ok : BOOLEAN]
Busy(t) == pc[t] # "idle"

TypesOK ==
  /\ file \in Seq(Line) /\ tail \in {"closed", "open"}
  /\ pc \in [All -> {"idle", "device", "log", "write", "reply"}]
  /\ doing \in [All -> Line]
  /\ begun \in Nat /\ faults \in Nat
  /\ changed \subseteq Line /\ IsFiniteSet(changed)
  /\ written \subseteq Line /\ IsFiniteSet(written)
  /\ acked \subseteq Line

\* Operations have numbers of their own: one that a handler is busy with has
\* not been answered, and not been written while its write is to come.
NumbersOK ==
  /\ \A t \in All : Busy(t) => doing[t].n \in 1..begun
  /\ \A t, u \in All : Busy(t) /\ Busy(u) /\ t # u => doing[t].n # doing[u].n
  /\ \A e \in changed \cup acked \cup written : e.n <= begun
  /\ Junk \notin written
  /\ \A t \in All : Busy(t) => \A e \in acked : e.n # doing[t].n
  /\ \A t \in All : pc[t] \in {"device", "log", "write"} =>
       \A e \in written : e.n # doing[t].n

\* A last line without its end was left by a write that failed.
TailOK == tail = "open" => file # <<>> /\ file[Len(file)] \notin written

\* Every entry that was written and is lost was paid for with a fault; a torn
\* line is one that has been paid for and not yet lost.
Lost == written \ InFile
Torn == IF tail = "open" THEN 1 ELSE 0
LostOK == Cardinality(Lost) + Torn <= faults

\* Every change that the log owes and that is past its log(), but not written,
\* was paid for with a fault.
PastLog(e) == e \in acked \/ \E t \in All : pc[t] = "reply" /\ doing[t] = e
Unwritten == {e \in changed : Owed(e) /\ PastLog(e) /\ e \notin written}
UnwrittenOK == Cardinality(Unwritten) <= faults

IInv == TypesOK /\ NumbersOK /\ TailOK /\ LostOK /\ UnwrittenOK

-----------------------------------------------------------------------------
(* The file.                                                               *)

\* What stands in the file.
LEMMA InFileElements ==
  ASSUME NEW x, file \in Seq(Line)
  PROVE  x \in InFile <=> x # Junk /\ \E i \in 1..Len(file) : file[i] = x
<1>1. DOMAIN file = 1..Len(file)
  BY LenProperties
<1> QED
  BY <1>1 DEF InFile

\* A line that is joined to the file costs at most the one it runs on from.
LEMMA Joins ==
  ASSUME file \in Seq(Line), tail \in {"closed", "open"}, TailOK, NEW x \in Line,
         file' = Joined(file, x)
  PROVE  /\ file' \in Seq(Line) /\ file' # <<>>
         /\ \A e \in written : e \in InFile => e \in InFile'
         /\ tail = "closed" => /\ file'[Len(file')] = x
                               /\ x # Junk => x \in InFile'
         /\ tail = "open" => file'[Len(file')] = Junk
<1>1. Junk \in Line
  BY DEF Junk, Line, Kinds
<1>2. Len(file) \in Nat
  BY LenProperties
<1>3. CASE tail = "closed"
  <2>1. file' = Append(file, x)
    BY <1>3 DEF Joined
  <2>2. /\ file' \in Seq(Line) /\ file' # <<>> /\ Len(file') = Len(file) + 1
        /\ \A i \in 1..Len(file) : file'[i] = file[i]
        /\ file'[Len(file) + 1] = x
    BY <2>1, AppendProperties
  <2>3. DOMAIN file' = 1..Len(file') /\ DOMAIN file = 1..Len(file)
    BY <2>2, LenProperties
  <2>4. \A e : e \in InFile => e \in InFile'
    BY <1>2, <2>2, <2>3 DEF InFile
  <2>5. x # Junk => x \in InFile'
    BY <1>2, <2>2, <2>3 DEF InFile
  <2> QED
    BY <1>3, <2>2, <2>4, <2>5
<1>4. CASE tail = "open"
  <2>1. /\ file # <<>> /\ file[Len(file)] \notin written /\ Len(file) \in 1..Len(file)
    BY <1>2, <1>4, EmptySeq DEF TailOK
  <2>2. file' = [file EXCEPT ![Len(file)] = Junk]
    BY <1>4 DEF Joined
  <2>3. /\ file' \in Seq(Line) /\ Len(file') = Len(file)
        /\ \A i \in 1..Len(file) : file'[i] = IF i = Len(file) THEN Junk ELSE file[i]
    BY <1>1, <2>1, <2>2, ExceptSeq
  <2>4. DOMAIN file' = 1..Len(file) /\ DOMAIN file = 1..Len(file)
    BY <2>3, LenProperties
  <2>5. \A e \in written : e \in InFile => e \in InFile'
    BY <2>1, <2>3, <2>4 DEF InFile
  <2>6. file' # <<>>
    BY <2>1, <2>3, EmptySeq
  <2> QED
    BY <1>4, <2>1, <2>3, <2>5, <2>6
<1> QED
  BY <1>3, <1>4

-----------------------------------------------------------------------------
(* Counting.                                                               *)

\* A set that grows by one element at most is larger by one at most.
LEMMA OneMore ==
  ASSUME NEW S, IsFiniteSet(S), NEW T, NEW x, T \subseteq S \cup {x}
  PROVE  /\ IsFiniteSet(T) /\ Cardinality(T) <= Cardinality(S) + 1
         /\ Cardinality(T) \in Nat /\ Cardinality(S) \in Nat
         /\ T \subseteq S => Cardinality(T) <= Cardinality(S)
<1>1. /\ IsFiniteSet(S \cup {x})
      /\ Cardinality(S \cup {x}) \in {Cardinality(S), Cardinality(S) + 1}
  BY FS_AddElement
<1>2. IsFiniteSet(T) /\ Cardinality(T) <= Cardinality(S \cup {x})
  BY <1>1, FS_Subset
<1>3. Cardinality(T) \in Nat /\ Cardinality(S) \in Nat
  BY <1>2, FS_CardinalityType
<1>4. T \subseteq S => Cardinality(T) <= Cardinality(S)
  BY FS_Subset
<1> QED
  BY <1>1, <1>2, <1>3, <1>4

LEMMA Finite ==
  ASSUME TypesOK
  PROVE  /\ IsFiniteSet(Lost) /\ Cardinality(Lost) \in Nat
         /\ IsFiniteSet(Unwritten) /\ Cardinality(Unwritten) \in Nat
<1>1. Lost \subseteq written /\ Unwritten \subseteq changed
  BY DEF Lost, Unwritten
<1>2. IsFiniteSet(Lost) /\ IsFiniteSet(Unwritten)
  BY <1>1, FS_Subset DEF TypesOK
<1> QED
  BY <1>2, FS_CardinalityType

\* With one fault more, one entry more may be missing.
LEMMA LostKept ==
  ASSUME TypesOK, LostOK, Lost' \subseteq Lost, faults' \in Nat,
         faults' - faults >= Torn' - Torn
  PROVE  LostOK'
<1>1. Cardinality(Lost') <= Cardinality(Lost) /\ Cardinality(Lost') \in Nat
  BY Finite, OneMore
<1>2. Torn \in Nat /\ Torn' \in Nat /\ faults \in Nat
  BY DEF Torn, TypesOK
<1>3. Cardinality(Lost) \in Nat /\ Cardinality(Lost) + Torn <= faults
  BY Finite DEF LostOK
<1>4. \A l, k, o, p, f, g \in Nat :
        l + o <= f /\ k <= l /\ g - f >= p - o => k + p <= g
  OBVIOUS
<1>5. Cardinality(Lost') + Torn' <= faults'
  BY <1>1, <1>2, <1>3, <1>4
<1> QED
  BY <1>5 DEF LostOK

LEMMA UnwrittenKept ==
  ASSUME TypesOK, UnwrittenOK, faults' \in Nat, NEW x,
         \/ Unwritten' \subseteq Unwritten /\ faults' >= faults
         \/ Unwritten' \subseteq Unwritten \cup {x} /\ faults' = faults + 1
  PROVE  UnwrittenOK'
<1>1. faults \in Nat
  BY DEF TypesOK
<1>2. CASE Unwritten' \subseteq Unwritten /\ faults' >= faults
  <2>1. Cardinality(Unwritten') <= Cardinality(Unwritten) /\ Cardinality(Unwritten') \in Nat
    BY <1>2, Finite, OneMore
  <2> QED
    BY <1>1, <1>2, <2>1, Finite DEF UnwrittenOK
<1>3. CASE Unwritten' \subseteq Unwritten \cup {x} /\ faults' = faults + 1
  <2>1. /\ Cardinality(Unwritten') <= Cardinality(Unwritten) + 1
        /\ Cardinality(Unwritten') \in Nat
    BY <1>3, Finite, OneMore
  <2> QED
    BY <1>1, <1>3, <2>1, Finite DEF UnwrittenOK
<1> QED
  BY <1>2, <1>3

-----------------------------------------------------------------------------
(* The steps.                                                              *)

\* Where the file stays as it is, so does what is said of it.
LEMMA FileSame ==
  ASSUME TailOK, UNCHANGED <<file, tail, written>>
  PROVE  TailOK' /\ Lost' = Lost /\ Torn' = Torn
BY DEF TailOK, Lost, InFile, Torn

\* A handler or a start takes the next number.
LEMMA NewNumber ==
  ASSUME IInv, NEW t \in All, NEW kind \in Kinds, NEW where \in {"device", "log"},
         begun' = begun + 1,
         doing' = [doing EXCEPT ![t] = [n |-> begun + 1, kind |-> kind, ok |-> TRUE]],
         pc' = [pc EXCEPT ![t] = where],
         UNCHANGED <<file, tail, changed, acked, written, faults>>
  PROVE  IInv'
<1>1. /\ TypesOK /\ begun \in Nat
      /\ \A u \in All \ {t} : doing'[u] = doing[u] /\ pc'[u] = pc[u]
      /\ pc'[t] = where /\ doing'[t].n = begun + 1
  BY DEF IInv, TypesOK
<1>2. TypesOK'
  BY <1>1 DEF TypesOK, Line
<1>3. NumbersOK'
  <2>1. \A u \in All \ {t} : Busy(u)' = Busy(u)
    BY <1>1 DEF Busy
  <2>2. \A e \in changed \cup acked \cup written : e.n \in Nat /\ e.n <= begun
    BY <1>1 DEF IInv, NumbersOK, TypesOK, Line
  <2>3. \A u \in All \ {t} : Busy(u) => doing[u].n \in 1..begun
    BY DEF IInv, NumbersOK
  <2>4. \A u \in All : Busy(u)' => doing'[u].n \in 1..begun'
    BY <1>1, <2>1, <2>3
  <2>5. \A u, v \in All : Busy(u)' /\ Busy(v)' /\ u # v => doing'[u].n # doing'[v].n
    BY <1>1, <2>1, <2>3 DEF IInv, NumbersOK
  <2>6. \A e \in changed' \cup acked' \cup written' : e.n <= begun'
    BY <1>1, <2>2
  <2>7. \A u \in All : Busy(u)' => \A e \in acked' : e.n # doing'[u].n
    BY <1>1, <2>1, <2>2 DEF IInv, NumbersOK
  <2>8. \A u \in All : pc'[u] \in {"device", "log", "write"} =>
          \A e \in written' : e.n # doing'[u].n
    BY <1>1, <2>2 DEF IInv, NumbersOK
  <2>9. Junk \notin written'
    BY DEF IInv, NumbersOK
  <2> QED
    BY <2>4, <2>5, <2>6, <2>7, <2>8, <2>9 DEF NumbersOK
<1>4. TailOK' /\ LostOK'
  <2>1. TailOK' /\ Lost' = Lost /\ Torn' = Torn
    BY FileSame DEF IInv
  <2> QED
    BY <2>1 DEF IInv, LostOK
<1>5. UnwrittenOK'
  <2>1. Unwritten' \subseteq Unwritten
    BY <1>1 DEF Unwritten, PastLog
  <2> QED
    BY <1>1, <2>1, UnwrittenKept DEF IInv, TypesOK
<1> QED
  BY <1>2, <1>3, <1>4, <1>5 DEF IInv

\* A handler goes on with its operation: the numbers are as before.
LEMMA NumbersKept ==
  ASSUME TypesOK, NumbersOK, NEW t \in All, Busy(t), begun' = begun,
         \A u \in All : doing'[u].n = doing[u].n,
         NEW where \in {"log", "write", "reply"},
         pc' = [pc EXCEPT ![t] = where], UNCHANGED <<acked, written>>,
         pc[t] \in {"device", "log", "write"},
         \A e \in changed' : e \in changed \/ e.n = doing[t].n
  PROVE  NumbersOK'
<1>1. \A u \in All \ {t} : pc'[u] = pc[u] /\ Busy(u)' = Busy(u)
  BY DEF TypesOK, Busy
<1>2. \A u \in All : Busy(u)' <=> Busy(u)
  BY <1>1 DEF TypesOK, Busy
<1>3. \A u \in All : pc'[u] \in {"device", "log", "write"} =>
                     pc[u] \in {"device", "log", "write"}
  BY <1>1
<1>4. doing[t].n <= begun
  BY DEF NumbersOK, TypesOK
<1>5. \A e \in changed' \cup acked' \cup written' : e.n <= begun'
  BY <1>4 DEF NumbersOK
<1>6. /\ \A u \in All : Busy(u)' => doing'[u].n \in 1..begun'
      /\ \A u, v \in All : Busy(u)' /\ Busy(v)' /\ u # v => doing'[u].n # doing'[v].n
      /\ \A u \in All : Busy(u)' => \A e \in acked' : e.n # doing'[u].n
  BY <1>2 DEF NumbersOK
<1>7. \A u \in All : pc'[u] \in {"device", "log", "write"} =>
        \A e \in written' : e.n # doing'[u].n
  BY <1>3 DEF NumbersOK
<1> QED
  BY <1>5, <1>6, <1>7 DEF NumbersOK

\* The device answers.  A change that the log owes is not past its log; no one
\* else is busy with it, and no one has been answered for it.
LEMMA DeviceKeeps ==
  ASSUME IInv, NEW t \in All, Device(t)
  PROVE  IInv'
<1>1. PICK ok \in BOOLEAN, effect \in BOOLEAN :
        /\ doing' = [doing EXCEPT ![t].ok = ok]
        /\ changed' = IF effect THEN changed \cup {[doing[t] EXCEPT !.ok = ok]}
                      ELSE changed
        /\ Goto(t, IF LoggedAfter(doing[t].kind, ok) THEN "log" ELSE "reply")
  BY DEF Device
<1>2. /\ pc[t] = "device" /\ TypesOK /\ doing[t] \in Line
      /\ UNCHANGED <<file, tail, begun, acked, written, faults>>
  BY DEF Device, IInv, TypesOK
<1>3. /\ doing'[t] = [doing[t] EXCEPT !.ok = ok]
      /\ \A u \in All \ {t} : doing'[u] = doing[u] /\ pc'[u] = pc[u]
      /\ pc'[t] = IF LoggedAfter(doing[t].kind, ok) THEN "log" ELSE "reply"
      /\ pc' = [pc EXCEPT ![t] = pc'[t]]
  BY <1>1, <1>2 DEF Goto, TypesOK
<1>4. /\ doing'[t] \in Line /\ doing'[t].n = doing[t].n /\ doing'[t].ok = ok
      /\ doing'[t].kind = doing[t].kind
      /\ changed' = IF effect THEN changed \cup {doing'[t]} ELSE changed
  BY <1>1, <1>2, <1>3 DEF Line
<1>5. TypesOK'
  <2>1. doing' \in [All -> Line]
    BY <1>1, <1>2, <1>4 DEF TypesOK
  <2>2. IsFiniteSet(changed') /\ changed' \subseteq Line
    BY <1>2, <1>4, FS_AddElement DEF TypesOK
  <2>3. pc' \in [All -> {"idle", "device", "log", "write", "reply"}]
    BY <1>1, <1>2 DEF Goto, TypesOK
  <2> QED
    BY <1>2, <2>1, <2>2, <2>3 DEF TypesOK
<1>6. NumbersOK'
  <2>1. \A u \in All : doing'[u].n = doing[u].n
    BY <1>3, <1>4
  <2>2. \A e \in changed' : e \in changed \/ e.n = doing[t].n
    BY <1>1, <1>4
  <2> QED
    BY <1>2, <1>3, <2>1, <2>2, NumbersKept DEF IInv, Busy
<1>7. TailOK' /\ LostOK'
  <2>1. TailOK' /\ Lost' = Lost /\ Torn' = Torn
    BY <1>2, FileSame DEF IInv
  <2> QED
    BY <1>2, <2>1 DEF IInv, LostOK
<1>8. ASSUME NEW e \in Unwritten'
      PROVE  e \in Unwritten
  <2>1. e \in changed' /\ Owed(e) /\ e \notin written
    BY <1>2 DEF Unwritten
  <2>2. CASE e \in acked
    <3>1. e.n # doing[t].n
      BY <1>2, <2>2 DEF IInv, NumbersOK, Busy
    <3>2. e \in changed
      BY <1>1, <1>4, <2>1, <3>1
    <3> QED
      BY <2>1, <2>2, <3>2 DEF Unwritten, PastLog
  <2>3. ASSUME NEW u \in All, pc'[u] = "reply", doing'[u] = e
        PROVE  e \in Unwritten
    <3>1. CASE u = t
      <4>1. e.ok = ok /\ e.kind = doing[t].kind
        BY <1>4, <2>3, <3>1
      <4>2. LoggedAfter(doing[t].kind, ok)
        BY <2>1, <4>1 DEF LoggedAfter, Owed
      <4> QED
        BY <1>3, <2>3, <3>1, <4>2
    <3>2. CASE u # t
      <4>1. pc[u] = "reply" /\ doing[u] = e
        BY <1>3, <2>3, <3>2
      <4>2. e.n # doing[t].n
        BY <1>2, <3>2, <4>1 DEF IInv, NumbersOK, Busy
      <4>3. e \in changed
        BY <1>1, <1>4, <2>1, <4>2
      <4> QED
        BY <2>1, <4>1, <4>3 DEF Unwritten, PastLog
    <3> QED
      BY <3>1, <3>2
  <2> QED
    BY <1>2, <2>2, <2>3 DEF Unwritten, PastLog
<1>9. UnwrittenOK'
  BY <1>2, <1>8, UnwrittenKept DEF IInv, TypesOK
<1> QED
  BY <1>5, <1>6, <1>7, <1>9 DEF IInv

\* The lock and the ring: nothing has reached the file.
LEMMA LogBeginKeeps ==
  ASSUME IInv, NEW t \in All, LogBegin(t)
  PROVE  IInv'
<1>1. /\ pc[t] = "log" /\ pc' = [pc EXCEPT ![t] = "write"]
      /\ UNCHANGED <<file, tail, doing, begun, changed, acked, written, faults>>
  BY DEF LogBegin, Goto
<1>2. TypesOK'
  BY <1>1 DEF IInv, TypesOK
<1>3. NumbersOK'
  BY <1>1, NumbersKept DEF IInv, Busy
<1>4. TailOK' /\ LostOK'
  <2>1. TailOK' /\ Lost' = Lost /\ Torn' = Torn
    BY <1>1, FileSame DEF IInv
  <2> QED
    BY <1>1, <2>1 DEF IInv, LostOK
<1>5. UnwrittenOK'
  <2>1. \A u \in All : pc'[u] = "reply" => pc[u] = "reply"
    BY <1>1 DEF IInv, TypesOK
  <2>2. Unwritten' \subseteq Unwritten
    BY <1>1, <2>1 DEF Unwritten, PastLog
  <2> QED
    BY <1>1, <2>2, UnwrittenKept DEF IInv, TypesOK
<1> QED
  BY <1>2, <1>3, <1>4, <1>5 DEF IInv

\* An entry about to be written is no junk and was not written before.
LEMMA AboutToWrite ==
  ASSUME IInv, NEW t \in All, pc[t] = "write"
  PROVE  doing[t] \in Line /\ doing[t] # Junk /\ doing[t] \notin written
<1>1. doing[t] \in Line /\ doing[t].n \in 1..begun
  BY DEF IInv, TypesOK, NumbersOK, Busy
<1>2. doing[t] # Junk
  BY <1>1 DEF Junk
<1>3. doing[t] \notin written
  BY DEF IInv, NumbersOK
<1> QED
  BY <1>1, <1>2, <1>3

\* A write that comes to its end loses its entry only to a torn line, which is
\* then no longer owed.
LEMMA LogWriteKeeps ==
  ASSUME IInv, NEW t \in All, LogWrite(t)
  PROVE  IInv'
<1>1. /\ pc[t] = "write" /\ pc' = [pc EXCEPT ![t] = "reply"]
      /\ file' = Joined(file, doing[t]) /\ tail' = "closed"
      /\ written' = written \cup {doing[t]}
      /\ UNCHANGED <<doing, begun, changed, acked, faults>>
  BY DEF LogWrite, Goto
<1>2. doing[t] \in Line /\ doing[t] # Junk /\ doing[t] \notin written
  BY <1>1, AboutToWrite
<1>3. /\ file' \in Seq(Line) /\ file' # <<>>
      /\ \A e \in written : e \in InFile => e \in InFile'
      /\ tail = "closed" => doing[t] \in InFile'
  BY <1>1, <1>2, Joins DEF IInv, TypesOK
<1>4. TypesOK'
  <2>1. IsFiniteSet(written') /\ written' \subseteq Line
    BY <1>1, <1>2, FS_AddElement DEF IInv, TypesOK
  <2> QED
    BY <1>1, <1>3, <2>1 DEF IInv, TypesOK
<1>5. NumbersOK'
  <2>1. \A u \in All \ {t} : pc'[u] = pc[u]
    BY <1>1 DEF IInv, TypesOK
  <2>2. pc'[t] = "reply"
    BY <1>1 DEF IInv, TypesOK
  <2>3. \A u \in All : Busy(u)' <=> Busy(u)
    BY <1>1, <2>1, <2>2 DEF Busy
  <2>4. Busy(t) /\ doing[t].n <= begun
    BY <1>1 DEF IInv, NumbersOK, TypesOK, Busy
  <2>5. \A u \in All : pc'[u] \in {"device", "log", "write"} =>
          \A e \in written' : e.n # doing[u].n
    <3> SUFFICES ASSUME NEW u \in All, pc'[u] \in {"device", "log", "write"}
                 PROVE  \A e \in written' : e.n # doing[u].n
      OBVIOUS
    <3>1. u # t /\ pc[u] \in {"device", "log", "write"}
      BY <2>1, <2>2
    <3>2. doing[t].n # doing[u].n
      BY <2>4, <3>1 DEF IInv, NumbersOK, Busy
    <3> QED
      BY <1>1, <3>1, <3>2 DEF IInv, NumbersOK
  <2>6. \A e \in changed' \cup acked' \cup written' : e.n <= begun'
    BY <1>1, <2>4 DEF IInv, NumbersOK
  <2>7. /\ \A u \in All : Busy(u)' => doing'[u].n \in 1..begun'
        /\ \A u, v \in All : Busy(u)' /\ Busy(v)' /\ u # v => doing'[u].n # doing'[v].n
        /\ \A u \in All : Busy(u)' => \A e \in acked' : e.n # doing'[u].n
    BY <1>1, <2>3 DEF IInv, NumbersOK
  <2>8. Junk \notin written'
    BY <1>1, <1>2 DEF IInv, NumbersOK
  <2> QED
    BY <1>1, <2>5, <2>6, <2>7, <2>8 DEF NumbersOK
<1>6. TailOK'
  BY <1>1 DEF TailOK
<1>7. LostOK'
  <2>1. Lost' \subseteq Lost \cup {doing[t]}
    BY <1>1, <1>3 DEF Lost
  <2>2. tail = "closed" => Lost' \subseteq Lost
    BY <1>1, <1>3 DEF Lost
  <2>3. /\ Cardinality(Lost') <= Cardinality(Lost) + 1 /\ Cardinality(Lost') \in Nat
        /\ Cardinality(Lost) \in Nat
        /\ Lost' \subseteq Lost => Cardinality(Lost') <= Cardinality(Lost)
    BY <2>1, Finite, OneMore DEF IInv
  <2>4. Torn' = 0 /\ Torn = (IF tail = "closed" THEN 0 ELSE 1)
    BY <1>1 DEF Torn, IInv, TypesOK
  <2>5. Cardinality(Lost) + Torn <= faults /\ faults \in Nat /\ faults' = faults
    BY <1>1 DEF IInv, LostOK, TypesOK
  <2>6. Cardinality(Lost') + Torn' <= faults'
    BY <2>2, <2>3, <2>4, <2>5
  <2> QED
    BY <2>6 DEF LostOK
<1>8. UnwrittenOK'
  <2>1. ASSUME NEW e \in Unwritten'
        PROVE  e \in Unwritten
    <3>1. /\ e \in changed /\ Owed(e) /\ e \notin written /\ e # doing[t]
      BY <1>1 DEF Unwritten
    <3>2. \A u \in All : pc'[u] = "reply" /\ doing'[u] = e => pc[u] = "reply" /\ doing[u] = e
      BY <1>1, <3>1 DEF IInv, TypesOK
    <3>3. PastLog(e)
      BY <1>1, <3>2 DEF Unwritten, PastLog
    <3> QED
      BY <3>1, <3>3 DEF Unwritten
  <2>2. Unwritten' \subseteq Unwritten /\ faults' \in Nat /\ faults' >= faults
    BY <1>1, <2>1 DEF IInv, TypesOK
  <2> QED
    BY <2>2, UnwrittenKept DEF IInv
<1> QED
  BY <1>4, <1>5, <1>6, <1>7, <1>8 DEF IInv

\* A write that does not come to its end loses nothing that was written, and
\* leaves at most one torn line.
LEMMA PartialKeeps ==
  ASSUME IInv, NEW t \in All, pc[t] = "write", Partial(doing[t]),
         UNCHANGED written, faults' = faults + 1
  PROVE  /\ file' \in Seq(Line) /\ tail' \in {"closed", "open"} /\ faults' \in Nat
         /\ TailOK' /\ LostOK'
<1>1. doing[t] \in Line /\ doing[t] \notin written /\ faults \in Nat
  BY AboutToWrite DEF IInv, TypesOK
<1>2. Junk \in Line /\ Junk \notin written
  BY DEF Junk, Line, Kinds, IInv, NumbersOK
<1>3. faults' \in Nat /\ faults' - faults >= Torn' - Torn
  <2>1. Torn \in {0, 1} /\ Torn' \in {0, 1}
    BY DEF Torn
  <2>2. faults' - faults = 1 /\ faults' \in Nat
    BY <1>1
  <2> QED
    BY <2>1, <2>2
<1>4. CASE UNCHANGED <<file, tail>>
  <2>1. TailOK' /\ Lost' = Lost /\ Torn' = Torn
    BY <1>4, FileSame DEF IInv
  <2>2. LostOK'
    BY <1>3, <2>1, LostKept DEF IInv
  <2> QED
    BY <1>3, <1>4, <2>1, <2>2 DEF IInv, TypesOK
<1>5. ASSUME NEW x \in {Junk, doing[t]}, file' = Joined(file, x), tail' = "open"
      PROVE  file' \in Seq(Line) /\ TailOK' /\ LostOK'
  <2>1. x \in Line /\ x \notin written
    BY <1>1, <1>2
  <2>2. /\ file' \in Seq(Line) /\ file' # <<>>
        /\ \A e \in written : e \in InFile => e \in InFile'
        /\ file'[Len(file')] \in {x, Junk}
    BY <1>5, <2>1, Joins DEF IInv, TypesOK
  <2>3. TailOK'
    BY <1>2, <2>1, <2>2 DEF TailOK
  <2>4. Lost' \subseteq Lost
    BY <2>2 DEF Lost
  <2>5. LostOK'
    BY <1>3, <2>4, LostKept DEF IInv
  <2> QED
    BY <2>2, <2>3, <2>5
<1> QED
  BY <1>3, <1>4, <1>5 DEF Partial

\* The caller goes on: of the changes past their log() one more may be missing.
LEMMA LogWriteFailsKeeps ==
  ASSUME IInv, NEW t \in All, LogWriteFails(t)
  PROVE  IInv'
<1>1. /\ pc[t] = "write" /\ pc' = [pc EXCEPT ![t] = "reply"]
      /\ Partial(doing[t]) /\ faults' = faults + 1
      /\ UNCHANGED <<doing, begun, changed, acked, written>>
  BY DEF LogWriteFails, Goto
<1>2. /\ file' \in Seq(Line) /\ tail' \in {"closed", "open"} /\ faults' \in Nat
      /\ TailOK' /\ LostOK'
  BY <1>1, PartialKeeps
<1>3. TypesOK'
  BY <1>1, <1>2 DEF IInv, TypesOK
<1>4. NumbersOK'
  BY <1>1, NumbersKept DEF IInv, Busy
<1>5. UnwrittenOK'
  <2>1. \A u \in All : pc'[u] = "reply" => u = t \/ pc[u] = "reply"
    BY <1>1 DEF IInv, TypesOK
  <2>2. Unwritten' \subseteq Unwritten \cup {doing[t]}
    BY <1>1, <2>1 DEF Unwritten, PastLog
  <2> QED
    BY <1>1, <1>2, <2>2, UnwrittenKept DEF IInv
<1> QED
  BY <1>2, <1>3, <1>4, <1>5 DEF IInv

\* An answer makes of an entry past its log() an answered one.
LEMMA ReplyKeeps ==
  ASSUME IInv, NEW t \in All, Reply(t)
  PROVE  IInv'
<1>1. /\ pc[t] = "reply" /\ pc' = [pc EXCEPT ![t] = "idle"]
      /\ acked' = acked \cup {doing[t]}
      /\ doing' = [doing EXCEPT ![t] = NoEntry]
      /\ UNCHANGED <<file, tail, begun, changed, written, faults>>
  BY DEF Reply, Goto
<1>2. /\ \A u \in All \ {t} : pc'[u] = pc[u] /\ doing'[u] = doing[u]
      /\ pc'[t] = "idle" /\ doing[t] \in Line /\ NoEntry \in Line
  BY <1>1 DEF IInv, TypesOK, NoEntry, Line, Kinds
<1>3. TypesOK'
  BY <1>1, <1>2 DEF IInv, TypesOK
<1>4. NumbersOK'
  <2>1. \A u \in All : Busy(u)' => u # t /\ Busy(u)
    BY <1>2 DEF Busy
  <2>2. Busy(t) /\ doing[t].n <= begun
    BY <1>1 DEF IInv, NumbersOK, TypesOK, Busy
  <2>3. \A u \in All : Busy(u)' => doing[t].n # doing[u].n
    BY <2>1, <2>2 DEF IInv, NumbersOK
  <2>4. \A u \in All : Busy(u)' => \A e \in acked' : e.n # doing'[u].n
    BY <1>1, <1>2, <2>1, <2>3 DEF IInv, NumbersOK
  <2>5. \A e \in changed' \cup acked' \cup written' : e.n <= begun'
    BY <1>1, <2>2 DEF IInv, NumbersOK
  <2>6. /\ \A u \in All : Busy(u)' => doing'[u].n \in 1..begun'
        /\ \A u, v \in All : Busy(u)' /\ Busy(v)' /\ u # v => doing'[u].n # doing'[v].n
    BY <1>1, <1>2, <2>1 DEF IInv, NumbersOK
  <2>7. \A u \in All : pc'[u] \in {"device", "log", "write"} =>
          \A e \in written' : e.n # doing'[u].n
    BY <1>1, <1>2 DEF IInv, NumbersOK
  <2> QED
    BY <1>1, <2>4, <2>5, <2>6, <2>7 DEF IInv, NumbersOK
<1>5. TailOK' /\ LostOK'
  <2>1. TailOK' /\ Lost' = Lost /\ Torn' = Torn
    BY <1>1, FileSame DEF IInv
  <2> QED
    BY <1>1, <2>1 DEF IInv, LostOK
<1>6. UnwrittenOK'
  <2>1. ASSUME NEW e, PastLog(e)'
        PROVE  PastLog(e)
    BY <1>1, <1>2, <2>1 DEF PastLog
  <2>2. Unwritten' \subseteq Unwritten
    BY <1>1, <2>1 DEF Unwritten
  <2> QED
    BY <1>1, <2>2, UnwrittenKept DEF IInv, TypesOK
<1> QED
  BY <1>3, <1>4, <1>5, <1>6 DEF IInv

\* The death of the process ends every operation, and one write perhaps badly.
LEMMA CrashKeeps ==
  ASSUME IInv, Crash
  PROVE  IInv'
<1>1. /\ pc' = [t \in All |-> "idle"] /\ doing' = [t \in All |-> NoEntry]
      /\ UNCHANGED <<begun, changed, acked, written>>
      /\ \/ UNCHANGED <<file, tail, faults>>
         \/ /\ faults' = faults + 1
            /\ \E t \in All : pc[t] = "write" /\ Partial(doing[t])
  BY DEF Crash
<1>2. /\ file' \in Seq(Line) /\ tail' \in {"closed", "open"}
      /\ faults' \in Nat /\ faults' >= faults
      /\ TailOK' /\ LostOK'
  <2>1. CASE UNCHANGED <<file, tail, faults>>
    <3>1. TailOK' /\ Lost' = Lost /\ Torn' = Torn
      BY <1>1, <2>1, FileSame DEF IInv
    <3> QED
      BY <2>1, <3>1 DEF IInv, LostOK, TypesOK
  <2>2. CASE faults' = faults + 1 /\ \E t \in All : pc[t] = "write" /\ Partial(doing[t])
    BY <1>1, <2>2, PartialKeeps DEF IInv, TypesOK
  <2> QED
    BY <1>1, <2>1, <2>2
<1>3. NoEntry \in Line
  BY DEF NoEntry, Line, Kinds
<1>4. TypesOK'
  BY <1>1, <1>2, <1>3 DEF IInv, TypesOK
<1>5. \A t \in All : pc'[t] = "idle"
  BY <1>1
<1>6. NumbersOK'
  BY <1>1, <1>5 DEF IInv, NumbersOK, Busy
<1>7. UnwrittenOK'
  <2>1. Unwritten' \subseteq Unwritten
    BY <1>1, <1>5 DEF Unwritten, PastLog
  <2> QED
    BY <1>2, <2>1, UnwrittenKept DEF IInv
<1> QED
  BY <1>2, <1>4, <1>6, <1>7 DEF IInv

LEMMA Initially == Init => IInv
<1> SUFFICES ASSUME Init PROVE IInv
  OBVIOUS
<1>1. NoEntry \in Line /\ <<>> \in Seq(Line)
  BY EmptySeq DEF NoEntry, Line, Kinds
<1>2. TypesOK
  BY <1>1, FS_EmptySet DEF Init, TypesOK
<1>3. NumbersOK /\ TailOK
  BY DEF Init, NumbersOK, TailOK, Busy
<1>4. Lost = {} /\ Unwritten = {} /\ Torn = 0
  BY DEF Init, Lost, Unwritten, Torn
<1>5. LostOK /\ UnwrittenOK
  BY <1>4, FS_EmptySet DEF Init, LostOK, UnwrittenOK
<1> QED
  BY <1>2, <1>3, <1>5 DEF IInv

\* The invariant is inductive.
LEMMA InvStep == IInv /\ [Next]_vars => IInv'
<1> SUFFICES ASSUME IInv, [Next]_vars PROVE IInv'
  OBVIOUS
<1>1. ASSUME NEW t \in All, Handler(t)
      PROVE  IInv'
  BY <1>1, DeviceKeeps, LogBeginKeeps, LogWriteKeeps, LogWriteFailsKeeps, ReplyKeeps
     DEF Handler, Log
<1>2. ASSUME NEW t \in Threads, NEW kind \in Offered, Begin(t, kind)
      PROVE  IInv'
  <2>1. t \in All /\ kind \in Kinds
    BY TamperAssumption DEF All
  <2> QED
    BY <1>2, <2>1, NewNumber DEF Begin, Goto
<1>3. CASE Start
  <2>1. Main \in All /\ "startup" \in Kinds
    BY DEF All, Kinds
  <2> QED
    BY <1>3, <2>1, NewNumber DEF Start, Goto
<1>4. CASE UNCHANGED vars
  BY <1>4 DEF vars, IInv, TypesOK, NumbersOK, Busy, TailOK, LostOK, Lost, InFile, Torn,
              UnwrittenOK, Unwritten, PastLog
<1> QED
  BY <1>1, <1>2, <1>3, <1>4, CrashKeeps DEF Next

-----------------------------------------------------------------------------
(* The theorems.                                                           *)

\* The strengthened invariant holds in every state.
THEOREM Invariant == Spec => []IInv
BY Initially, InvStep, PTL DEF Spec

\* _write_to_file and log(): what the file lacks of what was written is paid for
\* with a fault each, and so is what it lacks of the changes past their log().
THEOREM LossAlwaysBounded == Spec => []LossBounded
<1>1. ASSUME IInv
      PROVE  LossBounded
  <2> DEFINE owed == {e \in changed \cap acked : Owed(e)}
             missing == owed \ TamperingEvents
  <2>1. missing \subseteq Lost \cup Unwritten
    <3>1. \A e : Owed(e) => Tampering(e)
      BY DEF Owed, Tampering
    <3> QED
      BY <3>1 DEF TamperingEvents, Lost, Unwritten, PastLog
  <2>2. /\ IsFiniteSet(Lost) /\ Cardinality(Lost) \in Nat
        /\ IsFiniteSet(Unwritten) /\ Cardinality(Unwritten) \in Nat
    BY <1>1, Finite DEF IInv
  <2> HIDE DEF missing, owed
  <2>3. /\ IsFiniteSet(Lost \cup Unwritten)
        /\ Cardinality(Lost \cup Unwritten) <= Cardinality(Lost) + Cardinality(Unwritten)
    <3>1. IsFiniteSet(Lost \cap Unwritten)
      BY <2>2, FS_Subset
    <3>2. Cardinality(Lost \cap Unwritten) \in Nat
      BY <3>1, FS_CardinalityType
    <3>3. /\ IsFiniteSet(Lost \cup Unwritten)
          /\ Cardinality(Lost \cup Unwritten) =
               Cardinality(Lost) + Cardinality(Unwritten) - Cardinality(Lost \cap Unwritten)
      BY <2>2, FS_Union
    <3> QED
      BY <2>2, <3>2, <3>3
  <2>4. Cardinality(missing) <= Cardinality(Lost \cup Unwritten)
    BY <2>1, <2>3, FS_Subset
  <2>5. Cardinality(missing) \in Nat /\ Cardinality(Lost \cup Unwritten) \in Nat
    BY <2>1, <2>3, FS_Subset, FS_CardinalityType
  <2>6. Torn \in Nat /\ faults \in Nat
    BY <1>1 DEF Torn, IInv, TypesOK
  <2>7. Cardinality(Lost) + Torn <= faults /\ Cardinality(Unwritten) <= faults
    BY <1>1 DEF IInv, LostOK, UnwrittenOK
  <2>8. Cardinality(Lost) <= faults /\ Cardinality(missing) <= 2 * faults
    BY <2>2, <2>3, <2>4, <2>5, <2>6, <2>7
  <2> QED
    BY <2>8 DEF LossBounded, Lost, missing, owed
<1> QED
  BY <1>1, Invariant, PTL

\* An entry that can be read stays so: only a torn line is ever run on from.
THEOREM AlwaysStaysReadable == Spec => StaysReadable
<1>1. ASSUME IInv, Next
      PROVE  \A e \in written : e \in InFile => e \in InFile'
  <2>1. CASE UNCHANGED file
    BY <2>1 DEF InFile
  <2>2. ASSUME NEW x \in Line, file' = Joined(file, x)
        PROVE  \A e \in written : e \in InFile => e \in InFile'
    BY <1>1, <2>2, Joins DEF IInv, TypesOK
  <2>3. ASSUME NEW t \in All, Partial(doing[t])
        PROVE  UNCHANGED file \/ \E x \in Line : file' = Joined(file, x)
    <3>1. doing[t] \in Line /\ Junk \in Line
      BY <1>1 DEF IInv, TypesOK, Junk, Line, Kinds
    <3> QED
      BY <2>3, <3>1 DEF Partial
  <2>4. UNCHANGED file \/ \E x \in Line : file' = Joined(file, x)
    <3>1. ASSUME NEW t \in All, Handler(t)
          PROVE  UNCHANGED file \/ \E x \in Line : file' = Joined(file, x)
      <4>1. doing[t] \in Line
        BY <1>1 DEF IInv, TypesOK
      <4> QED
        BY <2>3, <3>1, <4>1
           DEF Handler, Device, Log, LogBegin, LogWrite, LogWriteFails, Reply
    <3>2. CASE Crash
      BY <2>3, <3>2 DEF Crash
    <3> QED
      BY <1>1, <3>1, <3>2 DEF Next, Begin, Start
  <2> QED
    BY <2>1, <2>2, <2>4
<1>2. IInv /\ [Next]_vars => [\A e \in written : e \in InFile => e \in InFile']_vars
  BY <1>1
<1> QED
  BY <1>2, Invariant, PTL DEF Spec, StaysReadable

-----------------------------------------------------------------------------
(* What reading the file back gives.                                       *)

\* A set of natural numbers has a least one.
LEMMA LeastNatural ==
  ASSUME NEW T \in SUBSET Nat, T # {}
  PROVE  \E x \in T : \A y \in T : x <= y
<1> DEFINE R == OpToRel(<, Nat)
<1>1. IsWellFoundedOn(R, Nat)
  BY NatLessThanWellFounded
<1>2. \A x, y \in Nat : ~(<<y, x>> \in R) => x <= y
  BY DEF OpToRel
<1> HIDE DEF R
<1>3. PICK x \in T : \A y \in T : ~(<<y, x>> \in R)
  BY <1>1, WFMin
<1>4. \A y \in T : x \in Nat /\ y \in Nat
  OBVIOUS
<1> QED
  BY <1>2, <1>3, <1>4

\* One line more of those that decode, and all of them up to a line.
OneMoreLine(f, s, i) ==
  IF s[i] = Junk THEN f[i - 1] ELSE Append(f[i - 1], s[i])
UpTo(f, s, n) ==
  f = [i \in 0..n |-> IF i = 0 THEN <<>> ELSE OneMoreLine(f, s, i)]

LEMMA UpToExists ==
  ASSUME NEW s, NEW n \in Nat PROVE \E f : UpTo(f, s, n)
<1> DEFINE Bad == {k \in Nat : ~\E f : UpTo(f, s, k)}
<1> SUFFICES Bad = {}
  OBVIOUS
<1> SUFFICES ASSUME Bad # {} PROVE FALSE
  OBVIOUS
<1>1. PICK m \in Bad : \A k \in Bad : m <= k
  <2>1. Bad \in SUBSET Nat
    OBVIOUS
  <2> HIDE DEF Bad
  <2> QED
    BY <2>1, LeastNatural
<1>2. m \in Nat /\ ~\E f : UpTo(f, s, m)
  OBVIOUS
<1>3. CASE m = 0
  <2> DEFINE f == [i \in 0..0 |-> <<>>]
  <2>1. UpTo(f, s, 0)
    BY DEF UpTo
  <2> QED
    BY <1>2, <1>3, <2>1
<1>4. CASE m # 0
  <2>1. m - 1 \in Nat /\ m - 1 \notin Bad
    BY <1>1, <1>2, <1>4
  <2>2. PICK g : UpTo(g, s, m - 1)
    BY <2>1
  <2> DEFINE f == [i \in 0..m |-> IF i = m THEN OneMoreLine(g, s, m) ELSE g[i]]
  <2>3. ASSUME NEW i \in 0..m PROVE f[i] = IF i = 0 THEN <<>> ELSE OneMoreLine(f, s, i)
    <3>1. \A j \in 0..(m - 1) : f[j] = g[j]
      BY <1>2
    <3>2. CASE i = m
      <4>1. f[m] = OneMoreLine(g, s, m) /\ f[m - 1] = g[m - 1]
        BY <1>2, <1>4, <2>1, <3>1
      <4> HIDE DEF f
      <4> QED
        BY <1>4, <3>2, <4>1 DEF OneMoreLine
    <3>3. CASE i # m
      <4>1. i \in 0..(m - 1) /\ f[i] = g[i]
        BY <1>2, <3>1, <3>3
      <4>2. g[i] = IF i = 0 THEN <<>> ELSE OneMoreLine(g, s, i)
        BY <2>2, <4>1 DEF UpTo
      <4>3. i # 0 => f[i - 1] = g[i - 1]
        BY <3>1, <4>1
      <4> HIDE DEF f
      <4> QED
        BY <4>1, <4>2, <4>3 DEF OneMoreLine
    <3> QED
      BY <3>2, <3>3
  <2>4. UpTo(f, s, m)
    <3>1. f = [i \in 0..m |-> f[i]]
      OBVIOUS
    <3> HIDE DEF f
    <3> QED
      BY <2>3, <3>1 DEF UpTo
  <2> QED
    BY <1>2, <2>4
<1> QED
  BY <1>3, <1>4

\* r is what decodes of the first n lines of s, in order: p says which line an
\* entry comes from.
Picks(r, s, n, p) ==
  /\ p \in [1..Len(r) -> 1..n]
  /\ \A j \in 1..Len(r) : r[j] = s[p[j]] /\ s[p[j]] # Junk
  /\ \A j, k \in 1..Len(r) : j < k => p[j] < p[k]
  /\ \A i \in 1..n : s[i] # Junk => \E j \in 1..Len(r) : p[j] = i
Decoded(r, s, n, T) ==
  r \in Seq(T) /\ Len(r) <= n /\ \E p : Picks(r, s, n, p)

\* A line that decodes is picked last.
LEMMA PicksOneMore ==
  ASSUME NEW T, NEW s, NEW n \in Nat, NEW r, Decoded(r, s, n, T), s[n + 1] \in T
  PROVE  /\ s[n + 1] = Junk => Decoded(r, s, n + 1, T)
         /\ s[n + 1] # Junk => Decoded(Append(r, s[n + 1]), s, n + 1, T)
<1>1. PICK p : Picks(r, s, n, p)
  BY DEF Decoded
<1>2. r \in Seq(T) /\ Len(r) \in Nat /\ Len(r) <= n
  BY DEF Decoded
<1> DEFINE L == Len(r)
<1>3. ASSUME s[n + 1] = Junk PROVE Picks(r, s, n + 1, p)
  <2>1. p \in [1..L -> 1..(n + 1)]
    BY <1>1, <1>2 DEF Picks
  <2>2. \A i \in 1..(n + 1) : s[i] # Junk => i \in 1..n
    BY <1>3
  <2> QED
    BY <1>1, <2>1, <2>2 DEF Picks
<1>4. ASSUME s[n + 1] # Junk PROVE Decoded(Append(r, s[n + 1]), s, n + 1, T)
  <2> DEFINE a == Append(r, s[n + 1])
             q == [j \in 1..(L + 1) |-> IF j = L + 1 THEN n + 1 ELSE p[j]]
  <2>1. /\ a \in Seq(T) /\ Len(a) = L + 1 /\ a[L + 1] = s[n + 1]
        /\ \A j \in 1..L : a[j] = r[j]
    BY <1>2, AppendProperties
  <2>2. /\ \A j \in 1..L : p[j] \in 1..n /\ q[j] = p[j]
        /\ q[L + 1] = n + 1
    BY <1>1, <1>2 DEF Picks
  <2>3. \A j \in 1..(L + 1) : j = L + 1 \/ j \in 1..L
    BY <1>2
  <2>4. q \in [1..(L + 1) -> 1..(n + 1)]
    <3>1. \A x \in 1..n : x \in 1..(n + 1)
      OBVIOUS
    <3>2. \A j \in 1..L : p[j] \in 1..(n + 1)
      BY <2>2, <3>1, Zenon
    <3>3. \A j \in 1..(L + 1) : q[j] \in 1..(n + 1)
      <4>1. n + 1 \in 1..(n + 1)
        OBVIOUS
      <4> HIDE DEF q
      <4> QED
        BY <2>2, <2>3, <3>2, <4>1, Zenon
    <3>4. q = [j \in 1..(L + 1) |-> q[j]]
      OBVIOUS
    <3> HIDE DEF q
    <3> QED
      BY <3>3, <3>4
  <2> HIDE DEF q, a
  <2>5. \A j \in 1..(L + 1) : a[j] = s[q[j]] /\ s[q[j]] # Junk
    BY <1>1, <1>4, <2>1, <2>2, <2>3 DEF Picks
  <2>6. ASSUME NEW j \in 1..(L + 1), NEW k \in 1..(L + 1), j < k PROVE q[j] < q[k]
    <3>1. j \in 1..L
      BY <1>2, <2>6
    <3>2. CASE k = L + 1
      BY <2>2, <3>1, <3>2
    <3>3. CASE k \in 1..L
      <4>1. p[j] < p[k]
        BY <1>1, <2>6, <3>1, <3>3 DEF Picks
      <4> QED
        BY <2>2, <3>1, <3>3, <4>1
    <3> QED
      BY <2>3, <3>2, <3>3
  <2>7. ASSUME NEW i \in 1..(n + 1), s[i] # Junk PROVE \E j \in 1..(L + 1) : q[j] = i
    <3>1. CASE i = n + 1
      <4>1. L + 1 \in 1..(L + 1)
        BY <1>2
      <4> QED
        BY <2>2, <3>1, <4>1
    <3>2. CASE i # n + 1
      <4>1. PICK j \in 1..L : p[j] = i
        BY <1>1, <2>7, <3>2 DEF Picks
      <4>2. j \in 1..(L + 1)
        BY <1>2
      <4> QED
        BY <2>2, <4>1, <4>2
    <3> QED
      BY <3>1, <3>2
  <2>8. Picks(a, s, n + 1, q)
    BY <2>1, <2>4, <2>5, <2>6, <2>7 DEF Picks
  <2>9. Len(a) <= n + 1
    BY <1>2, <2>1
  <2> QED
    BY <2>1, <2>8, <2>9 DEF Decoded, a
<1>5. Len(r) <= n + 1
  BY <1>2
<1> QED
  BY <1>2, <1>3, <1>4, <1>5 DEF Decoded

LEMMA UpToDecodes ==
  ASSUME NEW T, NEW s \in Seq(T), NEW f, UpTo(f, s, Len(s)), NEW n \in 0..Len(s)
  PROVE  Decoded(f[n], s, n, T)
<1> DEFINE L == Len(s)
           Bad == {k \in 0..L : ~Decoded(f[k], s, k, T)}
<1>1. L \in Nat
  OBVIOUS
<1> SUFFICES ASSUME Bad # {} PROVE FALSE
  OBVIOUS
<1>2. PICK m \in Bad : \A k \in Bad : m <= k
  <2>1. Bad \in SUBSET Nat
    OBVIOUS
  <2> HIDE DEF Bad
  <2> QED
    BY <2>1, LeastNatural
<1>3. m \in 0..L /\ ~Decoded(f[m], s, m, T)
  OBVIOUS
<1>4. f[m] = IF m = 0 THEN <<>> ELSE OneMoreLine(f, s, m)
  BY <1>3 DEF UpTo
<1>5. CASE m = 0
  <2>1. f[0] = <<>> /\ <<>> \in Seq(T) /\ Len(<<>>) = 0
    BY <1>4, <1>5
  <2>2. Picks(<<>>, s, 0, [j \in 1..0 |-> 1])
    BY <2>1 DEF Picks
  <2>3. Decoded(<<>>, s, 0, T)
    BY <2>1, <2>2 DEF Decoded
  <2> QED
    BY <1>3, <1>5, <2>1, <2>3
<1>6. CASE m # 0
  <2>1. m - 1 \in Nat /\ m - 1 \in 0..L /\ m - 1 \notin Bad
    BY <1>1, <1>2, <1>3, <1>6
  <2>2. Decoded(f[m - 1], s, m - 1, T)
    BY <2>1
  <2>3. (m - 1) + 1 = m /\ s[m] \in T
    BY <1>1, <1>3, <1>6
  <2>4. /\ s[m] = Junk => Decoded(f[m - 1], s, m, T)
        /\ s[m] # Junk => Decoded(Append(f[m - 1], s[m]), s, m, T)
    BY <2>1, <2>2, <2>3, PicksOneMore
  <2> QED
    BY <1>3, <1>4, <1>6, <2>4 DEF OneMoreLine
<1> QED
  BY <1>5, <1>6

\* What decodes of a list of lines: each line but the junk, in order.
LEMMA ReadableDecodes ==
  ASSUME NEW T, NEW s \in Seq(T)
  PROVE  Decoded(Readable(s), s, Len(s), T)
<1> DEFINE f == CHOOSE g : UpTo(g, s, Len(s))
<1>1. UpTo(f, s, Len(s)) /\ Len(s) \in Nat
  BY UpToExists
<1>2. Readable(s) = f[Len(s)]
  BY DEF Readable, UpTo, OneMoreLine
<1> HIDE DEF f
<1> QED
  BY <1>1, <1>2, UpToDecodes

\* The last entries of a sequence, where they stood.
LEMMA LastOfFacts ==
  ASSUME NEW T, NEW s \in Seq(T), NEW k \in Nat
  PROVE  /\ LastOf(s, k) \in Seq(T) /\ Len(LastOf(s, k)) <= k
         /\ Len(LastOf(s, k)) = IF Len(s) <= k THEN Len(s) ELSE k
         /\ \A j \in 1..Len(LastOf(s, k)) :
              LastOf(s, k)[j] = s[j + (Len(s) - Len(LastOf(s, k)))]
<1> DEFINE L == Len(s)
<1>1. L \in Nat
  OBVIOUS
<1>2. CASE L <= k
  <2>1. LastOf(s, k) = s /\ \A j \in 1..L : j + (L - L) = j
    BY <1>1, <1>2 DEF LastOf
  <2> QED
    BY <1>1, <1>2, <2>1
<1>3. CASE ~(L <= k)
  <2> DEFINE m == L - k + 1
  <2>1. m \in 1..(L + 1) /\ m \in Int /\ m >= 1 /\ L - m + 1 = k /\ m <= L + 1
    BY <1>1, <1>3
  <2>2. LastOf(s, k) = SubSeq(s, m, L)
    BY <1>3 DEF LastOf
  <2>3. /\ SubSeq(s, m, L) \in Seq(T)
        /\ Len(SubSeq(s, m, L)) = IF m <= L THEN L - m + 1 ELSE 0
        /\ \A i \in 1..(L - m + 1) : SubSeq(s, m, L)[i] = s[m + i - 1]
    <3>1. \A i \in m..L : s[i] \in T
      <4>1. \A i \in m..L : i \in 1..L
        BY <1>1, <2>1
      <4> QED
        BY <4>1
    <3> HIDE DEF m
    <3> QED
      BY <1>1, <2>1, <3>1, SubSeqProperties
  <2>4. Len(SubSeq(s, m, L)) = k
    BY <1>1, <1>3, <2>1, <2>3
  <2>5. \A i \in 1..k : m + i - 1 = i + (L - k)
    BY <1>1
  <2> DEFINE r == SubSeq(s, m, L)
  <2> HIDE DEF m
  <2>6. \A i \in 1..k : r[i] = s[i + (L - k)]
    BY <2>1, <2>3, <2>5
  <2>7. r \in Seq(T) /\ Len(r) = k
    BY <2>3, <2>4
  <2> HIDE DEF r
  <2>8. LastOf(s, k) = r
    BY <2>2 DEF r
  <2> QED
    BY <1>3, <2>6, <2>7, <2>8
<1> QED
  BY <1>2, <1>3

\* What a line joined to the file makes of it, place by place.
LEMMA JoinedAt ==
  ASSUME file \in Seq(Line), tail \in {"closed", "open"}, TailOK, NEW x \in Line
  PROVE  /\ Joined(file, x) \in Seq(Line)
         /\ tail = "closed" =>
              /\ Len(Joined(file, x)) = Len(file) + 1
              /\ \A i \in 1..Len(file) : Joined(file, x)[i] = file[i]
              /\ Joined(file, x)[Len(file) + 1] = x
         /\ tail = "open" =>
              /\ Len(file) \in 1..Len(file) /\ Len(Joined(file, x)) = Len(file)
              /\ \A i \in 1..Len(file) :
                   Joined(file, x)[i] = IF i = Len(file) THEN Junk ELSE file[i]
<1>1. Junk \in Line
  BY DEF Junk, Line, Kinds
<1>2. CASE tail = "closed"
  BY <1>2, AppendProperties DEF Joined
<1>3. CASE tail = "open"
  <2>1. Len(file) \in 1..Len(file)
    BY <1>3, EmptySeq, LenProperties DEF TailOK
  <2>2. Joined(file, x) = [file EXCEPT ![Len(file)] = Junk]
    BY <1>3 DEF Joined
  <2> QED
    BY <1>1, <1>3, <2>1, <2>2, ExceptSeq
<1> QED
  BY <1>2, <1>3

\* A sequence of lines that are all in S is a sequence over S.
LEMMA SeqOf ==
  ASSUME NEW T, NEW s \in Seq(T), NEW S, \A i \in 1..Len(s) : s[i] \in S
  PROVE  s \in Seq(S)
<1>1. DOMAIN s = 1..Len(s) /\ Len(s) \in Nat
  OBVIOUS
<1> QED
  BY <1>1, IsASeq

-----------------------------------------------------------------------------
(* The ranges.                                                             *)

\* TypeOK, and what it takes to keep it: while the process is down it may start
\* once more and nobody is busy; whoever is busy has an entry.
RangesOK ==
  /\ TypeOK
  /\ ~up => starts < MaxStarts /\ \A t \in All : ~Busy(t)
  /\ \A t \in All : Busy(t) => doing[t] \in Entry

\* TypeOK, in parts that different steps change.
LogTypes ==
  /\ ring \in Seq(Entry) /\ Len(ring) <= MaxLogs
  /\ file \in Seq(Entry \cup {Junk}) /\ tail \in {"closed", "open"}
HandlerTypes ==
  /\ pc \in [All -> {"idle", "device", "log", "write", "reply"}]
  /\ doing \in [All -> Entry \cup {NoEntry}]
  /\ lock \in All \cup {None}
  /\ \A t \in All : pc[t] = "write" <=> lock = t
  /\ \A t \in All : Busy(t) => doing[t] \in Entry
CountTypes ==
  /\ up \in BOOLEAN
  /\ starts \in 0..MaxStarts /\ begun \in starts..(starts + MaxEntries)
  /\ faults \in 0..MaxFaults
  /\ acked \subseteq Entry /\ changed \subseteq Entry /\ written \subseteq Entry
  /\ ~up => starts < MaxStarts

LEMMA RangesParts ==
  RangesOK <=> /\ LogTypes /\ HandlerTypes /\ CountTypes
               /\ ~up => \A t \in All : ~Busy(t)
BY DEF RangesOK, TypeOK, LogTypes, HandlerTypes, CountTypes

\* Entries are lines, and no entry is junk.
LEMMA EntryLines ==
  /\ Entry \subseteq Line /\ Junk \in Line /\ Junk \notin Entry
  /\ MaxEntries + MaxStarts \in Nat
BY TamperAssumption DEF Entry, Line, Junk, Kinds

\* A line joined to the file is one of it, or makes junk of the last.
LEMMA JoinTypes ==
  ASSUME IInv, file \in Seq(Entry \cup {Junk}), NEW x \in Entry \cup {Junk}
  PROVE  Joined(file, x) \in Seq(Entry \cup {Junk})
<1> DEFINE g == Joined(file, x)
<1>1. /\ file \in Seq(Line) /\ tail \in {"closed", "open"} /\ TailOK /\ x \in Line
      /\ \A i \in 1..Len(file) : file[i] \in Entry \cup {Junk}
  BY EntryLines DEF IInv, TypesOK
<1>2. g \in Seq(Line) /\ \A i \in 1..Len(g) : g[i] \in Entry \cup {Junk}
  <2>1. CASE tail = "closed"
    <3>1. /\ g \in Seq(Line) /\ Len(g) = Len(file) + 1
          /\ \A i \in 1..Len(file) : g[i] = file[i]
          /\ g[Len(file) + 1] = x
      BY <1>1, <2>1, JoinedAt
    <3>2. \A i \in 1..Len(g) : i \in 1..Len(file) \/ i = Len(file) + 1
      BY <1>1, <3>1
    <3> HIDE DEF g
    <3> QED
      BY <1>1, <3>1, <3>2
  <2>2. CASE tail = "open"
    <3>1. /\ g \in Seq(Line) /\ Len(g) = Len(file)
          /\ \A i \in 1..Len(file) : g[i] = IF i = Len(file) THEN Junk ELSE file[i]
      BY <1>1, <2>2, JoinedAt
    <3> HIDE DEF g
    <3> QED
      BY <1>1, <3>1
  <2> QED
    BY <1>1, <2>1, <2>2
<1> HIDE DEF g
<1>3. g \in Seq(Entry \cup {Junk})
  BY <1>2, SeqOf
<1> QED
  BY <1>3 DEF g

LEMMA PartialTypes ==
  ASSUME IInv, LogTypes, NEW x \in Entry, Partial(x), ring' = ring \/ ring' = <<>>
  PROVE  LogTypes'
<1>1. file' \in Seq(Entry \cup {Junk}) /\ tail' \in {"closed", "open"}
  BY JoinTypes DEF Partial, LogTypes
<1>2. <<>> \in Seq(Entry) /\ Len(<<>>) <= MaxLogs
  BY TamperAssumption, EmptySeq
<1> QED
  BY <1>1, <1>2 DEF LogTypes

\* What decodes of the last lines of the file is a ring.
LEMMA LoadedFacts ==
  ASSUME LogTypes
  PROVE  LET s == LastOf(file, MaxLogs) IN
         /\ Loaded \in Seq(Entry) /\ Len(Loaded) <= MaxLogs
         /\ s \in Seq(Entry \cup {Junk})
         /\ Decoded(Loaded, s, Len(s), Entry \cup {Junk})
<1> DEFINE s == LastOf(file, MaxLogs)
           T == Entry \cup {Junk}
<1>1. s \in Seq(T) /\ Len(s) <= MaxLogs /\ Len(s) \in Nat
  BY TamperAssumption, LastOfFacts, LenProperties DEF LogTypes
<1> HIDE DEF s
<1>2. Decoded(Loaded, s, Len(s), T)
  BY <1>1, ReadableDecodes DEF Loaded, s
<1>3. /\ Loaded \in Seq(T) /\ Len(Loaded) \in Nat /\ Len(Loaded) <= Len(s)
      /\ \A j \in 1..Len(Loaded) : Loaded[j] # Junk
  BY <1>2, LenProperties DEF Decoded, Picks
<1>4. \A j \in 1..Len(Loaded) : Loaded[j] \in Entry
  <2>1. \A j \in 1..Len(Loaded) : Loaded[j] \in T
    BY <1>3, ElementOfSeq
  <2> QED
    BY <1>3, <2>1
<1>5. Loaded \in Seq(Entry)
  BY <1>3, <1>4, SeqOf
<1>6. Len(Loaded) <= MaxLogs
  BY <1>1, <1>3, TamperAssumption
<1> QED
  BY <1>1, <1>2, <1>5, <1>6 DEF s

\* An entry pushed on the ring.
LEMMA PushedTypes ==
  ASSUME LogTypes, NEW e \in Entry
  PROVE  Pushed(e) \in Seq(Entry) /\ Len(Pushed(e)) <= MaxLogs
BY TamperAssumption, LastOfFacts, AppendProperties DEF LogTypes, Pushed

\* Nobody is busy and nobody has the lock.
LEMMA NobodyBusy ==
  ASSUME NEW p, NEW d, p = [t \in All |-> "idle"], d = [t \in All |-> NoEntry]
  PROVE  /\ p \in [All -> {"idle", "device", "log", "write", "reply"}]
         /\ d \in [All -> Entry \cup {NoEntry}]
         /\ \A t \in All : p[t] = "idle" /\ t # None
BY TamperAssumption DEF All

\* The number of a new entry is one there is room for.
LEMMA NumberRoom ==
  ASSUME CountTypes, NEW kind \in Kinds, begun - starts < MaxEntries \/ starts < MaxStarts
  PROVE  [n |-> begun + 1, kind |-> kind, ok |-> TRUE] \in Entry
<1>1. /\ MaxEntries \in Nat /\ MaxStarts \in Nat /\ starts \in Nat /\ begun \in Nat
      /\ starts <= MaxStarts /\ begun <= starts + MaxEntries
  BY TamperAssumption DEF CountTypes
<1>2. begun + 1 \in 1..(MaxEntries + MaxStarts)
  BY <1>1
<1> QED
  BY <1>2 DEF Entry

LEMMA RangesStep == IInv /\ RangesOK /\ [Next]_vars => RangesOK'
<1> SUFFICES ASSUME IInv, RangesOK, [Next]_vars PROVE RangesOK'
  OBVIOUS
<1> DEFINE Down == ~up => \A t \in All : ~Busy(t)
<1>1. LogTypes /\ HandlerTypes /\ CountTypes /\ Down
  BY RangesParts
<1>2. SUFFICES LogTypes' /\ HandlerTypes' /\ CountTypes' /\ Down'
  BY DEF RangesOK, TypeOK, LogTypes, HandlerTypes, CountTypes
<1>3. None \notin All /\ Main \in All
  BY TamperAssumption DEF All
<1>4. ASSUME NEW t \in Threads, NEW kind \in Offered, Begin(t, kind)
      PROVE  LogTypes' /\ HandlerTypes' /\ CountTypes' /\ Down'
  <2> DEFINE e == [n |-> begun + 1, kind |-> kind, ok |-> TRUE]
             where == IF kind \in Changes THEN "device" ELSE "log"
  <2>1. e \in Entry
    BY <1>1, <1>4, NumberRoom, TamperAssumption DEF Begin
  <2>2. /\ t \in All /\ pc[t] = "idle" /\ doing' = [doing EXCEPT ![t] = e]
        /\ pc' = [pc EXCEPT ![t] = where] /\ where \in {"device", "log"}
        /\ UNCHANGED <<ring, file, tail, lock>>
    BY <1>4 DEF Begin, Goto, All
  <2> HIDE DEF e, where
  <2>3. HandlerTypes'
    BY <1>1, <2>1, <2>2, <1>3 DEF HandlerTypes, Busy
  <2>4. CountTypes'
    BY <1>1, <1>4, TamperAssumption DEF Begin, CountTypes
  <2> QED
    BY <1>1, <1>4, <2>2, <2>3, <2>4 DEF LogTypes, Begin
<1>5. ASSUME NEW t \in All, Device(t)
      PROVE  LogTypes' /\ HandlerTypes' /\ CountTypes' /\ Down'
  <2>1. PICK ok \in BOOLEAN, effect \in BOOLEAN :
          /\ doing' = [doing EXCEPT ![t].ok = ok]
          /\ changed' = IF effect THEN changed \cup {[doing[t] EXCEPT !.ok = ok]}
                        ELSE changed
          /\ Goto(t, IF LoggedAfter(doing[t].kind, ok) THEN "log" ELSE "reply")
    BY <1>5 DEF Device
  <2>2. /\ pc[t] = "device" /\ doing[t] \in Entry /\ up
        /\ UNCHANGED <<up, ring, file, tail, lock, begun, starts, acked, written, faults>>
    BY <1>1, <1>5 DEF Device, HandlerTypes, Busy
  <2>3. [doing[t] EXCEPT !.ok = ok] \in Entry
    BY <2>2 DEF Entry
  <2>4. HandlerTypes'
    <3>1. doing' = [doing EXCEPT ![t] = [doing[t] EXCEPT !.ok = ok]]
      BY <2>1
    <3>2. PICK where \in {"log", "reply"} : pc' = [pc EXCEPT ![t] = where]
      BY <2>1 DEF Goto
    <3> QED
      BY <1>1, <1>3, <2>2, <2>3, <3>1, <3>2 DEF HandlerTypes, Busy
  <2>5. CountTypes'
    BY <1>1, <2>1, <2>2, <2>3 DEF CountTypes
  <2> QED
    BY <1>1, <2>2, <2>4, <2>5 DEF LogTypes
<1>6. ASSUME NEW t \in All, LogBegin(t)
      PROVE  LogTypes' /\ HandlerTypes' /\ CountTypes' /\ Down'
  <2>1. doing[t] \in Entry
    BY <1>1, <1>6 DEF LogBegin, HandlerTypes, Busy
  <2>2. LogTypes'
    BY <1>1, <1>6, <2>1, PushedTypes DEF LogBegin, LogTypes
  <2>3. HandlerTypes'
    BY <1>1, <1>3, <1>6, <2>1 DEF LogBegin, Goto, HandlerTypes, Busy
  <2> QED
    BY <1>1, <1>6, <2>2, <2>3 DEF LogBegin, CountTypes
<1>7. ASSUME NEW t \in All, LogWrite(t)
      PROVE  LogTypes' /\ HandlerTypes' /\ CountTypes' /\ Down'
  <2>1. doing[t] \in Entry
    BY <1>1, <1>7 DEF LogWrite, HandlerTypes, Busy
  <2>2. LogTypes'
    BY <1>1, <1>7, <2>1, JoinTypes DEF LogWrite, LogTypes
  <2>3. HandlerTypes'
    BY <1>1, <1>3, <1>7, <2>1 DEF LogWrite, Goto, HandlerTypes, Busy
  <2> QED
    BY <1>1, <1>7, <2>1, <2>2, <2>3 DEF LogWrite, CountTypes
<1>8. ASSUME NEW t \in All, LogWriteFails(t)
      PROVE  LogTypes' /\ HandlerTypes' /\ CountTypes' /\ Down'
  <2>1. doing[t] \in Entry
    BY <1>1, <1>8 DEF LogWriteFails, HandlerTypes, Busy
  <2>2. LogTypes'
    BY <1>1, <1>8, <2>1, PartialTypes DEF LogWriteFails
  <2>3. HandlerTypes'
    BY <1>1, <1>3, <1>8, <2>1 DEF LogWriteFails, Goto, HandlerTypes, Busy
  <2>4. CountTypes'
    BY <1>1, <1>8, TamperAssumption DEF LogWriteFails, CountTypes
  <2> QED
    BY <1>8, <2>2, <2>3, <2>4 DEF LogWriteFails
<1>9. ASSUME NEW t \in All, Reply(t)
      PROVE  LogTypes' /\ HandlerTypes' /\ CountTypes' /\ Down'
  <2>1. doing[t] \in Entry
    BY <1>1, <1>9 DEF Reply, HandlerTypes, Busy
  <2>2. HandlerTypes'
    BY <1>1, <1>3, <1>9, <2>1 DEF Reply, Goto, HandlerTypes, Busy
  <2> QED
    BY <1>1, <1>9, <2>1, <2>2 DEF Reply, CountTypes, LogTypes
<1>10. ASSUME Crash
       PROVE  LogTypes' /\ HandlerTypes' /\ CountTypes' /\ Down'
  <2>1. LogTypes'
    <3>1. CASE UNCHANGED <<file, tail>>
      BY <1>1, <1>10, <3>1, EmptySeq, TamperAssumption DEF Crash, LogTypes
    <3>2. ASSUME NEW t \in All, pc[t] = "write", Partial(doing[t])
          PROVE  LogTypes'
      BY <1>1, <1>10, <3>2, PartialTypes DEF Crash, HandlerTypes, Busy
    <3> QED
      BY <1>10, <3>1, <3>2 DEF Crash
  <2>2. HandlerTypes'
    <3>1. /\ pc' = [t \in All |-> "idle"] /\ doing' = [t \in All |-> NoEntry]
          /\ lock' = None
      BY <1>10 DEF Crash
    <3>2. /\ pc' \in [All -> {"idle", "device", "log", "write", "reply"}]
          /\ doing' \in [All -> Entry \cup {NoEntry}]
          /\ \A t \in All : pc'[t] = "idle" /\ t # None
      BY <3>1, NobodyBusy
    <3> QED
      BY <3>1, <3>2 DEF HandlerTypes, Busy
  <2>3. CountTypes'
    <3>1. up' = FALSE /\ starts < MaxStarts /\ UNCHANGED <<begun, starts, changed, acked, written>>
      BY <1>10 DEF Crash
    <3>2. faults' \in 0..MaxFaults
      <4>1. \/ UNCHANGED <<file, tail, faults>>
            \/ faults < MaxFaults /\ faults' = faults + 1
        BY <1>10, Zenon DEF Crash
      <4>2. faults \in 0..MaxFaults /\ MaxFaults \in Nat
        BY <1>1, TamperAssumption DEF CountTypes
      <4> QED
        BY <4>1, <4>2
    <3>3. up' \in BOOLEAN
      BY <3>1
    <3> QED
      BY <1>1, <3>1, <3>2, <3>3 DEF CountTypes
  <2>4. Down'
    BY <1>10 DEF Crash, Busy
  <2> QED
    BY <2>1, <2>2, <2>3, <2>4
<1>11. ASSUME Start
       PROVE  LogTypes' /\ HandlerTypes' /\ CountTypes' /\ Down'
  <2> DEFINE e == [n |-> begun + 1, kind |-> "startup", ok |-> TRUE]
  <2>1. /\ ~up /\ starts < MaxStarts /\ \A t \in All : pc[t] = "idle"
    BY <1>1, <1>11 DEF Start, CountTypes, Busy
  <2>2. "startup" \in Kinds
    BY DEF Kinds
  <2>3. e \in Entry
    BY <1>1, <2>1, <2>2, NumberRoom
  <2>4. doing' = [doing EXCEPT ![Main] = e] /\ pc' = [pc EXCEPT ![Main] = "log"]
    BY <1>11 DEF Start, Goto
  <2> HIDE DEF e
  <2>5. HandlerTypes'
    <3>1. /\ pc' \in [All -> {"idle", "device", "log", "write", "reply"}]
          /\ doing' \in [All -> Entry \cup {NoEntry}]
          /\ lock' = lock /\ lock \in All \cup {None}
      BY <1>1, <1>3, <1>11, <2>3, <2>4 DEF Start, HandlerTypes
    <3>2. /\ \A t \in All \ {Main} : pc'[t] = "idle"
          /\ pc'[Main] = "log" /\ doing'[Main] = e
      BY <1>1, <1>3, <2>1, <2>4 DEF HandlerTypes
    <3>3. \A t \in All : lock # t
      BY <1>1, <2>1 DEF HandlerTypes
    <3> QED
      BY <2>3, <3>1, <3>2, <3>3 DEF HandlerTypes, Busy
  <2>6. LogTypes'
    BY <1>1, <1>11, LoadedFacts DEF Start, LogTypes
  <2>7. CountTypes'
    BY <1>1, <1>11, <2>1, TamperAssumption DEF Start, CountTypes
  <2> QED
    BY <1>11, <2>5, <2>6, <2>7 DEF Start
<1>12. CASE UNCHANGED vars
  BY <1>1, <1>12 DEF vars, LogTypes, HandlerTypes, CountTypes, Busy
<1> QED
  BY <1>4, <1>5, <1>6, <1>7, <1>8, <1>9, <1>10, <1>11, <1>12
  DEF Next, Handler, Log

LEMMA RangesInit == Init => RangesOK
<1> SUFFICES ASSUME Init PROVE RangesOK
  OBVIOUS
<1>1. None \notin All
  BY TamperAssumption DEF All
<1>2. LogTypes
  BY TamperAssumption, EmptySeq DEF Init, LogTypes
<1>3. HandlerTypes /\ \A t \in All : ~Busy(t)
  <2>1. /\ pc \in [All -> {"idle", "device", "log", "write", "reply"}]
        /\ doing \in [All -> Entry \cup {NoEntry}]
        /\ \A t \in All : pc[t] = "idle" /\ t # None
    BY NobodyBusy DEF Init
  <2> QED
    BY <2>1 DEF Init, HandlerTypes, Busy
<1>4. CountTypes
  <2>1. /\ up = FALSE /\ starts = 0 /\ begun = 0 /\ faults = 0
        /\ acked = {} /\ changed = {} /\ written = {}
    BY DEF Init
  <2>2. /\ 0 \in 0..MaxStarts /\ 0 \in 0..(0 + MaxEntries) /\ 0 \in 0..MaxFaults
        /\ 0 < MaxStarts
    BY TamperAssumption
  <2>3. up \in BOOLEAN
    BY <2>1
  <2> QED
    BY <2>1, <2>2, <2>3 DEF CountTypes
<1> QED
  BY <1>2, <1>3, <1>4, RangesParts

-----------------------------------------------------------------------------
(* The ring and the file.                                                  *)

\* Both hold an entry once, and in the same order.
Once(f) == \A i, m \in 1..Len(f) : f[i] = f[m] /\ f[i] # Junk => i = m
Distinct(r) == \A j, k \in 1..Len(r) : r[j] = r[k] => j = k
Ordered(f, r) ==
  \A i, m \in 1..Len(f), j, k \in 1..Len(r) :
    j < k /\ r[j] = f[i] /\ r[k] = f[m] => i < m

\* A line whose entry the ring does not hold has MaxLogs lines after it, or the
\* ring is full of entries that are not in the file up to it.
Holds(r, x) == \E j \in 1..Len(r) : r[j] = x
Newer(f, r, i) == \A m \in 1..Len(f), j \in 1..Len(r) : r[j] = f[m] => i < m
Recent(f, r) ==
  \A i \in 1..Len(f) :
    f[i] # Junk => \/ Holds(r, f[i]) \/ Len(f) - i >= MaxLogs
                   \/ Len(r) = MaxLogs /\ Newer(f, r, i)
Follows(f, r) == Distinct(r) /\ Ordered(f, r) /\ Recent(f, r)

\* q is r without its first d entries, and one entry more.
Shifted(r, q, d) ==
  /\ Len(q) + d = Len(r) + 1
  /\ d = 1 => Len(q) = MaxLogs
  /\ \A j \in 1..(Len(q) - 1) : q[j] = r[j + d]

\* An entry pushed on the ring.
LEMMA PushedAt ==
  ASSUME NEW r \in Seq(Entry), Len(r) <= MaxLogs, NEW e \in Entry,
         NEW q, q = LastOf(Append(r, e), MaxLogs)
  PROVE  /\ Len(q) \in Nat /\ Len(q) >= 1 /\ Len(q) <= MaxLogs /\ q[Len(q)] = e
         /\ \E d \in {0, 1} : Shifted(r, q, d)
<1> DEFINE a == Append(r, e)
           L == Len(r)
           d == L + 1 - Len(q)
<1>1. /\ a \in Seq(Entry) /\ Len(a) = L + 1 /\ a[L + 1] = e
      /\ \A j \in 1..L : a[j] = r[j]
  BY AppendProperties
<1>2. L \in Nat /\ MaxLogs \in Nat /\ MaxLogs >= 1 /\ L <= MaxLogs
  BY TamperAssumption, LenProperties
<1> HIDE DEF a
<1>3. /\ Len(q) = IF L + 1 <= MaxLogs THEN L + 1 ELSE MaxLogs
      /\ \A j \in 1..Len(q) : q[j] = a[j + (L + 1 - Len(q))]
  <2>1. q = LastOf(a, MaxLogs)
    BY DEF a
  <2> QED
    BY <1>1, <1>2, <2>1, LastOfFacts
<1> HIDE DEF L
<1>4. /\ Len(q) \in Nat /\ Len(q) >= 1 /\ Len(q) <= MaxLogs /\ d \in {0, 1}
      /\ Len(q) + d = L + 1
      /\ d = 1 => Len(q) = MaxLogs
  BY <1>2, <1>3
<1>5. q[Len(q)] = e
  <2>1. Len(q) \in 1..Len(q) /\ Len(q) + (L + 1 - Len(q)) = L + 1
    BY <1>2, <1>4
  <2> QED
    BY <1>1, <1>3, <2>1
<1>6. \A j \in 1..(Len(q) - 1) : q[j] = r[j + d]
  <2>1. \A j \in 1..(Len(q) - 1) : j \in 1..Len(q) /\ j + d \in 1..L
    BY <1>2, <1>4
  <2>2. \A j \in 1..(Len(q) - 1) : q[j] = a[j + d]
    BY <1>3, <2>1
  <2> HIDE DEF d
  <2> QED
    BY <1>1, <2>1, <2>2
<1> HIDE DEF d
<1> QED
  BY <1>4, <1>5, <1>6 DEF L, Shifted

\* A new entry on the ring keeps it so.
LEMMA PushKeeps ==
  ASSUME NEW f, Len(f) \in Nat, NEW r \in Seq(Entry), Len(r) <= MaxLogs,
         NEW e \in Entry, Follows(f, r), ~Holds(r, e), ~Holds(f, e),
         NEW q, q = LastOf(Append(r, e), MaxLogs)
  PROVE  Follows(f, q) /\ \A x : Holds(q, x) => Holds(r, x) \/ x = e
<1> DEFINE L == Len(r)
           N == Len(q)
<1>1. /\ L \in Nat /\ N \in Nat /\ N >= 1 /\ q[N] = e
      /\ MaxLogs \in Nat /\ N <= MaxLogs
  BY PushedAt, TamperAssumption, LenProperties
<1>10. PICK d \in {0, 1} : Shifted(r, q, d)
  BY PushedAt
<1>2. /\ N + d = L + 1
      /\ d = 1 => N = MaxLogs
      /\ \A j \in 1..(N - 1) : q[j] = r[j + d]
  BY <1>10 DEF Shifted
<1> HIDE DEF L, N
<1>3. \A j \in 1..N : j = N \/ j \in 1..(N - 1)
  BY <1>1
<1>4. \A j \in 1..(N - 1) : j + d \in 1..L /\ q[j] = r[j + d]
  BY <1>1, <1>2
<1>5. /\ \A j \in 1..L : r[j] # e
      /\ \A i \in 1..Len(f) : f[i] # e
  BY DEF Holds, L
<1>6. Distinct(q)
  <2>1. ASSUME NEW j \in 1..N, NEW k \in 1..N, q[j] = q[k] PROVE j = k
    <3>1. CASE j \in 1..(N - 1) /\ k \in 1..(N - 1)
      <4>1. r[j + d] = r[k + d] /\ j + d \in 1..L /\ k + d \in 1..L
        BY <1>4, <2>1, <3>1
      <4>2. j + d = k + d
        BY <4>1 DEF Follows, Distinct, L
      <4> QED
        BY <1>1, <1>2, <4>2
    <3>2. CASE j = N \/ k = N
      BY <1>1, <1>3, <1>4, <1>5, <2>1, <3>2
    <3> QED
      BY <1>3, <3>1, <3>2
  <2> QED
    BY <2>1 DEF Distinct, N
<1>7. Ordered(f, q)
  <2>1. ASSUME NEW i \in 1..Len(f), NEW m \in 1..Len(f), NEW j \in 1..N, NEW k \in 1..N,
               j < k, q[j] = f[i], q[k] = f[m]
        PROVE  i < m
    <3>1. j # N /\ k # N
      BY <1>1, <1>5, <2>1
    <3>2. r[j + d] = f[i] /\ r[k + d] = f[m] /\ j + d \in 1..L /\ k + d \in 1..L
      BY <1>3, <1>4, <2>1, <3>1
    <3>3. j + d < k + d
      BY <1>1, <1>2, <2>1
    <3> QED
      BY <3>2, <3>3 DEF Follows, Ordered, L
  <2> QED
    BY <2>1 DEF Ordered, N
<1>8. Recent(f, q)
  <2>1. ASSUME NEW i \in 1..Len(f), f[i] # Junk, ~Holds(q, f[i]), ~(Len(f) - i >= MaxLogs)
        PROVE  N = MaxLogs /\ Newer(f, q, i)
    <3>1. CASE Holds(r, f[i])
      <4>1. PICK h \in 1..L : r[h] = f[i]
        BY <3>1 DEF Holds, L
      <4>2. \A j \in 1..N : q[j] # f[i]
        BY <2>1 DEF Holds, N
      <4>3. d = 1 /\ h = 1
        <5>1. ASSUME h - d \in 1..(N - 1) PROVE FALSE
          <6>1. q[h - d] = r[h - d + d] /\ h - d + d = h
            BY <1>2, <5>1
          <6>2. h - d \in 1..N
            BY <1>1, <5>1
          <6> QED
            BY <4>1, <4>2, <6>1, <6>2
        <5> QED
          BY <1>1, <1>2, <5>1
      <4>4. ASSUME NEW m \in 1..Len(f), NEW j \in 1..N, q[j] = f[m] PROVE i < m
        <5>1. j \in 1..(N - 1)
          BY <1>1, <1>3, <1>5, <4>4
        <5>2. r[j + 1] = f[m] /\ j + 1 \in 1..L /\ h \in 1..L /\ h < j + 1
          BY <1>4, <4>3, <4>4, <5>1
        <5> QED
          BY <4>1, <5>2 DEF Follows, Ordered, L
      <4> QED
        BY <1>2, <4>3, <4>4 DEF Newer, N
    <3>2. CASE ~Holds(r, f[i])
      <4>1. L = MaxLogs /\ Newer(f, r, i)
        BY <2>1, <3>2 DEF Follows, Recent, L
      <4>2. N = MaxLogs
        BY <1>1, <1>2, <4>1
      <4>3. ASSUME NEW m \in 1..Len(f), NEW j \in 1..N, q[j] = f[m] PROVE i < m
        <5>1. j \in 1..(N - 1)
          BY <1>1, <1>3, <1>5, <4>3
        <5>2. r[j + d] = f[m] /\ j + d \in 1..L
          BY <1>4, <4>3, <5>1
        <5> QED
          BY <4>1, <5>2 DEF Newer, L
      <4> QED
        BY <4>2, <4>3 DEF Newer, N
    <3> QED
      BY <3>1, <3>2
  <2> QED
    BY <2>1 DEF Recent, N
<1>9. \A x : Holds(q, x) => Holds(r, x) \/ x = e
  BY <1>1, <1>3, <1>4 DEF Holds, N, L
<1> QED
  BY <1>6, <1>7, <1>8, <1>9 DEF Follows

\* What a join makes of the file: the last line becomes junk, or a line is
\* added that is junk or x.
Grows(f, g, x) ==
  \/ /\ Len(g) = Len(f)
     /\ \A i \in 1..Len(f) : g[i] = f[i] \/ g[i] = Junk
  \/ /\ Len(g) = Len(f) + 1
     /\ \A i \in 1..Len(f) : g[i] = f[i]
     /\ g[Len(f) + 1] \in {x, Junk}

\* An entry that is the last of the ring and not yet in the file may go there.
LEMMA GrowthKeeps ==
  ASSUME NEW f, Len(f) \in Nat, NEW g, NEW e, e # Junk, Grows(f, g, e), Once(f),
         ~Holds(f, e)
  PROVE  /\ Once(g)
         /\ \A x : Holds(g, x) => Holds(f, x) \/ x = e \/ x = Junk
         /\ \A r \in Seq(Entry) :
              Follows(f, r) /\ r # <<>> /\ r[Len(r)] = e => Follows(g, r)
<1>1. /\ Len(g) \in Nat
      /\ Len(g) = Len(f) \/ Len(g) = Len(f) + 1
      /\ \A i \in 1..Len(f) : g[i] = f[i] \/ g[i] = Junk
  BY DEF Grows
<1>2. ASSUME NEW i \in 1..Len(g)
      PROVE  \/ i \in 1..Len(f)
             \/ i = Len(f) + 1 /\ g[i] \in {e, Junk}
  BY <1>1 DEF Grows
<1>3. \A i \in 1..Len(f) : f[i] # e
  BY DEF Holds
<1>4. ASSUME NEW i \in 1..Len(g), g[i] # Junk
      PROVE  \/ i \in 1..Len(f) /\ g[i] = f[i]
             \/ i = Len(f) + 1 /\ g[i] = e
  BY <1>1, <1>2, <1>4
<1>5. Once(g)
  <2>1. ASSUME NEW i \in 1..Len(g), NEW m \in 1..Len(g), g[i] = g[m], g[i] # Junk
        PROVE  i = m
    BY <1>3, <1>4, <2>1 DEF Once
  <2> QED
    BY <2>1 DEF Once
<1>6. \A x : Holds(g, x) => Holds(f, x) \/ x = e \/ x = Junk
  BY <1>4 DEF Holds
<1>7. ASSUME NEW r \in Seq(Entry), Follows(f, r), r # <<>>, r[Len(r)] = e
      PROVE  Follows(g, r)
  <2>1. /\ Len(r) \in Nat /\ Len(r) \in 1..Len(r)
        /\ \A j \in 1..Len(r) : r[j] \in Entry /\ r[j] # Junk
    <3>1. \A j \in 1..Len(r) : r[j] \in Entry
      BY ElementOfSeq
    <3> QED
      BY <1>7, <3>1, EmptySeq, LenProperties, EntryLines
  <2>2. Ordered(g, r)
    <3>1. ASSUME NEW i \in 1..Len(g), NEW m \in 1..Len(g),
                 NEW j \in 1..Len(r), NEW k \in 1..Len(r),
                 j < k, r[j] = g[i], r[k] = g[m]
          PROVE  i < m
      <4>1. r[j] # e
        BY <1>7, <2>1, <3>1 DEF Follows, Distinct
      <4>2. i \in 1..Len(f) /\ f[i] = r[j]
        BY <1>4, <2>1, <3>1, <4>1
      <4>3. \/ m \in 1..Len(f) /\ f[m] = r[k]
            \/ m = Len(f) + 1
        BY <1>4, <2>1, <3>1
      <4>4. CASE m \in 1..Len(f) /\ f[m] = r[k]
        BY <1>7, <3>1, <4>2, <4>4 DEF Follows, Ordered
      <4>5. CASE m = Len(f) + 1
        BY <4>2, <4>5
      <4> QED
        BY <4>3, <4>4, <4>5
    <3> QED
      BY <3>1 DEF Ordered
  <2>3. Recent(g, r)
    <3>1. ASSUME NEW i \in 1..Len(g), g[i] # Junk, ~Holds(r, g[i])
          PROVE  \/ Len(g) - i >= MaxLogs
                 \/ Len(r) = MaxLogs /\ Newer(g, r, i)
      <4>1. i \in 1..Len(f) /\ g[i] = f[i]
        <5>1. g[i] # e
          BY <1>7, <2>1, <3>1 DEF Holds
        <5> QED
          BY <1>4, <3>1, <5>1
      <4>2. \/ Len(f) - i >= MaxLogs
            \/ Len(r) = MaxLogs /\ Newer(f, r, i)
        BY <1>7, <3>1, <4>1 DEF Follows, Recent
      <4>3. CASE Len(f) - i >= MaxLogs
        <5>1. Len(g) - i >= MaxLogs
          BY <1>1, <4>1, <4>3, TamperAssumption
        <5> QED
          BY <5>1
      <4>4. CASE Len(r) = MaxLogs /\ Newer(f, r, i)
        <5>1. ASSUME NEW m \in 1..Len(g), NEW j \in 1..Len(r), r[j] = g[m] PROVE i < m
          <6>1. \/ m \in 1..Len(f) /\ f[m] = r[j]
                \/ m = Len(f) + 1
            BY <1>4, <2>1, <5>1
          <6>2. CASE m \in 1..Len(f) /\ f[m] = r[j]
            BY <4>4, <6>2 DEF Newer
          <6>3. CASE m = Len(f) + 1
            BY <4>1, <6>3
          <6> QED
            BY <6>1, <6>2, <6>3
        <5> QED
          BY <4>4, <5>1 DEF Newer
      <4> QED
        BY <4>2, <4>3, <4>4
    <3> QED
      BY <3>1 DEF Recent
  <2> QED
    BY <1>7, <2>2, <2>3 DEF Follows
<1> QED
  BY <1>5, <1>6, <1>7

\* What is read back from the file follows it.
LEMMA LoadedFollows ==
  ASSUME LogTypes, Once(file)
  PROVE  Follows(file, Loaded) /\ \A x : Holds(Loaded, x) => x # Junk /\ Holds(file, x)
<1> DEFINE r == Loaded
           s == LastOf(file, MaxLogs)
           c == Len(file) - Len(s)
<1>1. /\ r \in Seq(Entry) /\ s \in Seq(Entry \cup {Junk})
      /\ Decoded(r, s, Len(s), Entry \cup {Junk})
  BY LoadedFacts
<1>2. /\ Len(s) = IF Len(file) <= MaxLogs THEN Len(file) ELSE MaxLogs
      /\ \A j \in 1..Len(s) : s[j] = file[j + c]
  BY LastOfFacts, TamperAssumption DEF LogTypes
<1>3. Len(file) \in Nat /\ Len(s) \in Nat /\ Len(r) \in Nat /\ MaxLogs \in Nat
  BY <1>1, LenProperties, TamperAssumption DEF LogTypes
<1> HIDE DEF r, s
<1>4. PICK p : Picks(r, s, Len(s), p)
  BY <1>1 DEF Decoded
<1>5. c \in Nat /\ \A j \in 1..Len(s) : j + c \in 1..Len(file)
  BY <1>2, <1>3
<1>6. c = 0 \/ Len(s) = MaxLogs
  BY <1>2, <1>3
<1> HIDE DEF c
<1>7. ASSUME NEW j \in 1..Len(r)
      PROVE  /\ p[j] \in 1..Len(s) /\ p[j] + c \in 1..Len(file)
             /\ r[j] = file[p[j] + c] /\ r[j] # Junk
  <2>1. p[j] \in 1..Len(s) /\ r[j] = s[p[j]] /\ r[j] # Junk
    BY <1>4 DEF Picks
  <2> QED
    BY <1>2, <1>5, <2>1
<1>8. ASSUME NEW i \in 1..Len(file), NEW j \in 1..Len(r), r[j] = file[i]
      PROVE  i = p[j] + c
  BY <1>7, <1>8 DEF Once
<1>9. ASSUME NEW j \in 1..Len(r), NEW k \in 1..Len(r), j < k
      PROVE  p[j] + c < p[k] + c
  <2>1. p[j] < p[k]
    BY <1>4, <1>9 DEF Picks
  <2> QED
    BY <1>5, <1>7, <2>1
<1>10. Distinct(r)
  <2>1. ASSUME NEW j \in 1..Len(r), NEW k \in 1..Len(r), r[j] = r[k] PROVE j = k
    <3>1. p[j] + c = p[k] + c
      BY <1>7, <1>8, <2>1
    <3>2. ~(j < k) /\ ~(k < j)
      <4>1. ASSUME j < k PROVE FALSE
        BY <1>5, <1>7, <1>9, <3>1, <4>1
      <4>2. ASSUME k < j PROVE FALSE
        BY <1>5, <1>7, <1>9, <3>1, <4>2
      <4> QED
        BY <4>1, <4>2
    <3> QED
      BY <1>3, <3>2
  <2> QED
    BY <2>1 DEF Distinct
<1>11. Ordered(file, r)
  BY <1>8, <1>9 DEF Ordered
<1>12. Recent(file, r)
  <2>1. ASSUME NEW i \in 1..Len(file), file[i] # Junk, ~Holds(r, file[i])
        PROVE  Len(file) - i >= MaxLogs
    <3>1. ~(i - c \in 1..Len(s))
      <4>1. SUFFICES ASSUME i - c \in 1..Len(s) PROVE FALSE
        OBVIOUS
      <4>2. s[i - c] = file[i]
        <5>1. i - c + c = i
          BY <1>5
        <5> QED
          BY <1>2, <4>1, <5>1
      <4>3. PICK j \in 1..Len(r) : p[j] = i - c
        BY <1>4, <2>1, <4>1, <4>2 DEF Picks
      <4>4. r[j] = file[i]
        BY <1>4, <4>2, <4>3 DEF Picks
      <4> QED
        BY <2>1, <4>4 DEF Holds
    <3> QED
      BY <1>3, <1>5, <1>6, <3>1 DEF c
  <2> QED
    BY <2>1 DEF Recent
<1>13. \A x : Holds(r, x) => x # Junk /\ Holds(file, x)
  BY <1>7 DEF Holds
<1> QED
  BY <1>10, <1>11, <1>12, <1>13 DEF Follows, r

-----------------------------------------------------------------------------
(* The view from memory.                                                   *)

\* Operations have numbers of their own in the file and the ring as well: what
\* a handler has still to log is not on the ring, what it has still to write is
\* not in the file, and what it writes it has pushed last.
Logged(s, n) == \E i \in 1..Len(s) : s[i].n = n
FreshOK ==
  /\ \A n : Logged(file, n) \/ Logged(ring, n) => n \in 0..begun
  /\ \A t \in All : pc[t] \in {"device", "log", "write"} => ~Logged(file, doing[t].n)
  /\ \A t \in All : pc[t] \in {"device", "log"} => ~Logged(ring, doing[t].n)
  /\ \A t \in All : pc[t] = "write" => ring # <<>> /\ ring[Len(ring)] = doing[t]

RingOK == Once(file) /\ FreshOK /\ (up => Follows(file, ring))

\* A line is joined to the file, whole or in part, or it is not.
LEMMA WriteGrows ==
  ASSUME IInv, LogTypes, NEW e \in Entry, Partial(e) \/ file' = Joined(file, e)
  PROVE  Grows(file, file', e)
<1>1. /\ file \in Seq(Line) /\ tail \in {"closed", "open"} /\ TailOK
      /\ e \in Line /\ Junk \in Line
  BY EntryLines DEF IInv, TypesOK
<1>2. ASSUME NEW x \in {e, Junk} PROVE Grows(file, Joined(file, x), e)
  <2> DEFINE g == Joined(file, x)
  <2>1. CASE tail = "closed"
    <3>1. /\ Len(g) = Len(file) + 1
          /\ \A i \in 1..Len(file) : g[i] = file[i]
          /\ g[Len(file) + 1] = x
      BY <1>1, <2>1, JoinedAt
    <3> HIDE DEF g
    <3>2. Grows(file, g, e)
      BY <3>1 DEF Grows
    <3> QED
      BY <3>2 DEF g
  <2>2. CASE tail = "open"
    <3>1. /\ Len(g) = Len(file)
          /\ \A i \in 1..Len(file) : g[i] = IF i = Len(file) THEN Junk ELSE file[i]
      BY <1>1, <2>2, JoinedAt
    <3> HIDE DEF g
    <3>2. Grows(file, g, e)
      BY <3>1 DEF Grows
    <3> QED
      BY <3>2 DEF g
  <2> QED
    BY <1>1, <2>1, <2>2
<1>3. Grows(file, file, e)
  BY DEF Grows
<1> QED
  BY <1>2, <1>3 DEF Partial

\* What is logged where, after a step of the log.
LEMMA LoggedHolds ==
  ASSUME NEW s, NEW x, Holds(s, x) PROVE Logged(s, x.n)
BY DEF Holds, Logged

LEMMA GrowthLogged ==
  ASSUME NEW f, Len(f) \in Nat, NEW g, NEW e \in Entry, Grows(f, g, e), NEW n, Logged(g, n)
  PROVE  Logged(f, n) \/ n = e.n \/ n = 0
<1>1. PICK i \in 1..Len(g) : g[i].n = n
  BY DEF Logged
<1>2. \/ i \in 1..Len(f) /\ g[i] = f[i]
      \/ g[i] \in {e, Junk}
  BY DEF Grows
<1> QED
  BY <1>1, <1>2 DEF Logged, Junk

LEMMA PushedLogged ==
  ASSUME NEW q, NEW r, NEW e, \A x : Holds(q, x) => Holds(r, x) \/ x = e, NEW n, Logged(q, n)
  PROVE  Logged(r, n) \/ n = e.n
<1>1. PICK i \in 1..Len(q) : q[i].n = n
  BY DEF Logged
<1>2. Holds(r, q[i]) \/ q[i] = e
  BY DEF Holds
<1> QED
  BY <1>1, <1>2, LoggedHolds

\* A write ends, well or not.
LEMMA WriteEnds ==
  ASSUME IInv, RangesOK, RingOK, NEW t \in All, up, pc[t] = "write",
         Grows(file, file', doing[t]), pc' = [pc EXCEPT ![t] = "reply"],
         UNCHANGED <<ring, doing, begun, up>>
  PROVE  RingOK'
<1> DEFINE e == doing[t]
           g == file'
<1>1. /\ Len(file) \in Nat /\ ring \in Seq(Entry) /\ e \in Entry /\ e # Junk
      /\ Once(file) /\ Follows(file, ring) /\ begun \in Nat
      /\ ring # <<>> /\ ring[Len(ring)] = e /\ ~Logged(file, e.n)
  BY RangesParts, LenProperties, EntryLines
     DEF RingOK, FreshOK, LogTypes, HandlerTypes, IInv, TypesOK, Busy
<1>2. ~Holds(file, e)
  BY <1>1, LoggedHolds
<1>3. /\ \A u \in All \ {t} : pc'[u] = pc[u]
      /\ pc'[t] = "reply"
      /\ \A u \in All : pc[u] = "write" => u = t
  BY RangesParts DEF HandlerTypes
<1>4. \A u \in All \ {t} : pc[u] # "idle" => doing[u].n # e.n /\ doing[u].n # 0
  <2>1. \A u \in All \ {t} : Busy(u) => doing[u].n # e.n /\ doing[u].n \in 1..begun
    BY DEF IInv, NumbersOK, Busy
  <2> QED
    BY <1>1, <2>1 DEF Busy
<1>5. e.n \in 1..begun
  BY DEF IInv, NumbersOK, Busy
<1>6. Grows(file, g, e)
  OBVIOUS
<1> HIDE DEF e, g
<1>7. Once(g) /\ Follows(g, ring)
  BY <1>1, <1>2, <1>6, GrowthKeeps
<1>8. \A n : Logged(g, n) => Logged(file, n) \/ n = e.n \/ n = 0
  BY <1>1, <1>6, GrowthLogged
<1>9. /\ \A n : Logged(g, n) \/ Logged(ring, n) => n \in 0..begun
      /\ \A u \in All : pc'[u] \in {"device", "log", "write"} => ~Logged(g, doing[u].n)
      /\ \A u \in All : pc'[u] \in {"device", "log"} => ~Logged(ring, doing[u].n)
      /\ \A u \in All : pc'[u] # "write"
  <2>1. /\ \A n : Logged(file, n) \/ Logged(ring, n) => n \in 0..begun
        /\ \A u \in All : pc[u] \in {"device", "log", "write"} => ~Logged(file, doing[u].n)
        /\ \A u \in All : pc[u] \in {"device", "log"} => ~Logged(ring, doing[u].n)
    BY DEF RingOK, FreshOK
  <2>2. 0 \in 0..begun /\ e.n \in 0..begun
    BY <1>1, <1>5
  <2>3. \A u \in All : pc'[u] \in {"device", "log", "write"} => u # t /\ pc'[u] = pc[u]
    BY <1>3
  <2>4. \A n : Logged(g, n) \/ Logged(ring, n) => n \in 0..begun
    BY <1>8, <2>1, <2>2
  <2>5. ASSUME NEW u \in All, pc'[u] \in {"device", "log", "write"}
        PROVE  ~Logged(g, doing[u].n)
    BY <1>4, <1>8, <2>1, <2>3, <2>5
  <2>6. \A u \in All : pc'[u] \in {"device", "log"} => ~Logged(ring, doing[u].n)
    BY <2>1, <2>3
  <2>7. \A u \in All : pc'[u] # "write"
    BY <1>3
  <2> QED
    BY <2>4, <2>5, <2>6, <2>7
<1> QED
  BY <1>7, <1>9 DEF RingOK, FreshOK, g

\* An entry is logged.
LEMMA LogBeginRing ==
  ASSUME IInv, RangesOK, RingOK, NEW t \in All, LogBegin(t)
  PROVE  RingOK'
<1> DEFINE e == doing[t]
           q == ring'
<1>1. /\ up /\ pc[t] = "log" /\ lock = None /\ q = LastOf(Append(ring, e), MaxLogs)
      /\ pc' = [pc EXCEPT ![t] = "write"]
      /\ UNCHANGED <<up, file, doing, begun>>
  BY DEF LogBegin, Pushed, Goto
<1>2. /\ Len(file) \in Nat /\ ring \in Seq(Entry) /\ Len(ring) <= MaxLogs /\ e \in Entry
      /\ Once(file) /\ Follows(file, ring)
      /\ ~Logged(file, e.n) /\ ~Logged(ring, e.n) /\ e.n \in 0..begun
  <2>1. e.n \in 1..begun /\ begun \in Nat
    BY <1>1 DEF IInv, NumbersOK, TypesOK, Busy
  <2>2. ~Logged(file, e.n) /\ ~Logged(ring, e.n)
    BY <1>1 DEF RingOK, FreshOK
  <2>3. e \in Entry /\ Len(file) \in Nat /\ ring \in Seq(Entry) /\ Len(ring) <= MaxLogs
    BY <1>1, RangesParts, LenProperties DEF LogTypes, HandlerTypes, Busy
  <2> QED
    BY <1>1, <2>1, <2>2, <2>3 DEF RingOK
<1>3. ~Holds(file, e) /\ ~Holds(ring, e)
  BY <1>2, LoggedHolds
<1>4. /\ \A u \in All \ {t} : pc'[u] = pc[u]
      /\ pc'[t] = "write"
      /\ \A u \in All : pc[u] # "write"
  BY <1>1, RangesParts, TamperAssumption DEF HandlerTypes, All
<1>5. \A u \in All \ {t} : pc[u] # "idle" => doing[u].n # e.n
  BY <1>1 DEF IInv, NumbersOK, Busy
<1> HIDE DEF e, q
<1>6. Follows(file, q) /\ \A x : Holds(q, x) => Holds(ring, x) \/ x = e
  BY <1>1, <1>2, <1>3, PushKeeps
<1>7. q # <<>> /\ q[Len(q)] = e
  <2>1. Len(q) \in Nat /\ Len(q) >= 1 /\ q[Len(q)] = e
    BY <1>1, <1>2, PushedAt
  <2>2. Len(<<>>) = 0
    OBVIOUS
  <2> QED
    BY <2>1, <2>2
<1>8. \A n : Logged(q, n) => Logged(ring, n) \/ n = e.n
  BY <1>6, PushedLogged
<1>9. /\ \A n : Logged(file, n) \/ Logged(q, n) => n \in 0..begun
      /\ \A u \in All : pc'[u] \in {"device", "log", "write"} => ~Logged(file, doing[u].n)
      /\ \A u \in All : pc'[u] \in {"device", "log"} => ~Logged(q, doing[u].n)
      /\ \A u \in All : pc'[u] = "write" => q # <<>> /\ q[Len(q)] = doing[u]
  <2>1. /\ \A n : Logged(file, n) \/ Logged(ring, n) => n \in 0..begun
        /\ \A u \in All : pc[u] \in {"device", "log", "write"} => ~Logged(file, doing[u].n)
        /\ \A u \in All : pc[u] \in {"device", "log"} => ~Logged(ring, doing[u].n)
    BY DEF RingOK, FreshOK
  <2>2. \A u \in All : pc'[u] = "write" => u = t
    BY <1>4
  <2>3. ASSUME NEW u \in All, pc'[u] \in {"device", "log"}
        PROVE  ~Logged(q, doing[u].n)
    <3>1. u # t /\ pc[u] = pc'[u]
      BY <1>4, <2>3
    <3> QED
      BY <1>5, <1>8, <2>1, <2>3, <3>1
  <2>4. ASSUME NEW u \in All, pc'[u] \in {"device", "log", "write"}
        PROVE  ~Logged(file, doing[u].n)
    BY <1>1, <1>4, <2>1, <2>4
  <2> QED
    BY <1>2, <1>7, <1>8, <2>1, <2>2, <2>3, <2>4 DEF e
<1>10. Follows(file, ring)' /\ Once(file)'
  BY <1>1, <1>2, <1>6 DEF q
<1> QED
  BY <1>1, <1>9, <1>10 DEF RingOK, FreshOK, q

\* A handler or a start takes a number that is new to the log.
LEMMA BeginRing ==
  ASSUME IInv, FreshOK, NEW t \in All, NEW kind, NEW where \in {"device", "log"},
         begun' = begun + 1,
         doing' = [doing EXCEPT ![t] = [n |-> begun + 1, kind |-> kind, ok |-> TRUE]],
         pc' = [pc EXCEPT ![t] = where], UNCHANGED file,
         \A n : Logged(ring', n) => n \in 0..begun,
         ring' = ring \/ \A u \in All : pc[u] = "idle"
  PROVE  FreshOK'
<1> DEFINE q == ring'
<1>1. /\ begun \in Nat
      /\ \A u \in All \ {t} : doing'[u] = doing[u] /\ pc'[u] = pc[u]
      /\ pc'[t] = where /\ doing'[t].n = begun + 1
  BY DEF IInv, TypesOK
<1>2. /\ \A n : Logged(file, n) => n \in 0..begun
      /\ \A n : Logged(q, n) => n \in 0..begun
  BY DEF FreshOK
<1>3. begun + 1 \notin 0..begun
  BY <1>1
<1>4. \A n : Logged(file, n) \/ Logged(q, n) => n \in 0..(begun + 1)
  BY <1>1, <1>2
<1> QED
  BY <1>1, <1>2, <1>3, <1>4 DEF FreshOK, q

LEMMA StartRing ==
  ASSUME IInv, RangesOK, RingOK, Start PROVE RingOK'
<1>1. /\ ~up /\ ring' = Loaded /\ UNCHANGED file /\ begun' = begun + 1
      /\ doing' = [doing EXCEPT ![Main] = [n |-> begun + 1, kind |-> "startup", ok |-> TRUE]]
      /\ pc' = [pc EXCEPT ![Main] = "log"]
  BY DEF Start, Goto
<1>2. /\ LogTypes /\ Once(file) /\ FreshOK /\ Main \in All
      /\ \A u \in All : pc[u] = "idle"
  BY <1>1, RangesParts DEF RingOK, All, Busy
<1>3. /\ Follows(file, Loaded)
      /\ \A x : Holds(Loaded, x) => Holds(file, x)
  BY <1>2, LoadedFollows
<1>4. \A n : Logged(Loaded, n) => Logged(file, n)
  <2>1. \A i \in 1..Len(Loaded) : Holds(file, Loaded[i])
    BY <1>3 DEF Holds
  <2> QED
    BY <2>1, LoggedHolds DEF Logged
<1>5. \A n : Logged(ring', n) => n \in 0..begun
  BY <1>1, <1>2, <1>4 DEF FreshOK
<1>6. FreshOK'
  BY <1>1, <1>2, <1>5, BeginRing
<1> QED
  BY <1>1, <1>2, <1>3, <1>6 DEF RingOK

LEMMA CrashRing ==
  ASSUME IInv, RangesOK, RingOK, Crash PROVE RingOK'
<1>1. /\ up' = FALSE /\ ring' = <<>> /\ begun' = begun
      /\ pc' = [u \in All |-> "idle"]
  BY DEF Crash
<1>2. /\ LogTypes /\ Once(file) /\ Len(file) \in Nat /\ begun \in Nat
      /\ \A n : Logged(file, n) => n \in 0..begun
  BY RangesParts, LenProperties DEF RingOK, FreshOK, LogTypes, IInv, TypesOK
<1> DEFINE g == file'
<1>3. Once(g) /\ \A n : Logged(g, n) => n \in 0..begun
  <2>1. CASE UNCHANGED file
    BY <1>2, <2>1
  <2>2. ASSUME NEW t \in All, pc[t] = "write", Partial(doing[t])
        PROVE  Once(g) /\ \A n : Logged(g, n) => n \in 0..begun
    <3> DEFINE e == doing[t]
    <3>1. /\ e \in Entry /\ e # Junk /\ e.n \in 1..begun
          /\ Grows(file, g, e) /\ ~Logged(file, e.n)
      <4>1. e \in Entry /\ e.n \in 1..begun /\ ~Logged(file, e.n)
        BY <2>2, RangesParts
           DEF HandlerTypes, Busy, IInv, NumbersOK, RingOK, FreshOK
      <4> QED
        BY <1>2, <2>2, <4>1, WriteGrows, EntryLines
    <3>2. ~Holds(file, e)
      BY <3>1, LoggedHolds
    <3> HIDE DEF e, g
    <3>3. Once(g)
      BY <1>2, <3>1, <3>2, GrowthKeeps
    <3>4. \A n : Logged(g, n) => Logged(file, n) \/ n = e.n \/ n = 0
      BY <1>2, <3>1, GrowthLogged
    <3>5. 0 \in 0..begun /\ e.n \in 0..begun
      BY <1>2, <3>1
    <3> QED
      BY <1>2, <3>3, <3>4, <3>5
  <2> QED
    BY <2>1, <2>2 DEF Crash
<1>4. \A n : ~Logged(<<>>, n)
  BY DEF Logged
<1> QED
  BY <1>1, <1>3, <1>4 DEF RingOK, FreshOK

LEMMA RingStep == IInv /\ RangesOK /\ RingOK /\ [Next]_vars => RingOK'
<1> SUFFICES ASSUME IInv, RangesOK, RingOK, [Next]_vars PROVE RingOK'
  OBVIOUS
<1>1. /\ LogTypes /\ HandlerTypes /\ IInv /\ TypesOK
      /\ Once(file) /\ FreshOK /\ (up => Follows(file, ring))
      /\ \A n : Logged(ring, n) => n \in 0..begun
  BY RangesParts DEF RingOK, FreshOK, IInv
<1>2. ASSUME NEW t \in Threads, NEW kind \in Offered, Begin(t, kind) PROVE RingOK'
  <2>1. PICK where \in {"device", "log"} : pc' = [pc EXCEPT ![t] = where]
    BY <1>2 DEF Begin, Goto
  <2>2. /\ begun' = begun + 1 /\ UNCHANGED <<up, file, ring>> /\ t \in All
        /\ doing' = [doing EXCEPT ![t] = [n |-> begun + 1, kind |-> kind, ok |-> TRUE]]
    BY <1>2 DEF Begin, All
  <2>3. \A n : Logged(ring', n) => n \in 0..begun
    BY <1>1, <2>2
  <2>4. FreshOK'
    BY <1>1, <2>1, <2>2, <2>3, BeginRing
  <2> QED
    BY <1>1, <2>2, <2>4 DEF RingOK
<1>3. ASSUME NEW t \in All, Device(t) PROVE RingOK'
  <2>1. PICK ok \in BOOLEAN, where \in {"log", "reply"} :
          /\ doing' = [doing EXCEPT ![t] = [doing[t] EXCEPT !.ok = ok]]
          /\ pc' = [pc EXCEPT ![t] = where]
    BY <1>3 DEF Device, Goto
  <2>2. pc[t] = "device" /\ UNCHANGED <<up, file, ring, begun>>
    BY <1>3 DEF Device
  <2>3. /\ \A u \in All : doing'[u].n = doing[u].n
        /\ \A u \in All \ {t} : doing'[u] = doing[u] /\ pc'[u] = pc[u]
        /\ pc'[t] \in {"log", "reply"}
    <3>1. /\ [doing[t] EXCEPT !.ok = ok].n = doing[t].n
          /\ doing \in [All -> Line] /\ pc \in [All -> {"idle", "device", "log", "write", "reply"}]
      BY <1>1 DEF TypesOK, Line
    <3> QED
      BY <2>1, <3>1
  <2>4. FreshOK'
    <3>1. /\ \A n : Logged(file, n) \/ Logged(ring, n) => n \in 0..begun
          /\ \A u \in All : pc[u] \in {"device", "log", "write"} => ~Logged(file, doing[u].n)
          /\ \A u \in All : pc[u] \in {"device", "log"} => ~Logged(ring, doing[u].n)
          /\ \A u \in All : pc[u] = "write" => ring # <<>> /\ ring[Len(ring)] = doing[u]
      BY <1>1 DEF FreshOK
    <3>2. \A u \in All : pc'[u] \in {"device", "log", "write"} => ~Logged(file, doing'[u].n)
      BY <2>2, <2>3, <3>1
    <3>3. \A u \in All : pc'[u] \in {"device", "log"} => ~Logged(ring, doing'[u].n)
      BY <2>2, <2>3, <3>1
    <3>4. \A u \in All : pc'[u] = "write" => ring # <<>> /\ ring[Len(ring)] = doing'[u]
      BY <2>3, <3>1
    <3> QED
      BY <2>2, <3>1, <3>2, <3>3, <3>4 DEF FreshOK
  <2> QED
    BY <1>1, <2>2, <2>4 DEF RingOK
<1>4. ASSUME NEW t \in All, LogWrite(t) \/ LogWriteFails(t) PROVE RingOK'
  <2>1. /\ up /\ pc[t] = "write" /\ pc' = [pc EXCEPT ![t] = "reply"]
        /\ UNCHANGED <<ring, doing, begun, up>>
        /\ Partial(doing[t]) \/ file' = Joined(file, doing[t])
    BY <1>4 DEF LogWrite, LogWriteFails, Goto
  <2>2. doing[t] \in Entry
    BY <1>1, <2>1 DEF HandlerTypes, Busy
  <2>3. Grows(file, file', doing[t])
    BY <1>1, <2>1, <2>2, WriteGrows
  <2> QED
    BY <2>1, <2>3, WriteEnds
<1>5. ASSUME NEW t \in All, Reply(t) PROVE RingOK'
  <2>1. /\ UNCHANGED <<up, file, ring, begun>>
        /\ pc' = [pc EXCEPT ![t] = "idle"] /\ doing' = [doing EXCEPT ![t] = NoEntry]
    BY <1>5 DEF Reply, Goto
  <2>2. /\ \A u \in All \ {t} : doing'[u] = doing[u] /\ pc'[u] = pc[u]
        /\ pc'[t] = "idle"
    BY <1>1, <2>1 DEF TypesOK
  <2>3. FreshOK'
    BY <1>1, <2>1, <2>2 DEF FreshOK
  <2> QED
    BY <1>1, <2>1, <2>3 DEF RingOK
<1>6. CASE UNCHANGED vars
  BY <1>1, <1>6 DEF vars, RingOK, FreshOK
<1> QED
  BY <1>2, <1>3, <1>4, <1>5, <1>6, LogBeginRing, CrashRing, StartRing
  DEF Next, Handler, Log

LEMMA RingInit == Init => RingOK
<1>1. \A n : ~Logged(<<>>, n)
  BY DEF Logged
<1>2. Once(<<>>)
  BY DEF Once
<1> QED
  BY <1>1, <1>2 DEF Init, RingOK, FreshOK

\* Counting: a full ring that holds nothing of the first i lines has room for
\* the rest of the file, and what is not in the file makes up the difference.
LEMMA FullRing ==
  ASSUME file \in Seq(Entry \cup {Junk}), ring \in Seq(Entry), NEW i \in 1..Len(file),
         Distinct(ring), Len(ring) = MaxLogs, Newer(file, ring, i)
  PROVE  Len(file) - i + Cardinality(InRing \ InFile) >= MaxLogs
<1> DEFINE n == Len(file)
           a == [j \in 1..MaxLogs |-> ring[j]]
           b == [m \in (i + 1)..n |-> file[m]]
           B == {file[m] : m \in (i + 1)..n}
           C == InRing \ InFile
<1>1. n \in Nat /\ MaxLogs \in Nat /\ i \in Nat /\ i <= n
  BY LenProperties, TamperAssumption
<1>2. DOMAIN ring = 1..MaxLogs /\ DOMAIN file = 1..n
  BY LenProperties
<1>3. IsFiniteSet(InRing) /\ Cardinality(InRing) = MaxLogs
  <2>1. a \in Bijection(1..MaxLogs, InRing)
    <3>1. a \in [1..MaxLogs -> InRing]
      BY <1>2 DEF InRing
    <3>2. \A j, k \in 1..MaxLogs : a[j] = a[k] => j = k
      BY DEF Distinct
    <3>3. \A x \in InRing : \E j \in 1..MaxLogs : a[j] = x
      BY <1>2 DEF InRing
    <3> HIDE DEF a
    <3> QED
      BY <3>1, <3>2, <3>3 DEF Bijection, Injection, Surjection, IsInjective
  <2>2. ExistsBijection(1..MaxLogs, InRing)
    BY <2>1 DEF ExistsBijection
  <2>3. IsFiniteSet(1..MaxLogs) /\ Cardinality(1..MaxLogs) = MaxLogs
    BY <1>1, FS_Interval
  <2> QED
    BY <2>2, <2>3, FS_Bijection
<1>4. IsFiniteSet(B) /\ Cardinality(B) <= n - i /\ Cardinality(B) \in Nat
  <2>1. b \in Surjection((i + 1)..n, B)
    BY DEF Surjection
  <2>2. IsFiniteSet((i + 1)..n) /\ Cardinality((i + 1)..n) = n - i
    <3>1. i + 1 \in Int /\ n \in Int
      BY <1>1
    <3>2. /\ IsFiniteSet((i + 1)..n)
          /\ Cardinality((i + 1)..n) = IF i + 1 > n THEN 0 ELSE n - (i + 1) + 1
      BY <3>1, FS_Interval
    <3> QED
      BY <1>1, <3>2
  <2> HIDE DEF b, B
  <2> QED
    BY <2>1, <2>2, FS_Surjection, FS_CardinalityType
<1>5. InRing \subseteq B \cup C
  <2>1. ASSUME NEW j \in 1..MaxLogs, NEW m \in 1..n, ring[j] = file[m]
        PROVE  m \in (i + 1)..n
    BY <1>1, <2>1 DEF Newer
  <2> QED
    BY <1>2, <2>1 DEF InRing, InFile
<1>6. IsFiniteSet(C) /\ Cardinality(C) \in Nat
  BY <1>3, FS_Subset, FS_CardinalityType
<1> HIDE DEF B, C, n
<1>7. /\ IsFiniteSet(B \cup C)
      /\ Cardinality(B \cup C) = Cardinality(B) + Cardinality(C) - Cardinality(B \cap C)
  BY <1>4, <1>6, FS_Union
<1>8. Cardinality(B \cap C) \in Nat
  BY <1>4, FS_Subset, FS_CardinalityType
<1>9. MaxLogs <= Cardinality(B \cup C)
  BY <1>3, <1>5, <1>7, FS_Subset
<1>10. n - i + Cardinality(C) >= MaxLogs
  BY <1>1, <1>4, <1>6, <1>7, <1>8, <1>9
<1> QED
  BY <1>10 DEF n, C

LEMMA RingOKCurrent == RangesOK /\ RingOK => RingCurrent
<1> SUFFICES ASSUME RangesOK, RingOK, up, NEW i \in DOMAIN file,
                    file[i] # Junk, file[i] \notin InRing
             PROVE  Len(file) - i + Cardinality(InRing \ InFile) >= MaxLogs
  BY DEF RingCurrent
<1>1. /\ file \in Seq(Entry \cup {Junk}) /\ ring \in Seq(Entry)
      /\ i \in 1..Len(file) /\ Len(file) \in Nat /\ MaxLogs \in Nat
      /\ Distinct(ring) /\ Recent(file, ring)
  BY RangesParts, LenProperties, TamperAssumption DEF LogTypes, RingOK, Follows
<1>2. ~Holds(ring, file[i])
  BY <1>1, LenProperties DEF Holds, InRing
<1>3. \/ Len(file) - i >= MaxLogs
      \/ Len(ring) = MaxLogs /\ Newer(file, ring, i)
  BY <1>1, <1>2 DEF Recent
<1>4. Cardinality(InRing \ InFile) \in Nat
  <2> DEFINE a == [j \in 1..Len(ring) |-> ring[j]]
  <2>1. DOMAIN ring = 1..Len(ring) /\ Len(ring) \in Int
    BY <1>1, LenProperties
  <2>2. a \in Surjection(1..Len(ring), InRing)
    BY <2>1 DEF Surjection, InRing
  <2>3. IsFiniteSet(1..Len(ring))
    BY <2>1, FS_Interval
  <2> HIDE DEF a
  <2>4. IsFiniteSet(InRing)
    BY <2>2, <2>3, FS_Surjection
  <2>5. IsFiniteSet(InRing \ InFile)
    BY <2>4, FS_Subset
  <2> QED
    BY <2>5, FS_CardinalityType
<1>5. CASE Len(ring) = MaxLogs /\ Newer(file, ring, i)
  BY <1>1, <1>5, FullRing
<1>6. CASE Len(file) - i >= MaxLogs
  <2>1. \A k \in Nat : Len(file) - i + k >= MaxLogs
    BY <1>1, <1>6
  <2> QED
    BY <1>4, <2>1
<1> QED
  BY <1>3, <1>5, <1>6

-----------------------------------------------------------------------------
(* The theorems.                                                           *)

\* Whatever the handlers, the faults and the restarts: the state keeps its
\* types, and the lock is with the thread that writes and with nobody else.
THEOREM TypeCorrect == Spec => []TypeOK
<1>1. RangesOK => TypeOK
  BY DEF RangesOK
<1> QED
  BY <1>1, RangesInit, RangesStep, Invariant, PTL DEF Spec

\* get_logs(from_file=False): an entry that the file holds and the view from
\* memory does not has been pushed out by MaxLogs newer ones, however the
\* writers interleave, their writes fail and the process restarts.
THEOREM RingAlwaysCurrent == Spec => []RingCurrent
<1> QED
  BY RangesInit, RangesStep, RingInit, RingStep, RingOKCurrent, Invariant, PTL DEF Spec
=============================================================================
