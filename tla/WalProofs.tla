------------------------------- MODULE WalProofs -------------------------------
(***************************************************************************)
(* For any number of records, failures and recoveries: what was answered   *)
(* Ok on a log that was recovered first is always recovered, and nothing   *)
(* is recovered twice or out of order.                                     *)
(***************************************************************************)
EXTENDS Wal, SequenceTheorems, TLAPS

\* Records carry increasing numbers of calls that were made.
Sorted(items) ==
  /\ \A i \in 1..Len(items) : items[i].id < next
  /\ \A i, j \in 1..Len(items) :
       i < j /\ items[i].kind = "record" /\ items[j].kind = "record"
         => items[i].id < items[j].id

\* Record n is the i-th item of both files, which are the same and whole up to it.
SafeAt(n, i) ==
  /\ i <= Len(medium.items) /\ i <= Len(cache.items)
  /\ medium.items[i] = Record(n)
  /\ \A j \in 1..i : /\ cache.items[j] = medium.items[j]
                     /\ cache.items[j].kind # "torn"

TypeInv ==
  /\ cache \in Files /\ medium \in Files
  /\ pc \in {"down", "created", "open", "length", "checksum", "payload"}
  /\ next \in 1..MaxRecords + 1
  /\ acked \subseteq 1..MaxRecords
  /\ dirty \in BOOLEAN

\* Where append is, its record is the last item; a file without a header is empty.
PlaceInv ==
  /\ pc \in {"length", "checksum"} =>
       /\ Len(cache.items) > 0 /\ cache.items[Len(cache.items)] = Torn
       /\ \A i \in 1..Len(cache.items) : cache.items[i].id < next - 1
  /\ pc = "payload" =>
       Len(cache.items) > 0 /\ cache.items[Len(cache.items)] = Record(next - 1)
  /\ pc \in {"length", "checksum", "payload"} => next > 1
  /\ cache.header = "none" => cache.items = <<>> /\ pc = "down"
  /\ pc = "created" => cache.items = <<>> /\ cache.header = "ok"

\* On a clean log nothing is torn but the record being written.
CleanInv ==
  /\ pc \in {"down", "created"} => dirty
  /\ ~dirty =>
       /\ cache.header = "ok"
       /\ \A i \in 1..Len(cache.items) :
            cache.items[i].kind = "torn" => i = Len(cache.items) /\ pc \in {"length", "checksum"}

AckedInv ==
  \A n \in acked :
    /\ cache.header = "ok" /\ medium.header = "ok"
    /\ \E i \in 1..Len(cache.items) : SafeAt(n, i)

IInv ==
  /\ TypeInv /\ PlaceInv /\ CleanInv /\ AckedInv
  /\ Sorted(cache.items) /\ Sorted(medium.items)

-----------------------------------------------------------------------------
(* What the definitions hold.                                              *)

LEMMA ItemTypes ==
  /\ \A n \in 1..MaxRecords : Record(n) \in Items
  /\ Torn \in Items /\ Zeros \in Items
BY WalAssumption DEF Record, Torn, Zeros, Items

LEMMA FileItems ==
  ASSUME NEW f \in Files
  PROVE  /\ f.items \in Seq(Items) /\ Len(f.items) \in Nat
         /\ \A i \in 1..Len(f.items) : f.items[i] \in Items
BY DEF Files

LEMMA ItemFields ==
  ASSUME NEW x \in Items
  PROVE  x.kind \in {"record", "torn", "zeros"} /\ x.id \in 0..MaxRecords
BY DEF Items

LEMMA WithItems ==
  ASSUME NEW f \in Files, NEW s \in Seq(Items)
  PROVE  LET g == [f EXCEPT !.items = s]
         IN g \in Files /\ g.items = s /\ g.header = f.header
BY DEF Files

\* A prefix, possibly with a piece or zeros behind it.
Beginning(s, c) ==
  \E k \in 0..Len(c) : \/ s = SubSeq(c, 1, k)
                       \/ \E x \in {Torn, Zeros} : s = Append(SubSeq(c, 1, k), x)

LEMMA BeginningSorted ==
  ASSUME IInv, NEW s, Beginning(s, cache.items)
  PROVE  s \in Seq(Items) /\ Sorted(s)
PROOF
<1> DEFINE c == cache.items
<1>1. c \in Seq(Items) /\ Len(c) \in Nat /\ \A i \in 1..Len(c) : c[i] \in Items
  BY FileItems DEF IInv, TypeInv
<1>2. next \in Nat /\ next >= 1
  BY WalAssumption DEF IInv, TypeInv
<1>3. PICK k \in 0..Len(c) : \/ s = SubSeq(c, 1, k)
                             \/ \E x \in {Torn, Zeros} : s = Append(SubSeq(c, 1, k), x)
  BY DEF Beginning
<1>4. /\ SubSeq(c, 1, k) \in Seq(Items) /\ Len(SubSeq(c, 1, k)) = k
      /\ \A i \in 1..k : SubSeq(c, 1, k)[i] = c[i]
  BY <1>1
<1>5. /\ \A i \in 1..k : c[i].id < next
      /\ \A i, j \in 1..k : i < j /\ c[i].kind = "record" /\ c[j].kind = "record"
                              => c[i].id < c[j].id
  BY <1>1 DEF IInv, Sorted
<1>6. CASE s = SubSeq(c, 1, k)
  BY <1>4, <1>5, <1>6 DEF Sorted
<1>7. CASE \E x \in {Torn, Zeros} : s = Append(SubSeq(c, 1, k), x)
  <2>1. PICK x \in {Torn, Zeros} : s = Append(SubSeq(c, 1, k), x)
    BY <1>7
  <2>2. x \in Items /\ x.kind # "record" /\ x.id = 0
    BY ItemTypes DEF Torn, Zeros
  <2>3. s \in Seq(Items) /\ Len(s) = k + 1 /\ s[k + 1] = x /\ \A i \in 1..k : s[i] = c[i]
    BY <2>1, <2>2, <1>4
  <2> HIDE DEF c
  <2>4. \A i \in 1..Len(s) : i \in 1..k \/ i = k + 1
    BY <2>3
  <2>5. \A i \in 1..Len(s) : s[i].id < next
    BY <2>2, <2>3, <2>4, <1>5, <1>2
  <2>6. \A i, j \in 1..Len(s) :
          i < j /\ s[i].kind = "record" /\ s[j].kind = "record" => s[i].id < s[j].id
    BY <2>2, <2>3, <2>4, <1>5
  <2> QED BY <2>3, <2>5, <2>6 DEF Sorted
<1> QED BY <1>3, <1>6, <1>7

-----------------------------------------------------------------------------
(* The steps.                                                              *)

LEMMA InitOK == Init => IInv
BY WalAssumption DEF Init, IInv, TypeInv, PlaceInv, CleanInv, AckedInv, Sorted, NewFile, Files, Items

\* Actions that leave both files alone.
LEMMA QuietOK ==
  ASSUME IInv, Open \/ WriteChecksum \/ Fail \/ FailOpen \/ Crash
  PROVE  IInv'
PROOF
<1>1. UNCHANGED <<cache, medium, next, acked>>
  BY DEF Open, WriteChecksum, Fail, FailOpen, Crash
<1>2. TypeInv' /\ PlaceInv' /\ CleanInv'
  BY <1>1 DEF IInv, TypeInv, PlaceInv, CleanInv, Open, WriteChecksum, Fail, FailOpen, Crash
<1>3. AckedInv' /\ Sorted(cache.items)' /\ Sorted(medium.items)'
  BY <1>1 DEF IInv, AckedInv, SafeAt, Sorted
<1> QED BY <1>2, <1>3 DEF IInv

LEMMA CreateOK == ASSUME IInv, Create PROVE IInv'
PROOF
<1>1. /\ cache.header = "none" /\ cache.items = <<>> /\ pc = "down" /\ dirty
      /\ cache' = [cache EXCEPT !.header = "ok"] /\ pc' = "created"
      /\ UNCHANGED <<medium, next, acked, dirty>>
  BY DEF IInv, PlaceInv, CleanInv, Create
<1>2. cache' \in Files /\ cache'.items = <<>> /\ cache'.header = "ok"
  BY <1>1 DEF IInv, TypeInv, Files
<1>3. acked' = {}
  BY <1>1 DEF IInv, AckedInv
<1>4. TypeInv' /\ PlaceInv' /\ CleanInv' /\ AckedInv'
  BY <1>1, <1>2, <1>3 DEF IInv, TypeInv, PlaceInv, CleanInv, AckedInv
<1>5. Sorted(cache.items)' /\ Sorted(medium.items)'
  BY <1>1, <1>2 DEF IInv, Sorted
<1> QED BY <1>4, <1>5 DEF IInv

\* Both syncs.
LEMMA SyncKeepsOrder ==
  ASSUME IInv, medium' = cache, UNCHANGED <<cache, next>>
  PROVE  /\ Sorted(cache.items)' /\ Sorted(medium.items)' /\ medium' \in Files
         /\ \A n \in acked : /\ (cache.header = "ok" /\ medium.header = "ok")'
                             /\ \E i \in 1..Len(cache'.items) : SafeAt(n, i)'
PROOF
<1>1. Sorted(cache.items)' /\ Sorted(medium.items)' /\ medium' \in Files
  BY DEF IInv, Sorted, TypeInv
<1>2. ASSUME NEW n \in acked
      PROVE  /\ (cache.header = "ok" /\ medium.header = "ok")'
             /\ \E i \in 1..Len(cache'.items) : SafeAt(n, i)'
  <2>1. PICK i \in 1..Len(cache.items) : SafeAt(n, i)
    BY <1>2 DEF IInv, AckedInv
  <2>2. i \in 1..i
    BY FileItems DEF IInv, TypeInv
  <2>3. SafeAt(n, i)'
    BY <2>1, <2>2 DEF SafeAt
  <2> QED BY <1>2, <2>1, <2>3 DEF IInv, AckedInv
<1> QED BY <1>1, <1>2

LEMMA SyncHeaderOK == ASSUME IInv, SyncHeader PROVE IInv'
PROOF
<1>1. /\ medium' = cache /\ pc = "created" /\ pc' = "open" /\ dirty' = FALSE
      /\ UNCHANGED <<cache, next, acked>>
      /\ cache.header = "ok" /\ cache.items = <<>>
  BY DEF SyncHeader, IInv, PlaceInv
<1>2. Sorted(cache.items)' /\ Sorted(medium.items)' /\ medium' \in Files /\ AckedInv'
  BY <1>1, SyncKeepsOrder DEF AckedInv
<1>3. TypeInv' /\ PlaceInv'
  BY <1>1, <1>2 DEF IInv, TypeInv, PlaceInv
<1>4. CleanInv'
  BY <1>1 DEF CleanInv
<1> QED BY <1>2, <1>3, <1>4 DEF IInv

LEMMA SyncRecordOK == ASSUME IInv, SyncRecord PROVE IInv'
PROOF
<1> DEFINE last == Len(cache.items)
<1>1. /\ medium' = cache /\ pc = "payload" /\ pc' = "open"
      /\ acked' = (IF dirty THEN acked ELSE acked \cup {next - 1})
      /\ UNCHANGED <<cache, next, dirty>>
      /\ last \in Nat /\ last > 0 /\ cache.items[last] = Record(next - 1) /\ next > 1
  BY FileItems DEF SyncRecord, IInv, PlaceInv, TypeInv
<1>2. /\ Sorted(cache.items)' /\ Sorted(medium.items)' /\ medium' \in Files
      /\ \A n \in acked : /\ (cache.header = "ok" /\ medium.header = "ok")'
                          /\ \E i \in 1..Len(cache'.items) : SafeAt(n, i)'
  BY <1>1, SyncKeepsOrder
<1>3. TypeInv'
  BY <1>1, <1>2, WalAssumption DEF IInv, TypeInv
<1>6. PlaceInv' /\ CleanInv'
  BY <1>1 DEF IInv, PlaceInv, CleanInv
<1>4. ASSUME ~dirty
      PROVE  (cache.header = "ok" /\ medium.header = "ok")' /\ SafeAt(next - 1, last)'
  <2>1. cache.header = "ok" /\ \A i \in 1..last : cache.items[i].kind # "torn"
    BY <1>1, <1>4 DEF IInv, CleanInv
  <2> QED BY <1>1, <2>1 DEF SafeAt
<1>5. AckedInv'
  BY <1>1, <1>2, <1>4 DEF AckedInv
<1> QED BY <1>2, <1>3, <1>6, <1>5 DEF IInv

LEMMA WriteLengthOK == ASSUME IInv, WriteLength PROVE IInv'
PROOF
<1> DEFINE c == cache.items
           d == cache'.items
<1>1. /\ pc = "open" /\ pc' = "length" /\ next <= MaxRecords /\ next' = next + 1
      /\ cache' = [cache EXCEPT !.items = Append(@, Torn)]
      /\ UNCHANGED <<medium, acked, dirty>>
  BY DEF WriteLength
<1>2. c \in Seq(Items) /\ Len(c) \in Nat /\ \A i \in 1..Len(c) : c[i] \in Items
  BY FileItems DEF IInv, TypeInv
<1>3. /\ d = Append(c, Torn) /\ cache'.header = cache.header /\ cache' \in Files
      /\ Len(d) = Len(c) + 1 /\ d[Len(d)] = Torn /\ \A i \in 1..Len(c) : d[i] = c[i]
  <2>1. Append(c, Torn) \in Seq(Items)
    BY <1>2, ItemTypes
  <2>2. d = Append(c, Torn) /\ cache'.header = cache.header /\ cache' \in Files
    BY <1>1, <2>1, WithItems DEF IInv, TypeInv
  <2> HIDE DEF c, d
  <2> QED BY <1>2, <2>2, ItemTypes
<1>4. /\ next \in Nat /\ next >= 1 /\ medium.items \in Seq(Items) /\ Len(medium.items) \in Nat
      /\ \A i \in 1..Len(medium.items) : medium.items[i] \in Items
  BY FileItems, WalAssumption DEF IInv, TypeInv
<1>5. Torn.id = 0 /\ Torn.kind = "torn"
  BY DEF Torn
<1>6. \A i \in 1..Len(d) : i \in 1..Len(c) \/ i = Len(d)
  BY <1>2, <1>3
<1> HIDE DEF c, d
<1>7. TypeInv'
  BY <1>1, <1>3, <1>4, WalAssumption DEF IInv, TypeInv
<1>8. \A i \in 1..Len(c) : c[i].id < next /\ next - 0 = next /\ (next + 1) - 1 = next
  BY <1>4 DEF IInv, Sorted, c
<1>9. \A i \in 1..Len(d) : d[i].id < next
  BY <1>3, <1>4, <1>5, <1>6, <1>8
<1>10. PlaceInv'
  <2>1. cache'.header # "none"
    BY <1>1, <1>3 DEF IInv, PlaceInv
  <2>2. Len(d) > 0 /\ d[Len(d)] = Torn /\ next' - 1 = next /\ next' > 1
    BY <1>1, <1>2, <1>3, <1>4
  <2> QED BY <1>1, <1>9, <2>1, <2>2 DEF PlaceInv, d
<1>11. CleanInv'
  <2>1. ASSUME ~dirty, NEW i \in 1..Len(d), d[i].kind = "torn"
        PROVE  i = Len(d)
    BY <1>1, <1>3, <1>6, <2>1 DEF IInv, CleanInv, c
  <2>2. ~dirty => cache'.header = "ok"
    BY <1>3 DEF IInv, CleanInv
  <2> QED BY <1>1, <2>1, <2>2 DEF CleanInv, d
<1>12. AckedInv'
  <2>1. ASSUME NEW n \in acked
        PROVE  /\ (cache.header = "ok" /\ medium.header = "ok")'
               /\ \E i \in 1..Len(d) : SafeAt(n, i)'
    <3>1. PICK i \in 1..Len(c) : SafeAt(n, i)
      BY <2>1 DEF IInv, AckedInv, c
    <3>2. i \in 1..Len(d) /\ \A j \in 1..i : j \in 1..Len(c)
      BY <1>2, <1>3
    <3>3. SafeAt(n, i)'
      BY <1>1, <1>2, <1>3, <3>1, <3>2 DEF SafeAt, c, d
    <3> QED BY <1>1, <1>3, <2>1, <3>2, <3>3 DEF IInv, AckedInv
  <2> QED BY <1>1, <2>1 DEF AckedInv, d
<1>13. Sorted(cache.items)'
  <2>1. \A i, j \in 1..Len(d) :
          i < j /\ d[i].kind = "record" /\ d[j].kind = "record" => d[i].id < d[j].id
    BY <1>2, <1>3, <1>5, <1>6 DEF IInv, Sorted, c
  <2>2. \A i \in 1..Len(d) : d[i] \in Items
    BY <1>2, <1>3, <1>6, ItemTypes
  <2>3. \A i \in 1..Len(d) : d[i].id < next'
    BY <1>1, <1>4, <1>9, <2>2, ItemFields
  <2> QED BY <2>1, <2>3 DEF Sorted, d
<1>14. Sorted(medium.items)'
  <2>1. \A i \in 1..Len(medium.items) : medium.items[i].id < next + 1
    BY <1>4, ItemFields DEF IInv, Sorted
  <2> QED BY <1>1, <2>1 DEF IInv, Sorted
<1> QED BY <1>7, <1>10, <1>11, <1>12, <1>13, <1>14 DEF IInv

LEMMA WritePayloadOK == ASSUME IInv, WritePayload PROVE IInv'
PROOF
<1> DEFINE c == cache.items
           d == cache'.items
           last == Len(cache.items)
<1>1. /\ pc = "checksum" /\ pc' = "payload"
      /\ cache' = [cache EXCEPT !.items[last] = Record(next - 1)]
      /\ UNCHANGED <<medium, next, acked, dirty>>
  BY DEF WritePayload
<1>2. /\ c \in Seq(Items) /\ last \in Nat /\ last > 0 /\ c[last] = Torn
      /\ \A i \in 1..last : c[i] \in Items /\ c[i].id < next - 1
      /\ next > 1 /\ next \in 1..MaxRecords + 1
  BY <1>1, FileItems DEF IInv, TypeInv, PlaceInv
<1>3. Record(next - 1) \in Items
  BY <1>2, ItemTypes, WalAssumption
<1>4. /\ d = [c EXCEPT ![last] = Record(next - 1)]
      /\ cache'.header = cache.header /\ cache' \in Files
      /\ d \in Seq(Items) /\ Len(d) = last /\ d[last] = Record(next - 1)
      /\ \A i \in 1..last : i # last => d[i] = c[i]
  <2> DEFINE e == [c EXCEPT ![last] = Record(next - 1)]
  <2>1. /\ e \in Seq(Items) /\ Len(e) = last /\ e[last] = Record(next - 1)
        /\ \A i \in 1..last : i # last => e[i] = c[i]
    <3>1. last \in 1..Len(c) /\ last = Len(c)
      BY <1>2
    <3> HIDE DEF c, last
    <3> QED BY <1>2, <1>3, <3>1, ExceptSeq
  <2>2. d = e /\ cache'.header = cache.header /\ cache' \in Files
    BY <1>1, <2>1, WithItems DEF IInv, TypeInv
  <2> QED BY <2>1, <2>2
<1>5. Record(next - 1).id = next - 1 /\ Record(next - 1).kind = "record" /\ Torn.kind = "torn"
  BY DEF Record, Torn
<1> HIDE DEF c, d, last
<1>6. TypeInv'
  BY <1>1, <1>4 DEF IInv, TypeInv
<1>7. PlaceInv'
  <2>1. cache'.header # "none"
    BY <1>1, <1>4 DEF IInv, PlaceInv
  <2> QED BY <1>1, <1>2, <1>4, <2>1 DEF PlaceInv, d
<1>8. CleanInv'
  <2>1. ASSUME ~dirty, NEW i \in 1..last
        PROVE  d[i].kind # "torn"
    BY <1>1, <1>4, <1>5, <2>1 DEF IInv, CleanInv, c, last
  <2>2. ~dirty => cache'.header = "ok"
    BY <1>4 DEF IInv, CleanInv
  <2> QED BY <1>1, <1>4, <2>1, <2>2 DEF CleanInv, d
<1>9. AckedInv'
  <2>1. ASSUME NEW n \in acked
        PROVE  /\ (cache.header = "ok" /\ medium.header = "ok")'
               /\ \E i \in 1..last : SafeAt(n, i)'
    <3>1. PICK i \in 1..last : SafeAt(n, i)
      BY <2>1 DEF IInv, AckedInv, last
    <3>2. i \in 1..i /\ \A j \in 1..i : j \in 1..last
      BY <1>2
    <3>3. \A j \in 1..i : j # last
      BY <1>2, <1>5, <3>1, <3>2 DEF SafeAt, c
    <3>4. SafeAt(n, i)'
      BY <1>1, <1>4, <3>1, <3>2, <3>3 DEF SafeAt, c, d, last
    <3> QED BY <1>1, <1>4, <2>1, <3>4 DEF IInv, AckedInv
  <2> QED BY <1>1, <1>4, <2>1 DEF AckedInv, d
<1>10. Sorted(cache.items)'
  <2>1. \A i \in 1..last : d[i].id < next
    BY <1>2, <1>4, <1>5, ItemFields, WalAssumption
  <2>2. ASSUME NEW i \in 1..last, NEW j \in 1..last,
               i < j, d[i].kind = "record", d[j].kind = "record"
        PROVE  d[i].id < d[j].id
    <3>1. i # last /\ d[i] = c[i] /\ c[i].id < next - 1
      BY <1>2, <1>4, <2>2
    <3>2. CASE j = last
      BY <1>4, <1>5, <3>1, <3>2
    <3>3. CASE j # last
      BY <1>4, <2>2, <3>1, <3>3 DEF IInv, Sorted, c, last
    <3> QED BY <3>2, <3>3
  <2> QED BY <1>1, <1>4, <2>1, <2>2 DEF Sorted, d
<1>11. Sorted(medium.items)'
  BY <1>1 DEF IInv, Sorted
<1> QED BY <1>6, <1>7, <1>8, <1>9, <1>10, <1>11 DEF IInv

LEMMA RecoverOK == ASSUME IInv, Recover PROVE IInv'
PROOF
<1> DEFINE c == cache.items
           d == cache'.items
<1>1. PICK k \in 0..Len(c) :
        ReadsUpTo(c, k) /\ cache' = [cache EXCEPT !.items = SubSeq(@, 1, k)]
  BY DEF Recover
<1>2. /\ pc = "open" /\ cache.header = "ok" /\ dirty' = FALSE
      /\ UNCHANGED <<medium, pc, next, acked>>
      /\ c \in Seq(Items) /\ Len(c) \in Nat
  BY FileItems DEF Recover, IInv, TypeInv
<1>3. /\ d = SubSeq(c, 1, k) /\ cache'.header = "ok" /\ d \in Seq(Items)
      /\ cache' \in Files /\ Len(d) = k /\ \A i \in 1..k : d[i] = c[i] /\ c[i].kind # "torn"
  <2>1. /\ SubSeq(c, 1, k) \in Seq(Items) /\ Len(SubSeq(c, 1, k)) = k
        /\ \A i \in 1..k : SubSeq(c, 1, k)[i] = c[i]
    <3> HIDE DEF c
    <3> QED BY <1>2
  <2>2. d = SubSeq(c, 1, k) /\ cache'.header = cache.header /\ cache' \in Files
    BY <1>1, <2>1, WithItems DEF IInv, TypeInv
  <2> QED BY <1>1, <1>2, <2>1, <2>2 DEF ReadsUpTo
<1>4. Sorted(d)
  BY <1>3, BeginningSorted DEF Beginning
<1>5. Sorted(cache.items)' /\ Sorted(medium.items)'
  BY <1>2, <1>4 DEF IInv, Sorted
<1> HIDE DEF c, d
<1>6. TypeInv' /\ PlaceInv' /\ CleanInv'
  BY <1>2, <1>3 DEF IInv, TypeInv, PlaceInv, CleanInv, d
<1>7. AckedInv'
  <2>1. ASSUME NEW n \in acked
        PROVE  medium.header = "ok" /\ \E i \in 1..k : SafeAt(n, i)'
    <3>1. PICK i \in 1..Len(c) : SafeAt(n, i)
      BY <2>1 DEF IInv, AckedInv, c
    <3>2. i <= k
      <4>1. SUFFICES ASSUME k < i PROVE FALSE
        BY <1>2
      <4>2. k < Len(c) /\ k + 1 \in 1..i
        BY <1>2, <4>1
      <4> QED BY <1>1, <3>1, <4>2 DEF ReadsUpTo, SafeAt, c
    <3>3. i \in 1..k /\ \A j \in 1..i : j \in 1..k
      BY <1>2, <3>2
    <3>4. SafeAt(n, i)'
      BY <1>2, <1>3, <3>1, <3>3 DEF SafeAt, c, d
    <3> QED BY <2>1, <3>3, <3>4 DEF IInv, AckedInv
  <2> QED BY <1>2, <1>3, <2>1 DEF AckedInv, d
<1> QED BY <1>5, <1>6, <1>7 DEF IInv

LEMMA PowerLossOK == ASSUME IInv, PowerLoss PROVE IInv'
PROOF
<1> DEFINE c == cache.items
           m == medium.items
<1>1. PICK items \in Images(m, c),
           header \in {medium.header, cache.header} \cup
                      (IF medium.header = cache.header THEN {} ELSE {"bad"}) :
        cache' = [header |-> header, items |-> IF header = "none" THEN <<>> ELSE items]
  BY DEF PowerLoss
<1>2. medium' = cache' /\ pc' = "down" /\ dirty' = TRUE /\ UNCHANGED <<next, acked>>
  BY DEF PowerLoss
<1>3. /\ c \in Seq(Items) /\ Len(c) \in Nat /\ m \in Seq(Items) /\ Len(m) \in Nat
      /\ medium.header \in {"none", "bad", "ok"} /\ cache.header \in {"none", "bad", "ok"}
  BY FileItems DEF IInv, TypeInv, Files
<1>4. items = m \/ Beginning(items, c)
  BY <1>1 DEF Images, Beginning
<1>5. items \in Seq(Items) /\ Sorted(items)
  BY <1>3, <1>4, BeginningSorted DEF IInv
<1>6. <<>> \in Seq(Items) /\ Sorted(<<>>)
  BY DEF Sorted
<1>7. cache' \in Files /\ Sorted(cache'.items) /\ (cache'.header = "none" => cache'.items = <<>>)
  BY <1>1, <1>3, <1>5, <1>6 DEF Files
<1>8. Sorted(cache.items)' /\ Sorted(medium.items)'
  BY <1>2, <1>7 DEF Sorted
<1>9. TypeInv' /\ PlaceInv' /\ CleanInv'
  BY <1>2, <1>7 DEF IInv, TypeInv, PlaceInv, CleanInv
<1>10. ASSUME NEW n \in acked
       PROVE  cache'.header = "ok" /\ \E i \in 1..Len(cache'.items) : SafeAt(n, i)'
  <2>1. header = "ok" /\ cache'.header = "ok" /\ cache'.items = items
    BY <1>1, <1>10 DEF IInv, AckedInv
  <2>2. PICK i \in 1..Len(c) : SafeAt(n, i)
    BY <1>10 DEF IInv, AckedInv
  <2>3. i \in 1..Len(m) /\ i \in 1..i /\ \A j \in 1..i : c[j] = m[j] /\ c[j].kind # "torn" /\ j \in 1..Len(c)
    BY <1>3, <2>2 DEF SafeAt
  <2>4. i <= Len(items) /\ \A j \in 1..i : items[j] = m[j]
    <3>1. CASE items = m
      BY <1>3, <2>3, <3>1
    <3>2. CASE items # m
      <4>1. PICK k \in 0..Len(c) :
              /\ \A j \in 1..Len(m) : j > k /\ j <= Len(c) => \E h \in 1..j : m[h] # c[h]
              /\ \/ items = SubSeq(c, 1, k)
                 \/ \E x \in {Torn, Zeros} : items = Append(SubSeq(c, 1, k), x)
        BY <1>1, <3>2 DEF Images
      <4>2. i <= k
        BY <1>3, <2>3, <4>1
      <4>3. /\ SubSeq(c, 1, k) \in Seq(Items) /\ Len(SubSeq(c, 1, k)) = k
            /\ \A j \in 1..k : SubSeq(c, 1, k)[j] = c[j]
        BY <1>3
      <4>4. CASE items = SubSeq(c, 1, k)
        BY <1>3, <2>3, <4>2, <4>3, <4>4
      <4>5. CASE \E x \in {Torn, Zeros} : items = Append(SubSeq(c, 1, k), x)
        <5>1. PICK x \in {Torn, Zeros} : items = Append(SubSeq(c, 1, k), x)
          BY <4>5
        <5>2. Len(items) = k + 1 /\ \A j \in 1..k : items[j] = c[j]
          BY <4>3, <5>1
        <5> QED BY <1>3, <2>3, <4>2, <5>2
      <4> QED BY <4>1, <4>4, <4>5
    <3> QED BY <3>1, <3>2
  <2>5. SafeAt(n, i)'
    BY <1>2, <2>1, <2>2, <2>3, <2>4 DEF SafeAt
  <2>6. i \in 1..Len(cache'.items)
    BY <1>5, <2>1, <2>4
  <2> QED BY <2>1, <2>5, <2>6
<1>11. AckedInv'
  BY <1>2, <1>10 DEF AckedInv
<1> QED BY <1>8, <1>9, <1>11 DEF IInv

LEMMA StepOK == IInv /\ [Next]_vars => IInv'
PROOF
<1> SUFFICES ASSUME IInv, [Next]_vars PROVE IInv'
  OBVIOUS
<1>1. CASE Next
  BY <1>1, QuietOK, CreateOK, SyncHeaderOK, SyncRecordOK, WriteLengthOK, WritePayloadOK,
     RecoverOK, PowerLossOK DEF Next
<1>2. CASE UNCHANGED vars
  <2>1. UNCHANGED vars
    BY <1>2
  <2>2. TypeInv' /\ PlaceInv' /\ CleanInv'
    BY <2>1 DEF vars, IInv, TypeInv, PlaceInv, CleanInv
  <2>3. AckedInv' /\ Sorted(cache.items)' /\ Sorted(medium.items)'
    BY <2>1 DEF vars, IInv, AckedInv, SafeAt, Sorted
  <2> QED BY <2>2, <2>3 DEF IInv
<1> QED BY <1>1, <1>2

LEMMA Invariance == Spec => []IInv
BY InitOK, StepOK, PTL DEF Spec

-----------------------------------------------------------------------------
(* The theorems.                                                           *)

\* The variables keep their types, and no record is in the file before its call.
THEOREM TypeCorrect == Spec => []TypeOK
PROOF
<1>1. IInv => TypeOK
  BY FileItems DEF IInv, TypeInv, Sorted, TypeOK, Files
<1> QED BY <1>1, Invariance, PTL

\* A record append answered Ok for, on a log that was recovered first, is read
\* by every later recovery, from what is written and from what is synced.
THEOREM AckedAlwaysRecovered == Spec => []AckedRecovered
PROOF
<1>1. IInv => AckedRecovered
  <2> SUFFICES ASSUME IInv, NEW n \in acked
               PROVE  /\ cache.header = "ok" /\ Found(n, cache.items)
                      /\ medium.header = "ok" /\ Found(n, medium.items)
    BY DEF AckedRecovered
  <2>1. PICK i \in 1..Len(cache.items) : SafeAt(n, i)
    BY DEF IInv, AckedInv
  <2>2. i \in 1..Len(medium.items) /\ i \in 1..i
    BY <2>1, FileItems DEF SafeAt, IInv, TypeInv
  <2>3. Found(n, cache.items) /\ Found(n, medium.items)
    BY <2>1, <2>2 DEF Found, SafeAt
  <2> QED BY <2>3 DEF IInv, AckedInv
<1> QED BY <1>1, Invariance, PTL

\* Recovery returns records in the order of their calls, and none twice.
THEOREM AlwaysRecoveredInOrder == Spec => []RecoveredInOrder
PROOF
<1>1. IInv => RecoveredInOrder
  <2> SUFFICES ASSUME IInv, NEW k \in 0..Len(cache.items), NEW i \in 1..k, NEW j \in 1..k,
                      i < j, cache.items[i].kind = "record", cache.items[j].kind = "record"
               PROVE  cache.items[i].id < cache.items[j].id
    BY DEF RecoveredInOrder
  <2>1. i \in 1..Len(cache.items) /\ j \in 1..Len(cache.items)
    BY FileItems DEF IInv, TypeInv
  <2> QED BY <2>1 DEF IInv, Sorted
<1> QED BY <1>1, Invariance, PTL
=============================================================================
