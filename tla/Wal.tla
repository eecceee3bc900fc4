---------------------------------- MODULE Wal ----------------------------------
(***************************************************************************)
(* aura-storage's WriteAheadLog: a file of a magic header and records, each *)
(* written in three pieces (length, checksum, payload) and synced before   *)
(* append returns Ok.  The process may be killed between any two pieces,   *)
(* any file operation may fail, and the machine may lose power: then the   *)
(* file is anything between what was last synced and what was last written. *)
(*                                                                         *)
(* The file is a sequence of items: a whole record, a torn piece at which  *)
(* reading stops (checksums do not collide), or zeros, which the file      *)
(* system may leave where data was not written yet: they read as an empty  *)
(* record, whose checksum is zero.  Records are not empty.  A mutex makes  *)
(* the calls of one process follow one another.                            *)
(***************************************************************************)
EXTENDS Integers, Sequences

CONSTANT MaxRecords    \* bounds the calls of append

ASSUME WalAssumption == MaxRecords \in Nat

VARIABLES
  cache,   \* the file as the running system sees it
  medium,  \* the file as it was when it was last synced
  pc,      \* where the process is
  next,    \* the number of the record of the next call
  acked,   \* ghost: the records append answered Ok for, on a clean log
  dirty    \* ghost: since the log was last known to end in a whole record, the
           \* process was started anew or a call has failed

vars == <<cache, medium, pc, next, acked, dirty>>

Record(n) == [kind |-> "record", id |-> n]
Torn == [kind |-> "torn", id |-> 0]
Zeros == [kind |-> "zeros", id |-> 0]

Items == [kind : {"record", "torn", "zeros"}, id : 0..MaxRecords]
\* header: no bytes, other bytes, or the magic ones.
Files == [header : {"none", "bad", "ok"}, items : Seq(Items)]

NewFile == [header |-> "none", items |-> <<>>]

Init ==
  /\ cache = NewFile /\ medium = NewFile
  /\ pc = "down" /\ next = 1
  /\ acked = {} /\ dirty = TRUE

-----------------------------------------------------------------------------
(* Reading.                                                                *)

\* Reading the items gets past the first k of them and no further.
ReadsUpTo(items, k) ==
  /\ \A i \in 1..k : items[i].kind # "torn"
  /\ k < Len(items) => items[k + 1].kind = "torn"

\* A record is among those that recovery returns for these items.
Found(n, items) ==
  \E i \in 1..Len(items) :
    /\ items[i] = Record(n)
    /\ \A j \in 1..i : items[j].kind # "torn"

-----------------------------------------------------------------------------
(* Mutated forms of definitions of this module: bugs the real ones do not  *)
(* have.                                                                   *)

\* AckedRecovered: what recovery does not return stays in the file.
RecoverOnly ==
  /\ pc = "open" /\ cache.header = "ok"
  /\ dirty' = FALSE
  /\ UNCHANGED <<cache, medium, pc, next, acked>>

\* RecoveredInOrder: when the sync fails, append writes the record once more.
FailRewrites ==
  /\ pc \in {"length", "checksum", "payload"}
  /\ pc' = "open" /\ dirty' = TRUE
  /\ cache' = IF pc = "payload" THEN [cache EXCEPT !.items = Append(@, Record(next - 1))]
                                ELSE cache
  /\ UNCHANGED <<medium, next, acked>>

-----------------------------------------------------------------------------
(* The log.                                                                *)

\* open() of a file with bytes in it does not look at them.
Open ==
  /\ pc = "down" /\ cache.header # "none"
  /\ pc' = "open"
  /\ UNCHANGED <<cache, medium, next, acked, dirty>>

\* open() of a new or an empty file: the magic header is written ...
Create ==
  /\ pc = "down" /\ cache.header = "none"
  /\ cache' = [cache EXCEPT !.header = "ok"]
  /\ pc' = "created"
  /\ UNCHANGED <<medium, next, acked, dirty>>

\* ... and synced.
SyncHeader ==
  /\ pc = "created" /\ pc' = "open"
  /\ medium' = cache /\ dirty' = FALSE
  /\ UNCHANGED <<cache, next, acked>>

\* append(): the length goes to the end of the file ...
WriteLength ==
  /\ pc = "open" /\ next <= MaxRecords
  /\ cache' = [cache EXCEPT !.items = Append(@, Torn)]
  /\ pc' = "length" /\ next' = next + 1
  /\ UNCHANGED <<medium, acked, dirty>>

WriteChecksum ==
  /\ pc = "length" /\ pc' = "checksum"
  /\ UNCHANGED <<cache, medium, next, acked, dirty>>

\* ... and with the payload the record is whole.
WritePayload ==
  /\ pc = "checksum" /\ pc' = "payload"
  /\ cache' = [cache EXCEPT !.items[Len(cache.items)] = Record(next - 1)]
  /\ UNCHANGED <<medium, next, acked, dirty>>

\* sync_all(), and Ok.
SyncRecord ==
  /\ pc = "payload" /\ pc' = "open"
  /\ medium' = cache
  /\ acked' = IF dirty THEN acked ELSE acked \cup {next - 1}
  /\ UNCHANGED <<cache, next, dirty>>

\* A write or a sync fails, and append returns the error: what has been written
\* stays.
Fail ==
  /\ pc \in {"length", "checksum", "payload"}
  /\ pc' = "open" /\ dirty' = TRUE
  /\ UNCHANGED <<cache, medium, next, acked>>

\* The sync of the header fails, and open returns the error.
FailOpen ==
  /\ pc = "created" /\ pc' = "down"
  /\ UNCHANGED <<cache, medium, next, acked, dirty>>

\* recover_and_truncate(): the file ends at the last record returned, which is
\* not synced.  With another header it is an error, and with a failing set_len,
\* and nothing changes.
Recover ==
  /\ pc = "open" /\ cache.header = "ok"
  /\ \E k \in 0..Len(cache.items) :
       /\ ReadsUpTo(cache.items, k)
       /\ cache' = [cache EXCEPT !.items = SubSeq(@, 1, k)]
  /\ dirty' = FALSE
  /\ UNCHANGED <<medium, pc, next, acked>>

-----------------------------------------------------------------------------
(* Failures.                                                               *)

\* The process ends; the operating system keeps what was written.
Crash ==
  /\ pc # "down" /\ pc' = "down"
  /\ dirty' = TRUE
  /\ UNCHANGED <<cache, medium, next, acked>>

\* The items that may be found after a power failure.  With those that are the
\* same in both files, any number of the written ones is there, and of the next
\* nothing, a piece, or zeros; or a truncation was lost.
Images(m, c) ==
  {m} \cup
  UNION {{SubSeq(c, 1, k)}
           \cup IF k < Len(c) THEN {Append(SubSeq(c, 1, k), x) : x \in {Torn, Zeros}} ELSE {} :
         k \in {n \in 0..Len(c) :
                  \A i \in 1..Len(m) : i > n /\ i <= Len(c) => \E j \in 1..i : m[j] # c[j]}}

PowerLoss ==
  /\ \E items \in Images(medium.items, cache.items),
        header \in {medium.header, cache.header} \cup
                   (IF medium.header = cache.header THEN {} ELSE {"bad"}) :
       cache' = [header |-> header, items |-> IF header = "none" THEN <<>> ELSE items]
  /\ medium' = cache'
  /\ pc' = "down" /\ dirty' = TRUE
  /\ UNCHANGED <<next, acked>>

-----------------------------------------------------------------------------
Next ==
  \/ Open \/ Create \/ SyncHeader \/ FailOpen
  \/ WriteLength \/ WriteChecksum \/ WritePayload \/ SyncRecord \/ Fail
  \/ Recover \/ Crash \/ PowerLoss

Spec == Init /\ [][Next]_vars

-----------------------------------------------------------------------------
(* Properties.                                                             *)

\* Every variable has its type, and no record is in the file before its call.
TypeOK ==
  /\ cache \in Files /\ medium \in Files
  /\ \A i \in DOMAIN cache.items : cache.items[i].id < next
  /\ pc \in {"down", "created", "open", "length", "checksum", "payload"}
  /\ next \in 1..MaxRecords + 1
  /\ acked \subseteq 1..MaxRecords
  /\ dirty \in BOOLEAN

\* What append answered Ok for is recovered, from what is written and from what
\* is synced, through crashes, power failures, failed calls and truncations:
\* provided that a log is recovered before it is appended to, after every start
\* and every failed call.  (append itself does not see to it: a record behind a
\* torn piece is synced, answered Ok, and never read.)
AckedRecovered ==
  \A n \in acked :
    /\ cache.header = "ok" /\ Found(n, cache.items)
    /\ medium.header = "ok" /\ Found(n, medium.items)

\* Recovery returns records in the order of their calls and none twice,
\* whatever was torn, lost, or appended behind it.
RecoveredInOrder ==
  \A k \in 0..Len(cache.items) :
    ReadsUpTo(cache.items, k) =>
      \A i, j \in 1..k :
        i < j /\ cache.items[i].kind = "record" /\ cache.items[j].kind = "record"
          => cache.items[i].id < cache.items[j].id
=============================================================================
