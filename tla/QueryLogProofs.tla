--------------------------- MODULE QueryLogProofs ---------------------------
(***************************************************************************)
(* Proofs about QueryLog, for any capacity, batch size, cap and number of  *)
(* records: no record is logged twice, a query reads whole segments only,  *)
(* retention leaves no more than the cap and deletes no more than it must, *)
(* and the lexical order of the segments is the order of the records while *)
(* the clock does not step back.                                           *)
(*                                                                         *)
(* The inductive invariant has eight parts.  Ordered says that records     *)
(* keep the order of arrival from the channel through the buffer to the    *)
(* disk; Retention relates the running total of enforce_retention to what  *)
(* is there; Account says that the total is what the listed files that are *)
(* still there take, failed removals included; Named says that no name in  *)
(* use comes after the next one.                                           *)
(* The size of a directory is counted in cells, one per row of a file.     *)
(***************************************************************************)
EXTENDS QueryLog, FiniteSetTheorems, SequenceTheorems, FunctionTheorems,
        WellFoundedInduction, TLAPS

-----------------------------------------------------------------------------
\* The inductive invariant.

Points == {"idle", "create", "fill", "rename", "list", "delete"}

\* What each variable holds, and what of it depends on where the writer is:
\* only a running write_segment has records of its own, and run_writer has
\* then emptied its buffer.
Control ==
    /\ now \in 0 .. MaxTime
    /\ steps \in 0 .. MaxSteps
    /\ proc \in {"up", "closed", "down"}
    /\ proc = "down" => now < MaxTime
    /\ wpc \in Points
    /\ proc # "up" => wpc = "idle"
    /\ wpc # "delete" => todo = {}
    /\ name \in Names
    /\ SEQ \in Nat
    /\ capped \in BOOLEAN

Memory ==
    /\ sent \in 0 .. MaxRecords
    /\ chan \in Seq(Records) /\ Len(chan) <= LOG_CHANNEL_CAP
    /\ buf \in Seq(Records) /\ Len(buf) < FlushRows
    /\ recs \in Seq(Records) /\ Len(recs) <= FlushRows
    /\ wpc # "idle" => buf = <<>>
    /\ wpc \notin {"create", "fill", "rename"} => recs = <<>>

\* A directory of whole segments.
IsDirectory(d) ==
    /\ DOMAIN d \subseteq Names
    /\ IsFiniteSet(DOMAIN d)
    /\ \A n \in DOMAIN d : d[n] \in Seq(Records) /\ Len(d[n]) <= FlushRows

\* A segment is there only as a whole.
Directory ==
    /\ IsDirectory(segs)
    /\ DOMAIN tmps \subseteq Names
    /\ \A n \in DOMAIN tmps : tmps[n] \in 0 .. FlushRows

Reading ==
    /\ qpc \in {"idle", "plan", "read"}
    /\ qfiles \subseteq Names
    /\ rows \subseteq Records

Increasing(s) == \A i, j \in DOMAIN s : i < j => s[i] < s[j]

AllBelow(A, B) == \A a \in A, b \in B : a < b

\* Records keep the order of arrival from the channel to the disk.
Ordered ==
    /\ Increasing(chan) /\ Increasing(buf) /\ Increasing(recs)
    /\ \A r \in Items(chan) : r <= sent
    /\ AllBelow(Items(buf) \cup Items(recs), Items(chan))
    /\ \A r \in Items(buf) \cup Items(recs) : r <= sent
    /\ \A n \in DOMAIN segs :
          /\ AllBelow(Items(segs[n]), InMemory)
          /\ \A r \in Items(segs[n]) : r <= sent
    /\ \A m, n \in DOMAIN segs : m # n => Items(segs[m]) \cap Items(segs[n]) = {}

\* What enforce_retention believes the directory to take is no less than what
\* it may still remove and no more than what is there.
Retention ==
    /\ todo \subseteq DOMAIN segs
    /\ total \in Nat
    /\ wpc = "delete" => SizeOf(todo) <= total /\ total <= SizeOf(DOMAIN segs)
    /\ capped /\ wpc = "delete" =>
          todo = DOMAIN segs /\ total = SizeOf(DOMAIN segs)
    /\ capped /\ wpc # "delete" => SizeOf(DOMAIN segs) <= max_bytes
    /\ wpc = "list" => ~capped

\* And it is exactly what the files take that were listed and are still there.
Account ==
    /\ listed \subseteq Names
    /\ wpc = "delete" =>
          todo \subseteq listed /\ total = SizeOf(listed \cap DOMAIN segs)

\* While the clock does not step back, the names in use are before the next.
Named ==
    steps = 0 =>
        /\ \A n \in DOMAIN segs :
              IF proc = "down" THEN n[1] <= now ELSE Before(n, SegName)
        /\ wpc \in {"fill", "rename"} =>
              /\ Before(name, SegName)
              /\ \A n \in DOMAIN segs : Before(n, name)
        /\ \A m, n \in DOMAIN segs : Before(m, n) =>
              AllBelow(Items(segs[m]), Items(segs[n]))

-----------------------------------------------------------------------------
\* Sequences of records.

\* flush_rows.max(1) is no less than one.
LEMMA FlushRowsPositive == FlushRows \in Nat \ {0}
  BY QueryLogAssumption DEF FlushRows

\* The entries of a sequence are what it is a sequence of.
LEMMA ItemsType ==
  ASSUME NEW s \in Seq(Records)
  PROVE  Items(s) \subseteq Records
  BY DEF Items

\* Appending an entry adds it to the entries.
LEMMA ItemsAppend ==
  ASSUME NEW s \in Seq(Records), NEW x \in Records
  PROVE  Items(Append(s, x)) = Items(s) \cup {x}
<1> DEFINE t == Append(s, x)
           len == Len(s)
<1>1. /\ len \in Nat /\ DOMAIN s = 1 .. len
      /\ DOMAIN t = 1 .. len + 1
      /\ \A i \in 1 .. len : t[i] = s[i]
      /\ t[len + 1] = x
  BY AppendProperties, LenProperties
<1> HIDE DEF t, len
<1>2. 1 .. len + 1 = (1 .. len) \cup {len + 1}
  BY <1>1
<1>3. Items(t) = Items(s) \cup {x}
  BY <1>1, <1>2 DEF Items
<1> QED
  BY <1>3 DEF t

\* A greater entry keeps an increasing sequence increasing.
LEMMA IncreasingAppend ==
  ASSUME NEW s \in Seq(Records), NEW x \in Records,
         Increasing(s), \A r \in Items(s) : r < x
  PROVE  Increasing(Append(s, x))
<1> DEFINE t == Append(s, x)
           len == Len(s)
<1>1. /\ len \in Nat /\ DOMAIN s = 1 .. len
      /\ DOMAIN t = 1 .. len + 1
      /\ \A i \in 1 .. len : t[i] = s[i]
      /\ t[len + 1] = x
  BY AppendProperties, LenProperties
<1> HIDE DEF t, len
<1>2. ASSUME NEW i \in DOMAIN t, NEW j \in DOMAIN t, i < j
      PROVE  t[i] < t[j]
  <2>1. i \in 1 .. len
    BY <1>1, <1>2
  <2>2. CASE j \in 1 .. len
    BY <1>1, <1>2, <2>1, <2>2 DEF Increasing
  <2>3. CASE j = len + 1
    BY <1>1, <2>1, <2>3 DEF Items
  <2> QED
    BY <1>1, <2>2, <2>3
<1>3. Increasing(t)
  BY <1>2 DEF Increasing
<1> QED
  BY <1>3 DEF t

\* Taking the head of an increasing sequence leaves greater entries.
LEMMA IncreasingTail ==
  ASSUME NEW s \in Seq(Records), s # <<>>, Increasing(s)
  PROVE  /\ Increasing(Tail(s))
         /\ Head(s) \in Items(s)
         /\ Items(Tail(s)) \subseteq Items(s)
         /\ \A r \in Items(Tail(s)) : Head(s) < r
<1> DEFINE t == Tail(s)
           len == Len(s)
<1>1. len \in Nat \ {0} /\ DOMAIN s = 1 .. len /\ Head(s) = s[1]
  BY LenProperties, EmptySeq
<1>2. /\ DOMAIN t = 1 .. len - 1
      /\ \A i \in 1 .. len - 1 : t[i] = s[i + 1]
  BY HeadTailProperties, LenProperties
<1> HIDE DEF t, len
<1>3. \A i \in 1 .. len - 1 : i + 1 \in 1 .. len /\ 1 < i + 1
  BY <1>1
<1>4. \A i \in DOMAIN t : i + 1 \in DOMAIN s /\ t[i] = s[i + 1]
  BY <1>1, <1>2, <1>3
<1>5. Items(t) \subseteq Items(s)
  BY <1>4 DEF Items
<1>6. 1 \in DOMAIN s
  BY <1>1
<1>7. \A r \in Items(t) : s[1] < r
  BY <1>2, <1>3, <1>4, <1>6 DEF Items, Increasing
<1>8. ASSUME NEW i \in DOMAIN t, NEW j \in DOMAIN t, i < j
      PROVE  t[i] < t[j]
  <2>1. i + 1 < j + 1
    BY <1>1, <1>2, <1>8
  <2> QED
    BY <1>4, <2>1 DEF Increasing
<1>9. Increasing(t)
  BY <1>8 DEF Increasing
<1> QED
  BY <1>1, <1>5, <1>6, <1>7, <1>9 DEF t, Items

\* An increasing sequence has as many entries as places.
LEMMA IncreasingCount ==
  ASSUME NEW s \in Seq(Records), Increasing(s)
  PROVE  IsFiniteSet(Items(s)) /\ Cardinality(Items(s)) = Len(s)
<1> DEFINE len == Len(s)
<1>1. len \in Nat /\ s \in [1 .. len -> Records] /\ DOMAIN s = 1 .. len
  BY LenProperties
<1>2. s \in [1 .. len -> Items(s)]
  BY <1>1 DEF Items
<1> HIDE DEF len
<1>3. ASSUME NEW i \in 1 .. len, NEW j \in 1 .. len, s[i] = s[j] PROVE i = j
  <2>1. s[i] \in Records /\ ~(s[i] < s[j]) /\ ~(s[j] < s[i])
    BY <1>1, <1>3 DEF Records
  <2>2. ~(i < j) /\ ~(j < i)
    BY <1>1, <2>1 DEF Increasing
  <2> QED
    BY <1>1, <2>2
<1>4. \A r \in Items(s) : \E i \in 1 .. len : s[i] = r
  BY <1>1 DEF Items
<1>5. s \in Bijection(1 .. len, Items(s))
  BY <1>2, <1>3, <1>4 DEF Bijection, Injection, Surjection, IsInjective
<1>6. ExistsBijection(1 .. len, Items(s))
  BY <1>5 DEF ExistsBijection
<1>7. IsFiniteSet(1 .. len) /\ Cardinality(1 .. len) = len
  BY <1>1, FS_Interval
<1> QED
  BY <1>6, <1>7, FS_Bijection DEF len

-----------------------------------------------------------------------------
\* The order of file names.

\* A set of numbers that is not empty has a least one.
LEMMA LeastNumber ==
  ASSUME NEW S, S \subseteq Nat, S # {}
  PROVE  \E x \in S : \A y \in S : x <= y
<1>1. PICK x \in S : \A y \in S : ~(<<y, x>> \in OpToRel(<, Nat))
  BY NatLessThanWellFounded, WFMin
<1>2. \A y \in S : ~(y < x)
  BY <1>1 DEF OpToRel
<1> QED
  BY <1>2

\* enforce_retention always finds the oldest of the files it has listed.
LEMMA OldestIsThere ==
  ASSUME NEW S, S \subseteq Names, S # {}
  PROVE  Oldest(S) \in S
<1> DEFINE T == {n[1] : n \in S}
<1>1. PICK a \in T : \A b \in T : a <= b
  <2>1. T \subseteq Nat /\ T # {}
    BY DEF Names
  <2> QED
    BY <2>1, LeastNumber
<1> DEFINE U == {n[2] : n \in {m \in S : m[1] = a}}
<1>2. PICK c \in U : \A b \in U : c <= b
  <2>1. U \subseteq Nat /\ U # {}
    BY <1>1 DEF Names
  <2> QED
    BY <2>1, LeastNumber
<1>3. PICK m \in S : m[1] = a /\ m[2] = c
  BY <1>2
<1>4. ASSUME NEW n \in S \ {m} PROVE Before(m, n)
  <2>1. /\ m = <<a, c>> /\ n = <<n[1], n[2]>>
        /\ n[1] \in Nat /\ n[2] \in Nat /\ a \in Nat /\ c \in Nat
    BY <1>3 DEF Names
  <2>2. a <= n[1]
    BY <1>1
  <2>3. n[1] = a => c <= n[2] /\ n[2] # c
    BY <1>2, <1>4, <2>1
  <2> QED
    BY <1>3, <2>1, <2>2, <2>3 DEF Before
<1> QED
  BY <1>4 DEF Oldest


-----------------------------------------------------------------------------
\* The size of a directory.

Size(d, S) == DiskUsage([n \in S |-> Rows(d[n])], S)

\* A whole segment is not a torn one.
LEMMA RowsOfWhole ==
  ASSUME NEW x \in Seq(Records)
  PROVE  x # Torn /\ Rows(x) = Len(x) /\ Len(x) \in Nat
  BY QueryLogAssumption, LenProperties DEF Rows

\* One cell for every row of every file.
Cells(d, S) == {x \in S \X Nat : 1 <= x[2] /\ x[2] <= Len(d[x[1]])}

\* The size counts cells, and there are finitely many.
LEMMA SizeCounts ==
  ASSUME NEW d, IsDirectory(d), NEW S, S \subseteq DOMAIN d
  PROVE  /\ Size(d, S) = Cardinality(Cells(d, S))
         /\ IsFiniteSet(Cells(d, S))
         /\ Size(d, S) \in Nat
<1> DEFINE len == [n \in S |-> Rows(d[n])]
           all == UNION {{n} \X (1 .. len[n]) : n \in S}
<1>1. \A n \in S : len[n] = Len(d[n]) /\ len[n] \in Nat /\ Len(d[n]) <= FlushRows
  BY RowsOfWhole DEF IsDirectory
<1> HIDE DEF len
<1>2. ASSUME NEW x PROVE x \in all <=> x \in Cells(d, S)
  <2>1. x \in all <=> \E n \in S : x \in {n} \X (1 .. len[n])
    OBVIOUS
  <2>2. ASSUME NEW n \in S
        PROVE  x \in {n} \X (1 .. len[n]) <=>
                  /\ x \in S \X Nat /\ x[1] = n
                  /\ 1 <= x[2] /\ x[2] <= Len(d[x[1]])
    BY <1>1
  <2> QED
    BY <2>1, <2>2 DEF Cells
<1>3. all = Cells(d, S)
  BY <1>2
<1>4. Cells(d, S) \in SUBSET (S \X (1 .. FlushRows))
  <2>1. ASSUME NEW x \in Cells(d, S) PROVE x \in S \X (1 .. FlushRows)
    <3>1. /\ x \in S \X Nat /\ 1 <= x[2] /\ x[2] <= Len(d[x[1]])
          /\ Len(d[x[1]]) \in Nat /\ Len(d[x[1]]) <= FlushRows
      BY <1>1 DEF Cells
    <3> DEFINE k == Len(d[x[1]])
    <3>2. k \in Nat /\ k <= FlushRows /\ x[2] <= k
      BY <3>1
    <3> HIDE DEF k
    <3>3. x[2] <= FlushRows
      BY <3>1, <3>2, FlushRowsPositive
    <3> QED
      BY <3>1, <3>3, FlushRowsPositive
  <2> QED
    BY <2>1
<1>5. IsFiniteSet(S)
  BY FS_Subset DEF IsDirectory
<1>6. IsFiniteSet(1 .. FlushRows)
  BY FS_Interval, FlushRowsPositive
<1>7. IsFiniteSet(S \X (1 .. FlushRows))
  BY <1>5, <1>6, FS_Product
<1>8. IsFiniteSet(Cells(d, S))
  BY <1>4, <1>7, FS_Subset
<1>9. Size(d, S) = Cardinality(all)
  BY DEF Size, DiskUsage, len
<1> QED
  BY <1>3, <1>8, <1>9, FS_CardinalityType

\* Fewer files take no more.
LEMMA SizeMonotone ==
  ASSUME NEW d, IsDirectory(d), NEW S, NEW T, S \subseteq T, T \subseteq DOMAIN d
  PROVE  Size(d, S) <= Size(d, T)
<1>1. Cells(d, S) \in SUBSET Cells(d, T)
  BY DEF Cells
<1>2. S \subseteq DOMAIN d
  OBVIOUS
<1>3. /\ IsFiniteSet(Cells(d, T))
      /\ Size(d, S) = Cardinality(Cells(d, S))
      /\ Size(d, T) = Cardinality(Cells(d, T))
  BY <1>2, SizeCounts
<1>4. Cardinality(Cells(d, S)) <= Cardinality(Cells(d, T))
  BY <1>1, <1>3, FS_Subset
<1> QED
  BY <1>3, <1>4

\* No file takes nothing.
LEMMA SizeNone ==
  ASSUME NEW d
  PROVE  Size(d, {}) = 0
<1>1. UNION {{n} \X (1 .. [m \in {} |-> Rows(d[m])][n]) : n \in {}} = {}
  OBVIOUS
<1> QED
  BY <1>1, FS_EmptySet DEF Size, DiskUsage

\* A file that is removed frees its rows.
LEMMA SizeRemoved ==
  ASSUME NEW d, IsDirectory(d), NEW S, S \subseteq DOMAIN d, NEW f \in S
  PROVE  /\ IsDirectory(Without(d, f))
         /\ S \ {f} \subseteq DOMAIN Without(d, f)
         /\ Size(Without(d, f), S \ {f}) = Size(d, S) - Rows(d[f])
         /\ Rows(d[f]) \in Nat
         /\ Rows(d[f]) <= Size(d, S)
<1> DEFINE e == Without(d, f)
           own == {f} \X (1 .. Len(d[f]))
<1>1. /\ DOMAIN e = DOMAIN d \ {f}
      /\ \A n \in DOMAIN e : e[n] = d[n]
  BY DEF Without
<1>2. IsDirectory(e)
  <2>1. IsFiniteSet(DOMAIN e)
    BY <1>1, FS_RemoveElement DEF IsDirectory
  <2> QED
    BY <1>1, <2>1 DEF IsDirectory
<1>3. d[f] \in Seq(Records) /\ Len(d[f]) \in Nat /\ Rows(d[f]) = Len(d[f])
  BY RowsOfWhole DEF IsDirectory
<1>4. own \in SUBSET Cells(d, S)
  BY <1>3 DEF Cells
<1>5. IsFiniteSet(own) /\ Cardinality(own) = Len(d[f])
  <2> DEFINE k == Len(d[f])
  <2>1. k \in Nat
    BY <1>3
  <2> HIDE DEF k
  <2>2. IsFiniteSet(1 .. k) /\ Cardinality(1 .. k) = k
    BY <2>1, FS_Interval
  <2>3. IsFiniteSet({f}) /\ Cardinality({f}) = 1
    BY FS_Singleton
  <2>4. /\ IsFiniteSet({f} \X (1 .. k))
        /\ Cardinality({f} \X (1 .. k)) = 1 * k
    BY <2>2, <2>3, FS_Product
  <2> QED
    BY <2>1, <2>4 DEF k
<1>6. Cells(e, S \ {f}) = Cells(d, S) \ own
  <2>1. ASSUME NEW x PROVE x \in Cells(e, S \ {f}) <=> x \in Cells(d, S) \ own
    <3>1. x \in Cells(e, S \ {f}) <=> x \in Cells(d, S) /\ x[1] # f
      BY <1>1 DEF Cells
    <3>2. x \in Cells(d, S) => (x \in own <=> x[1] = f)
      BY <1>3 DEF Cells
    <3> QED
      BY <3>1, <3>2
  <2> HIDE DEF e, own
  <2> QED
    BY <2>1
<1>7. /\ Size(d, S) = Cardinality(Cells(d, S)) /\ IsFiniteSet(Cells(d, S))
      /\ Size(d, S) \in Nat
  BY SizeCounts
<1>8. S \ {f} \subseteq DOMAIN e
  BY <1>1
<1>9. Size(e, S \ {f}) = Cardinality(Cells(e, S \ {f}))
  BY <1>2, <1>8, SizeCounts
<1>10. /\ Cardinality(Cells(d, S) \ own)
            = Cardinality(Cells(d, S)) - Cardinality(Cells(d, S) \cap own)
       /\ Cardinality(own) <= Cardinality(Cells(d, S))
  BY <1>4, <1>7, FS_Difference, FS_Subset
<1>11. Cells(d, S) \cap own = own
  BY <1>4
<1> HIDE DEF e, own
<1>12. Size(e, S \ {f}) = Size(d, S) - Rows(d[f]) /\ Rows(d[f]) <= Size(d, S)
  BY <1>3, <1>5, <1>6, <1>7, <1>9, <1>10, <1>11
<1> QED
  BY <1>2, <1>3, <1>8, <1>12 DEF e


-----------------------------------------------------------------------------
\* Where the writer is and what it has in memory.

\* The writer is idle and nothing is in memory.
LEMMA InitControl == Init => Control /\ Memory
<1> SUFFICES ASSUME Init PROVE Control /\ Memory
  OBVIOUS
<1>1. Control
  BY QueryLogAssumption DEF Init, Control, Points, Names
<1>2. Memory
  BY QueryLogAssumption, FlushRowsPositive DEF Init, Memory
<1> QED
  BY <1>1, <1>2

\* One step per action.
LEMMA NextControl == Control /\ [Next]_vars => Control'
<1> SUFFICES ASSUME Control, [Next]_vars PROVE Control'
  OBVIOUS
<1> USE QueryLogAssumption DEF Control, Points, clock
<1>1. CASE Send
  BY <1>1 DEF Send, retention
<1>2. CASE Recv
  BY <1>2 DEF Recv, retention
<1>3. CASE FlushTick
  BY <1>3 DEF FlushTick, retention
<1>4. CASE Create
  BY <1>4 DEF Create, SegName, Names, retention
<1>5. CASE Fill
  BY <1>5 DEF Fill, retention
<1>6. CASE Rename
  BY <1>6 DEF Rename
<1>7. CASE WriteFail
  BY <1>7 DEF WriteFail, retention
<1>8. CASE List
  <2>1. PICK files \in SUBSET DOMAIN segs : capped' = (files = DOMAIN segs)
    BY <1>8 DEF List
  <2>2. capped' \in BOOLEAN
    BY <2>1
  <2> QED
    BY <1>8, <2>2 DEF List
<1>9. CASE ListFail
  BY <1>9 DEF ListFail, retention
<1>10. CASE Delete
  BY <1>10 DEF Delete
<1>11. CASE DeleteFail
  BY <1>11 DEF DeleteFail
<1>12. CASE Done
  BY <1>12 DEF Done
<1>13. CASE Query
  BY <1>13 DEF Query, QueryBegin, QueryPlan, QueryRead, QueryFail, retention
<1>14. CASE Tick
  BY <1>14 DEF Tick, retention
<1>15. CASE StepBack
  BY <1>15 DEF StepBack, retention
<1>16. CASE Crash
  <2>1. capped' \in BOOLEAN
    BY <1>16 DEF Crash
  <2> QED
    BY <1>16, <2>1 DEF Crash
<1>17. CASE Start
  BY <1>17 DEF Start, retention
<1>18. CASE UNCHANGED vars
  BY <1>18 DEF vars, retention
<1> QED
  BY <1>1, <1>2, <1>3, <1>4, <1>5, <1>6, <1>7, <1>8, <1>9, <1>10, <1>11, <1>12,
     <1>13, <1>14, <1>15, <1>16, <1>17, <1>18
     DEF Next, Writer, WriteSegment

\* Recv leaves a buffer that is not full, or hands a full one over.
LEMMA RecvMemory ==
  ASSUME Control, Memory, Recv
  PROVE  Memory'
<1> DEFINE all == Append(buf, Head(chan))
           len == Len(buf)
<1>1. /\ chan \in Seq(Records) /\ chan # <<>> /\ buf \in Seq(Records)
      /\ Len(chan) <= LOG_CHANNEL_CAP /\ chan' = Tail(chan)
      /\ sent' = sent /\ sent \in 0 .. MaxRecords /\ wpc = "idle" /\ recs = <<>>
  BY DEF Memory, Recv
<1>2. /\ Head(chan) \in Records /\ Tail(chan) \in Seq(Records)
      /\ Len(Tail(chan)) = Len(chan) - 1 /\ Len(chan) \in Nat
  BY <1>1, HeadTailProperties, LenProperties
<1>3. chan' \in Seq(Records) /\ Len(chan') <= LOG_CHANNEL_CAP
  BY <1>1, <1>2, QueryLogAssumption
<1>4. all \in Seq(Records) /\ Len(all) = len + 1 /\ len \in Nat /\ len < FlushRows
  BY <1>1, <1>2, AppendProperties, LenProperties DEF Memory
<1> HIDE DEF len
<1>5. Len(all) <= FlushRows
  BY <1>4, FlushRowsPositive
<1>6. \/ /\ recs' = all /\ buf' = <<>> /\ wpc' = "create"
      \/ /\ buf' = all /\ recs' = <<>> /\ wpc' = "idle" /\ Len(all) < FlushRows
  <2>1. IF Len(all) >= FlushRows
          THEN recs' = all /\ buf' = <<>> /\ wpc' = "create"
          ELSE buf' = all /\ UNCHANGED <<recs, wpc>>
    BY DEF Recv
  <2>2. ~(Len(all) >= FlushRows) => Len(all) < FlushRows
    BY <1>4, FlushRowsPositive
  <2> QED
    BY <1>1, <2>1, <2>2
<1> HIDE DEF all
<1>7. <<>> \in Seq(Records) /\ Len(<<>>) = 0 /\ 0 < FlushRows /\ 0 <= FlushRows
  BY FlushRowsPositive
<1> QED
  BY <1>1, <1>3, <1>4, <1>5, <1>6, <1>7 DEF Memory

\* One step per action that moves records.
LEMMA NextMemory == Control /\ Memory /\ [Next]_vars => Memory'
<1> SUFFICES ASSUME Control, Memory, [Next]_vars PROVE Memory'
  OBVIOUS
<1>e. /\ <<>> \in Seq(Records) /\ Len(<<>>) = 0
      /\ 0 < FlushRows /\ 0 <= FlushRows /\ 0 <= LOG_CHANNEL_CAP
  BY FlushRowsPositive, QueryLogAssumption
<1>1. CASE Send
  <2>1. sent + 1 \in Records /\ sent' = sent + 1
    BY <1>1, QueryLogAssumption DEF Send, Memory, Records
  <2>2. chan' \in Seq(Records) /\ Len(chan') <= LOG_CHANNEL_CAP
    <3> DEFINE len == Len(chan)
    <3>1. /\ chan \in Seq(Records) /\ len \in Nat /\ len <= LOG_CHANNEL_CAP
          /\ Append(chan, sent + 1) \in Seq(Records)
          /\ Len(Append(chan, sent + 1)) = len + 1
      BY <2>1, AppendProperties, LenProperties DEF Memory
    <3>2. \/ chan' = chan
          \/ chan' = Append(chan, sent + 1) /\ len < LOG_CHANNEL_CAP
      BY <1>1 DEF Send, TrySend
    <3>3. len < LOG_CHANNEL_CAP => len + 1 <= LOG_CHANNEL_CAP
      BY <3>1, QueryLogAssumption
    <3> QED
      BY <3>1, <3>2, <3>3
  <2>3. UNCHANGED <<buf, recs, wpc>> /\ sent' \in 0 .. MaxRecords
    BY <1>1, <2>1 DEF Send, Records
  <2> QED
    BY <2>2, <2>3 DEF Memory
<1>2. CASE Recv
  BY <1>2, RecvMemory
<1>3. CASE FlushTick
  <2> DEFINE len == Len(buf)
  <2>1. len \in Nat /\ len < FlushRows
    BY LenProperties DEF Memory
  <2> HIDE DEF len
  <2>2. len <= FlushRows
    BY <2>1, FlushRowsPositive
  <2> QED
    BY <1>3, <1>e, <2>2 DEF FlushTick, Memory, len
<1>4. CASE Create \/ Fill
  BY <1>4 DEF Create, Fill, Memory, memory
<1>5. CASE Rename \/ WriteFail
  BY <1>5, <1>e DEF Rename, WriteFail, Memory
<1>6. CASE List \/ ListFail \/ Delete \/ DeleteFail \/ Done
  BY <1>6 DEF List, ListFail, Delete, DeleteFail, Done, Memory, memory
<1>7. CASE Query \/ Tick \/ StepBack \/ Start
  BY <1>7 DEF Query, QueryBegin, QueryPlan, QueryRead, QueryFail, Tick, StepBack,
              Start, Memory, memory
<1>8. CASE Crash
  BY <1>8, <1>e DEF Crash, Memory
<1>9. CASE UNCHANGED vars
  BY <1>9 DEF vars, Memory, memory
<1> QED
  BY <1>1, <1>2, <1>3, <1>4, <1>5, <1>6, <1>7, <1>8, <1>9
     DEF Next, Writer, WriteSegment


-----------------------------------------------------------------------------
\* The directory.

\* Adding a file, in the place of another one or not.
LEMMA DirectoryWith ==
  ASSUME NEW d, IsDirectory(d), NEW n \in Names, NEW x \in Seq(Records),
         Len(x) <= FlushRows
  PROVE  IsDirectory(With(d, n, x))
<1>1. /\ DOMAIN With(d, n, x) = DOMAIN d \cup {n}
      /\ \A m \in DOMAIN d \cup {n} :
            With(d, n, x)[m] = IF m = n THEN x ELSE d[m]
  BY DEF With
<1>2. IsFiniteSet(DOMAIN d \cup {n})
  BY FS_AddElement DEF IsDirectory
<1> QED
  BY <1>1, <1>2 DEF IsDirectory

\* Both directories are empty, and nothing is read.
LEMMA InitDirectory == Init => Directory /\ Reading
<1> SUFFICES ASSUME Init PROVE Directory /\ Reading
  OBVIOUS
<1>1. DOMAIN segs = {} /\ DOMAIN tmps = {}
  BY DEF Init
<1>2. IsFiniteSet({})
  BY FS_EmptySet
<1> QED
  BY <1>1, <1>2 DEF Init, Directory, IsDirectory, Reading

\* The steps of write_segment, before retention.
LEMMA WriteDirectory ==
  ASSUME Control, Memory, Directory, Create \/ Fill \/ Rename
  PROVE  Directory'
<1> DEFINE len == Len(recs)
<1>1. recs \in Seq(Records) /\ len \in Nat /\ len <= FlushRows
  BY LenProperties DEF Memory
<1>2. name \in Names /\ SegName \in Names
  BY QueryLogAssumption DEF Control, Names, SegName
<1>3. IsDirectory(segs)
  BY DEF Directory
<1>4. CASE Create
  <2>1. PICK size \in 0 .. len : tmps' = With(tmps, SegName, size) /\ segs' = segs
    BY <1>4 DEF Create
  <2> HIDE DEF len
  <2>2. size \in 0 .. FlushRows
    BY <1>1, <2>1, FlushRowsPositive
  <2> QED
    BY <1>2, <1>3, <2>1, <2>2 DEF Directory, With
<1>5. CASE Fill
  <2>1. tmps' = With(tmps, name, len) /\ segs' = segs
    BY <1>5 DEF Fill
  <2> HIDE DEF len
  <2>2. len \in 0 .. FlushRows
    BY <1>1, FlushRowsPositive
  <2> QED
    BY <1>2, <1>3, <2>1, <2>2 DEF Directory, With
<1>6. CASE Rename
  <2>1. segs' = With(segs, name, recs) /\ tmps' = Without(tmps, name)
    BY <1>6 DEF Rename
  <2>2. IsDirectory(segs')
    BY <1>1, <1>2, <1>3, <2>1, DirectoryWith
  <2> QED
    BY <2>1, <2>2 DEF Directory, Without
<1> QED
  BY <1>4, <1>5, <1>6

\* What Delete removes is a segment.
LEMMA DeleteTakes ==
  ASSUME Directory, todo \subseteq DOMAIN segs, todo # {}
  PROVE  Oldest(todo) \in todo /\ Oldest(todo) \in DOMAIN segs
<1>1. todo \subseteq Names
  BY DEF Directory, IsDirectory
<1> QED
  BY <1>1, OldestIsThere

\* One step per action; the directory changes in the steps of write_segment.
LEMMA NextDirectory ==
  Control /\ Memory /\ Directory /\ todo \subseteq DOMAIN segs /\ [Next]_vars
      => Directory'
<1> SUFFICES ASSUME Control, Memory, Directory, todo \subseteq DOMAIN segs,
                    [Next]_vars
             PROVE  Directory'
  OBVIOUS
<1>1. CASE Create \/ Fill \/ Rename
  BY <1>1, WriteDirectory
<1>2. CASE Delete
  <2>1. segs' = Without(segs, Oldest(todo)) /\ tmps' = tmps /\ todo # {}
    BY <1>2 DEF Delete
  <2>2. IsDirectory(segs')
    BY <2>1, DeleteTakes, SizeRemoved DEF Directory
  <2> QED
    BY <2>1, <2>2 DEF Directory
<1>3. CASE UNCHANGED <<segs, tmps>>
  BY <1>3 DEF Directory
<1>4. \/ UNCHANGED <<segs, tmps>>
      \/ Create \/ Fill \/ Rename \/ Delete
  BY DEF Next, Writer, WriteSegment, Send, Recv, FlushTick, WriteFail, List,
         ListFail, DeleteFail, Done, Query, QueryBegin, QueryPlan, QueryRead,
         QueryFail, Tick, StepBack, Crash, Start, vars
<1> QED
  BY <1>1, <1>2, <1>3, <1>4

\* A query reads whole segments only.
LEMMA NextReading == Directory /\ Reading /\ [Next]_vars => Reading'
<1> SUFFICES ASSUME Directory, Reading, [Next]_vars PROVE Reading'
  OBVIOUS
<1>1. CASE QueryBegin
  BY <1>1 DEF QueryBegin, Reading
<1>2. CASE QueryPlan
  BY <1>2 DEF QueryPlan, Reading, Directory, IsDirectory
<1>3. ASSUME NEW f \in qfiles, QueryRead(f) PROVE Reading'
  <2>1. segs[f] \in Seq(Records) /\ segs[f] # Torn
    BY <1>3, RowsOfWhole DEF QueryRead, Directory, IsDirectory
  <2>2. rows' = rows \cup Items(segs[f])
    BY <1>3, <2>1 DEF QueryRead
  <2>3. rows' \subseteq Records
    BY <2>1, <2>2, ItemsType DEF Reading
  <2> QED
    BY <1>3, <2>3 DEF QueryRead, Reading
<1>4. CASE QueryFail \/ Crash
  BY <1>4 DEF QueryFail, Crash, Reading
<1>5. CASE UNCHANGED query
  BY <1>5 DEF query, Reading
<1>6. \/ UNCHANGED query
      \/ QueryBegin \/ QueryPlan \/ QueryFail \/ Crash
      \/ \E f \in qfiles : QueryRead(f)
  BY DEF Next, Writer, WriteSegment, Send, Recv, FlushTick, Create, Fill, Rename,
         WriteFail, List, ListFail, Delete, DeleteFail, Done, Query, Tick,
         StepBack, Start, vars
<1> QED
  BY <1>1, <1>2, <1>3, <1>4, <1>5, <1>6

-----------------------------------------------------------------------------
\* Retention.

\* The cap holds of the empty directory.
LEMMA InitRetention == Init => Retention
<1> SUFFICES ASSUME Init PROVE Retention
  OBVIOUS
<1>1. DOMAIN segs = {} /\ todo = {} /\ total = 0 /\ wpc = "idle"
  BY DEF Init
<1>2. SizeOf(DOMAIN segs) = 0
  BY <1>1, SizeNone DEF SizeOf, Size
<1> QED
  BY <1>1, <1>2, QueryLogAssumption DEF Retention

\* Delete keeps the account: the running total and the directory lose the rows
\* of the same file.
LEMMA DeleteRetention ==
  ASSUME Control, Directory, Retention, Delete
  PROVE  Retention'
<1> DEFINE f == Oldest(todo)
           k == Rows(segs[f])
           a == Size(segs, todo)
           b == Size(segs, DOMAIN segs)
<1>1. /\ wpc = "delete" /\ todo # {} /\ segs' = Without(segs, f)
      /\ total' = total - k /\ todo' = todo \ {f} /\ wpc' = wpc /\ capped' = capped
  BY DEF Delete
<1>2. todo \subseteq DOMAIN segs /\ IsDirectory(segs) /\ total \in Nat
  BY DEF Retention, Directory
<1>3. f \in todo /\ f \in DOMAIN segs
  BY <1>1, <1>2, DeleteTakes
<1>4. a <= total /\ total <= b /\ (capped => todo = DOMAIN segs /\ total = b)
  BY <1>1 DEF Retention, SizeOf, Size
<1>5. a \in Nat /\ b \in Nat
  BY <1>2, SizeCounts
<1>6. k \in Nat /\ k <= a /\ Size(segs', todo') = a - k
  BY <1>1, <1>2, <1>3, SizeRemoved
<1>7. DOMAIN segs' = DOMAIN segs \ {f}
  BY <1>1 DEF Without
<1>8. Size(segs', DOMAIN segs') = b - k
  BY <1>1, <1>2, <1>3, <1>7, SizeRemoved
<1>9. todo' \subseteq DOMAIN segs'
  BY <1>1, <1>2, <1>7
<1> HIDE DEF k, a, b
<1>10. /\ total' \in Nat /\ a - k <= total' /\ total' <= b - k
       /\ capped => total' = b - k
  BY <1>1, <1>2, <1>4, <1>5, <1>6
<1>11. /\ SizeOf(todo)' = a - k
       /\ SizeOf(DOMAIN segs)' = b - k
  BY <1>6, <1>8 DEF SizeOf, Size
<1>12. capped => todo' = DOMAIN segs'
  BY <1>1, <1>4, <1>7
<1> QED
  BY <1>1, <1>9, <1>10, <1>11, <1>12 DEF Retention

\* One step per action of the writer that touches what Retention is about.
LEMMA NextRetention ==
  Control /\ Directory /\ Retention /\ [Next]_vars => Retention'
<1> SUFFICES ASSUME Control, Directory, Retention, [Next]_vars PROVE Retention'
  OBVIOUS
<1>d. IsDirectory(segs)
  BY DEF Directory
<1>1. CASE Rename
  <2>1. todo = {} /\ todo' = todo /\ total' = total /\ wpc' = "list" /\ ~capped'
    BY <1>1 DEF Rename, Control
  <2> QED
    BY <2>1 DEF Retention
<1>2. CASE List
  <2>1. PICK files \in SUBSET DOMAIN segs :
          /\ todo' = files /\ total' = SizeOf(files)
          /\ capped' = (files = DOMAIN segs)
          /\ wpc' = "delete" /\ segs' = segs
    BY <1>2 DEF List
  <2>2. SizeOf(files) = Size(segs, files) /\ SizeOf(DOMAIN segs) = Size(segs, DOMAIN segs)
    BY DEF SizeOf, Size
  <2>3. SizeOf(todo)' = SizeOf(files) /\ SizeOf(DOMAIN segs)' = SizeOf(DOMAIN segs)
    BY <2>1 DEF SizeOf
  <2>4. /\ Size(segs, files) \in Nat /\ Size(segs, DOMAIN segs) \in Nat
        /\ Size(segs, files) <= Size(segs, DOMAIN segs)
    BY <1>d, <2>1, SizeCounts, SizeMonotone
  <2>5. /\ total' \in Nat
        /\ SizeOf(todo)' <= total' /\ total' <= SizeOf(DOMAIN segs)'
    BY <2>1, <2>2, <2>3, <2>4
  <2>6. capped' => todo' = DOMAIN segs' /\ total' = SizeOf(DOMAIN segs)'
    BY <2>1, <2>3
  <2> QED
    BY <2>1, <2>5, <2>6 DEF Retention
<1>3. CASE Delete
  BY <1>3, DeleteRetention
<1>4. CASE DeleteFail
  <2> DEFINE f == Oldest(todo)
  <2>1. /\ wpc = "delete" /\ wpc' = wpc /\ segs' = segs /\ total' = total
        /\ todo' = todo \ {f} /\ ~capped'
    BY <1>4 DEF DeleteFail
  <2>2. todo \subseteq DOMAIN segs /\ total \in Nat
    BY DEF Retention
  <2>3. todo \ {f} \subseteq todo /\ todo \ {f} \subseteq DOMAIN segs
    BY <2>2
  <2> DEFINE a == Size(segs, todo)
             b == Size(segs, todo \ {f})
  <2>4. a \in Nat /\ b \in Nat /\ b <= a /\ a <= total
    <3>1. a \in Nat /\ b \in Nat
      BY <1>d, <2>2, <2>3, SizeCounts
    <3>2. b <= a
      BY <1>d, <2>2, <2>3, SizeMonotone
    <3>3. a <= total
      BY <2>1 DEF Retention, SizeOf, Size
    <3> QED
      BY <3>1, <3>2, <3>3
  <2>5. SizeOf(todo)' = b /\ SizeOf(DOMAIN segs)' = SizeOf(DOMAIN segs)
    BY <2>1 DEF SizeOf, Size
  <2> HIDE DEF a, b
  <2>6. b <= total
    BY <2>2, <2>4
  <2> QED
    BY <2>1, <2>2, <2>3, <2>5, <2>6 DEF Retention
<1>5. CASE Done
  <2>1. /\ wpc = "delete" /\ wpc' = "idle" /\ segs' = segs /\ capped' = capped
        /\ todo' = {} /\ total' = 0 /\ (todo = {} \/ total <= max_bytes)
    BY <1>5 DEF Done
  <2>2. SizeOf(DOMAIN segs)' = SizeOf(DOMAIN segs)
    BY <2>1 DEF SizeOf
  <2>3. capped => SizeOf(DOMAIN segs) <= max_bytes
    <3>1. SizeOf({}) = 0
      BY SizeNone DEF SizeOf, Size
    <3>2. capped => todo = DOMAIN segs /\ total = SizeOf(DOMAIN segs)
      BY <2>1 DEF Retention
    <3>3. CASE capped /\ todo = {}
      <4>1. SizeOf(DOMAIN segs) = 0
        BY <3>1, <3>2, <3>3
      <4> QED
        BY <4>1, QueryLogAssumption
    <3> QED
      BY <2>1, <3>2, <3>3
  <2> QED
    BY <2>1, <2>2, <2>3 DEF Retention
<1>6. CASE Crash
  <2>1. /\ segs' = segs /\ todo' = {} /\ total' = 0 /\ wpc' = "idle"
        /\ capped' = (capped /\ wpc # "delete")
    BY <1>6 DEF Crash
  <2>2. SizeOf(DOMAIN segs)' = SizeOf(DOMAIN segs)
    BY <2>1 DEF SizeOf
  <2> QED
    BY <2>1, <2>2 DEF Retention
<1>7. CASE /\ UNCHANGED <<segs, retention>>
           /\ \/ wpc' = wpc
              \/ wpc # "delete" /\ wpc' \notin {"list", "delete"}
  <2>1. SizeOf(todo)' = SizeOf(todo) /\ SizeOf(DOMAIN segs)' = SizeOf(DOMAIN segs)
    BY <1>7 DEF SizeOf, retention
  <2> QED
    BY <1>7, <2>1 DEF Retention, retention
<1>8. \/ Rename \/ List \/ Delete \/ DeleteFail \/ Done \/ Crash
      \/ /\ UNCHANGED <<segs, retention>>
         /\ \/ wpc' = wpc
            \/ wpc # "delete" /\ wpc' \notin {"list", "delete"}
  BY DEF Next, Writer, WriteSegment, Send, Recv, FlushTick, Create, Fill,
         WriteFail, ListFail, Query, QueryBegin, QueryPlan, QueryRead,
         QueryFail, Tick, StepBack, Start, vars
<1> QED
  BY <1>1, <1>2, <1>3, <1>4, <1>5, <1>6, <1>7, <1>8

\* The files that were listed and are still there lose what the total loses.
LEMMA NextAccount ==
  Directory /\ Retention /\ Account /\ [Next]_vars => Account'
<1> SUFFICES ASSUME Directory, Retention, Account, [Next]_vars PROVE Account'
  OBVIOUS
<1>1. CASE List
  <2>1. PICK files \in SUBSET DOMAIN segs :
          /\ todo' = files /\ listed' = files /\ total' = SizeOf(files)
          /\ segs' = segs
    BY <1>1 DEF List
  <2>2. files \cap DOMAIN segs = files /\ files \subseteq Names
    BY <2>1 DEF Directory, IsDirectory
  <2>3. SizeOf(listed \cap DOMAIN segs)' = SizeOf(files)
    BY <2>1, <2>2 DEF SizeOf
  <2> QED
    BY <2>1, <2>2, <2>3 DEF Account
<1>2. CASE Delete
  <2> DEFINE f == Oldest(todo)
             S == listed \cap DOMAIN segs
  <2>1. /\ wpc = "delete" /\ todo # {} /\ segs' = Without(segs, f)
        /\ total' = total - Rows(segs[f]) /\ todo' = todo \ {f} /\ listed' = listed
    BY <1>2 DEF Delete
  <2>2. f \in todo /\ f \in DOMAIN segs /\ IsDirectory(segs)
    BY <2>1, DeleteTakes DEF Retention, Directory
  <2>3. f \in S /\ S \subseteq DOMAIN segs /\ total = Size(segs, S)
    BY <2>1, <2>2 DEF Account, SizeOf, Size
  <2> HIDE DEF f
  <2>4. Size(Without(segs, f), S \ {f}) = Size(segs, S) - Rows(segs[f])
    BY <2>2, <2>3, SizeRemoved
  <2>5. (listed \cap DOMAIN segs)' = S \ {f}
    BY <2>1 DEF Without
  <2>6. SizeOf(listed \cap DOMAIN segs)' = Size(segs', S \ {f})
    BY <2>5 DEF SizeOf, Size
  <2> HIDE DEF S
  <2>7. total' = SizeOf(listed \cap DOMAIN segs)'
    BY <2>1, <2>3, <2>4, <2>6
  <2> QED
    BY <2>1, <2>7 DEF Account
<1>3. CASE DeleteFail
  <2>1. /\ wpc = "delete" /\ segs' = segs /\ total' = total /\ listed' = listed
        /\ todo' \subseteq todo
    BY <1>3 DEF DeleteFail
  <2>2. SizeOf(listed \cap DOMAIN segs)' = SizeOf(listed \cap DOMAIN segs)
    BY <2>1 DEF SizeOf
  <2> QED
    BY <2>1, <2>2 DEF Account
<1>4. CASE wpc' # "delete" /\ listed' \in {listed, {}}
  BY <1>4 DEF Account
<1>5. CASE wpc' = wpc /\ UNCHANGED <<segs, retention>>
  <2>1. /\ SizeOf(listed \cap DOMAIN segs)' = SizeOf(listed \cap DOMAIN segs)
        /\ listed' = listed /\ todo' = todo /\ total' = total
    BY <1>5 DEF SizeOf, retention
  <2> QED
    BY <1>5, <2>1 DEF Account
<1>6. \/ List \/ Delete \/ DeleteFail
      \/ wpc' # "delete" /\ listed' \in {listed, {}}
      \/ wpc' = wpc /\ UNCHANGED <<segs, retention>>
  BY DEF Next, Writer, WriteSegment, Send, Recv, FlushTick, Create, Fill, Rename,
         WriteFail, ListFail, Done, Query, QueryBegin, QueryPlan, QueryRead,
         QueryFail, Tick, StepBack, Crash, Start, vars, retention
<1> QED
  BY <1>1, <1>2, <1>3, <1>4, <1>5, <1>6

-----------------------------------------------------------------------------
\* The order of the records.

\* The entries of the three sequences, and of a segment, are records.
LEMMA RecordsInMemory ==
  ASSUME Memory
  PROVE  /\ Items(chan) \subseteq Records
         /\ Items(buf) \subseteq Records
         /\ Items(recs) \subseteq Records
         /\ Records \subseteq Nat /\ sent \in Nat
  BY ItemsType, QueryLogAssumption DEF Memory, Records

\* An empty sequence has no entry and is increasing.
LEMMA EmptyIncreasing == Items(<<>>) = {} /\ Increasing(<<>>)
  BY DEF Items, Increasing

\* Nothing has been logged.
LEMMA InitOrdered == Init => Ordered
<1> SUFFICES ASSUME Init PROVE Ordered
  OBVIOUS
<1>1. chan = <<>> /\ buf = <<>> /\ recs = <<>> /\ DOMAIN segs = {}
  BY DEF Init
<1> QED
  BY <1>1, EmptyIncreasing DEF Ordered, AllBelow

\* A record that is handed in is the newest.
LEMMA SendOrdered ==
  ASSUME Memory, Directory, Ordered, Send
  PROVE  Ordered'
<1>1. /\ sent' = sent + 1 /\ UNCHANGED <<buf, recs, segs>>
      /\ sent + 1 \in Records /\ chan \in Seq(Records)
  BY QueryLogAssumption DEF Send, Memory, Records
<1>2. chan' = chan \/ chan' = Append(chan, sent + 1)
  BY DEF Send, TrySend
<1>3. \A r \in Items(chan) : r < sent + 1
  BY RecordsInMemory DEF Ordered
<1>4. Increasing(chan') /\ Items(chan') \subseteq Items(chan) \cup {sent + 1}
  BY <1>1, <1>2, <1>3, IncreasingAppend, ItemsAppend DEF Ordered
<1>5. \A r \in Items(chan') : r <= sent + 1
  BY <1>3, <1>4, RecordsInMemory
<1>6. \A r \in Items(buf) \cup Items(recs) : r < sent + 1 /\ r <= sent + 1
  BY RecordsInMemory DEF Ordered
<1>7. AllBelow(Items(buf) \cup Items(recs), Items(chan'))
  BY <1>4, <1>6 DEF Ordered, AllBelow
<1>8. ASSUME NEW n \in DOMAIN segs
      PROVE  /\ AllBelow(Items(segs[n]), Items(chan') \cup Items(buf) \cup Items(recs))
             /\ \A r \in Items(segs[n]) : r <= sent + 1
  <2>1. Items(segs[n]) \subseteq Records
    BY ItemsType DEF Directory, IsDirectory
  <2>2. \A r \in Items(segs[n]) : r <= sent + 1 /\ r < sent + 1
    BY <2>1, RecordsInMemory DEF Ordered
  <2>3. AllBelow(Items(segs[n]), Items(chan) \cup Items(buf) \cup Items(recs))
    BY DEF Ordered, InMemory
  <2> QED
    BY <1>4, <2>2, <2>3 DEF AllBelow
<1> QED
  BY <1>1, <1>4, <1>5, <1>6, <1>7, <1>8 DEF Ordered, InMemory

\* What the writer receives is newer than what it has, and older than the rest
\* of the channel.
LEMMA RecvOrdered ==
  ASSUME Memory, Directory, Ordered, Recv
  PROVE  Ordered'
<1> DEFINE h == Head(chan)
           all == Append(buf, h)
<1>1. /\ chan \in Seq(Records) /\ chan # <<>> /\ buf \in Seq(Records)
      /\ recs = <<>> /\ chan' = Tail(chan) /\ UNCHANGED <<sent, segs>>
      /\ h \in Records
  BY HeadTailProperties DEF Recv, Memory
<1>2. /\ Increasing(chan') /\ h \in Items(chan)
      /\ Items(chan') \subseteq Items(chan)
      /\ \A r \in Items(chan') : h < r
  BY <1>1, IncreasingTail DEF Ordered
<1>3. \A r \in Items(buf) : r < h
  BY <1>2 DEF Ordered, AllBelow
<1>4. Increasing(all) /\ Items(all) = Items(buf) \cup {h}
  BY <1>1, <1>3, IncreasingAppend, ItemsAppend DEF Ordered
<1>5. \/ recs' = all /\ buf' = <<>>
      \/ buf' = all /\ recs' = <<>>
  BY <1>1 DEF Recv
<1> HIDE DEF all
<1>6. /\ Increasing(buf') /\ Increasing(recs')
      /\ Items(buf') \cup Items(recs') = Items(buf) \cup {h}
  BY <1>4, <1>5, EmptyIncreasing
<1>7. AllBelow(Items(buf') \cup Items(recs'), Items(chan'))
  BY <1>2, <1>6 DEF Ordered, AllBelow
<1>8. \A r \in Items(buf') \cup Items(recs') : r <= sent
  BY <1>2, <1>6 DEF Ordered
<1>9. InMemory' \subseteq InMemory
  BY <1>2, <1>6 DEF InMemory
<1>10. \A n \in DOMAIN segs :
          /\ AllBelow(Items(segs[n]), InMemory')
          /\ \A r \in Items(segs[n]) : r <= sent
  BY <1>9 DEF Ordered, AllBelow
<1>11. /\ \A r \in Items(chan') : r <= sent
       /\ \A m, n \in DOMAIN segs : m # n => Items(segs[m]) \cap Items(segs[n]) = {}
  BY <1>2 DEF Ordered
<1> QED
  BY <1>1, <1>2, <1>6, <1>7, <1>8, <1>10, <1>11 DEF Ordered

\* The new segment has what was in memory, newer than every other segment.
LEMMA RenameOrdered ==
  ASSUME Memory, Directory, Ordered, Rename
  PROVE  Ordered'
<1>1. /\ segs' = With(segs, name, recs) /\ recs' = <<>> /\ buf = <<>>
      /\ UNCHANGED <<chan, buf, sent>>
  BY DEF Rename, Memory
<1>2. /\ DOMAIN segs' = DOMAIN segs \cup {name}
      /\ segs'[name] = recs
      /\ \A n \in DOMAIN segs \ {name} : segs'[n] = segs[n]
  BY <1>1 DEF With
<1>3. Items(buf) = {} /\ Items(recs') = {} /\ Increasing(recs')
  BY <1>1, EmptyIncreasing
<1>4. InMemory' = Items(chan)
  BY <1>1, <1>3 DEF InMemory
<1>5. ASSUME NEW n \in DOMAIN segs'
      PROVE  /\ AllBelow(Items(segs'[n]), Items(chan))
             /\ \A r \in Items(segs'[n]) : r <= sent
  <2>1. CASE n = name
    BY <1>2, <2>1 DEF Ordered, AllBelow
  <2>2. CASE n # name
    <3>1. n \in DOMAIN segs /\ segs'[n] = segs[n]
      BY <1>2, <2>2
    <3> QED
      BY <3>1 DEF Ordered, AllBelow, InMemory
  <2> QED
    BY <2>1, <2>2
<1>6. ASSUME NEW n \in DOMAIN segs PROVE Items(segs[n]) \cap Items(recs) = {}
  <2>1. Items(segs[n]) \subseteq Nat
    BY ItemsType, QueryLogAssumption DEF Directory, IsDirectory, Records
  <2>2. \A a \in Items(segs[n]), b \in Items(recs) : a < b
    BY DEF Ordered, AllBelow, InMemory
  <2>3. \A a \in Items(segs[n]) : a \notin Items(recs)
    BY <2>1, <2>2
  <2> QED
    BY <2>3
<1>7. ASSUME NEW m \in DOMAIN segs', NEW n \in DOMAIN segs', m # n
      PROVE  Items(segs'[m]) \cap Items(segs'[n]) = {}
  <2>1. CASE m = name
    BY <1>2, <1>6, <1>7, <2>1
  <2>2. CASE n = name
    BY <1>2, <1>6, <1>7, <2>2
  <2>3. CASE m # name /\ n # name
    <3>1. /\ m \in DOMAIN segs /\ segs'[m] = segs[m]
          /\ n \in DOMAIN segs /\ segs'[n] = segs[n]
      BY <1>2, <2>3
    <3> QED
      BY <1>7, <3>1 DEF Ordered
  <2> QED
    BY <2>1, <2>2, <2>3
<1>8. /\ Increasing(chan') /\ Increasing(buf')
      /\ \A r \in Items(chan') : r <= sent'
  BY <1>1 DEF Ordered
<1>9. Items(buf') \cup Items(recs') = {}
  BY <1>1, <1>3
<1>10. /\ AllBelow(Items(buf') \cup Items(recs'), Items(chan'))
       /\ \A r \in Items(buf') \cup Items(recs') : r <= sent'
  BY <1>9 DEF AllBelow
<1>11. \A n \in DOMAIN segs' :
          /\ AllBelow(Items(segs'[n]), InMemory')
          /\ \A r \in Items(segs'[n]) : r <= sent'
  BY <1>1, <1>4, <1>5
<1> QED
  BY <1>3, <1>7, <1>8, <1>10, <1>11 DEF Ordered

\* Steps that only drop or move what the writer has, or drop segments.
LEMMA DropOrdered ==
  ASSUME Ordered, sent' = sent,
         Increasing(chan'), Items(chan') \subseteq Items(chan),
         Increasing(buf'), Increasing(recs'),
         Items(buf') \cup Items(recs') \subseteq Items(buf) \cup Items(recs),
         DOMAIN segs' \subseteq DOMAIN segs,
         \A n \in DOMAIN segs' : segs'[n] = segs[n]
  PROVE  Ordered'
<1>1. InMemory' \subseteq InMemory
  BY DEF InMemory
<1>2. AllBelow(Items(buf') \cup Items(recs'), Items(chan'))
  BY DEF Ordered, AllBelow
<1>3. \A n \in DOMAIN segs' :
         /\ AllBelow(Items(segs'[n]), InMemory')
         /\ \A r \in Items(segs'[n]) : r <= sent'
  BY <1>1 DEF Ordered, AllBelow
<1>4. \A m, n \in DOMAIN segs' : m # n => Items(segs'[m]) \cap Items(segs'[n]) = {}
  BY DEF Ordered
<1>5. /\ \A r \in Items(chan') : r <= sent'
      /\ \A r \in Items(buf') \cup Items(recs') : r <= sent'
  BY DEF Ordered
<1> QED
  BY <1>2, <1>3, <1>4, <1>5 DEF Ordered

\* One step per action that moves records.
LEMMA NextOrdered ==
  Memory /\ Directory /\ Ordered /\ [Next]_vars => Ordered'
<1> SUFFICES ASSUME Memory, Directory, Ordered, [Next]_vars PROVE Ordered'
  OBVIOUS
<1>i. Increasing(chan) /\ Increasing(buf) /\ Increasing(recs)
  BY DEF Ordered
<1>1. CASE Send
  BY <1>1, SendOrdered
<1>2. CASE Recv
  BY <1>2, RecvOrdered
<1>3. CASE FlushTick
  <2>1. recs' = buf /\ buf' = <<>> /\ UNCHANGED <<sent, chan, segs>>
    BY <1>3 DEF FlushTick
  <2>2. Items(buf') = {} /\ Increasing(buf')
    BY <2>1, EmptyIncreasing
  <2> QED
    BY <1>i, <2>1, <2>2, DropOrdered
<1>4. CASE Rename
  BY <1>4, RenameOrdered
<1>5. CASE WriteFail
  <2>1. recs' = <<>> /\ UNCHANGED <<sent, chan, buf, segs>>
    BY <1>5 DEF WriteFail
  <2>2. Items(recs') = {} /\ Increasing(recs')
    BY <2>1, EmptyIncreasing
  <2> QED
    BY <1>i, <2>1, <2>2, DropOrdered
<1>6. CASE Delete
  <2>1. segs' = Without(segs, Oldest(todo)) /\ UNCHANGED <<sent, chan, buf, recs>>
    BY <1>6 DEF Delete, memory
  <2>2. /\ DOMAIN segs' \subseteq DOMAIN segs
        /\ \A n \in DOMAIN segs' : segs'[n] = segs[n]
    BY <2>1 DEF Without
  <2> QED
    BY <1>i, <2>1, <2>2, DropOrdered
<1>7. CASE Crash
  <2>1. /\ chan' = <<>> /\ buf' = <<>> /\ recs' = <<>>
        /\ UNCHANGED <<sent, segs>>
    BY <1>7 DEF Crash
  <2>2. /\ Items(chan') = {} /\ Items(buf') = {} /\ Items(recs') = {}
        /\ Increasing(chan') /\ Increasing(buf') /\ Increasing(recs')
    BY <2>1, EmptyIncreasing
  <2> QED
    BY <2>1, <2>2, DropOrdered
<1>8. CASE UNCHANGED <<sent, memory, segs>>
  BY <1>8 DEF Ordered, InMemory, memory
<1>9. \/ Send \/ Recv \/ FlushTick \/ Rename \/ WriteFail \/ Delete \/ Crash
      \/ UNCHANGED <<sent, memory, segs>>
  BY DEF Next, Writer, WriteSegment, Create, Fill, List, ListFail, DeleteFail,
         Done, Query, QueryBegin, QueryPlan, QueryRead, QueryFail, Tick,
         StepBack, Start, vars
<1> QED
  BY <1>1, <1>2, <1>3, <1>4, <1>5, <1>6, <1>7, <1>8, <1>9


-----------------------------------------------------------------------------
\* The names of the segments.

\* A later clock, or the next number, comes after.
LEMMA BeforeLater ==
  ASSUME NEW n \in Names, NEW a \in Nat, NEW b \in Nat, NEW c \in Nat, NEW e \in Nat,
         Before(n, <<a, b>>), a < c \/ (a = c /\ b <= e)
  PROVE  Before(n, <<c, e>>)
  BY DEF Before, Names

\* No segment has a name.
LEMMA InitNamed == Init => Named
<1> SUFFICES ASSUME Init PROVE Named
  OBVIOUS
<1>1. DOMAIN segs = {} /\ wpc = "idle"
  BY DEF Init
<1> QED
  BY <1>1 DEF Named

\* A step that leaves the segments, and the clock and the counter do not go
\* back.
LEMMA LaterNamed ==
  ASSUME Control, Control', Directory, Named, steps = 0, segs' = segs,
         proc # "down", proc' # "down",
         now < now' \/ (now = now' /\ SEQ <= SEQ'),
         name' = name, wpc' \in {"fill", "rename"} => wpc \in {"fill", "rename"}
  PROVE  Named'
<1>1. /\ now \in Nat /\ SEQ \in Nat /\ now' \in Nat /\ SEQ' \in Nat /\ name \in Names
  BY QueryLogAssumption DEF Control
<1> DEFINE next == <<now', SEQ'>>
<1>2. ASSUME NEW n \in Names, Before(n, SegName) PROVE Before(n, next)
  BY <1>1, <1>2, BeforeLater DEF SegName
<1>3. \A n \in DOMAIN segs : Before(n, next)
  BY <1>2 DEF Named, Directory, IsDirectory
<1>4. ASSUME wpc' \in {"fill", "rename"}
      PROVE  Before(name, next) /\ \A n \in DOMAIN segs : Before(n, name)
  <2>1. Before(name, SegName) /\ \A n \in DOMAIN segs : Before(n, name)
    BY <1>4 DEF Named
  <2> QED
    BY <1>1, <1>2, <2>1
<1>5. \A m, n \in DOMAIN segs : Before(m, n) =>
         AllBelow(Items(segs[m]), Items(segs[n]))
  BY DEF Named
<1> QED
  BY <1>3, <1>4, <1>5 DEF Named, SegName

\* The writer takes the next name.
LEMMA CreateNamed ==
  ASSUME Control, Directory, Named, steps = 0, Create
  PROVE  Named'
<1>1. /\ now \in Nat /\ SEQ \in Nat /\ proc = "up"
      /\ name' = <<now, SEQ>> /\ SEQ' = SEQ + 1
      /\ UNCHANGED <<now, proc, segs>>
  BY QueryLogAssumption DEF Control, Create, clock, SegName
<1> DEFINE next == <<now, SEQ + 1>>
<1>2. \A n \in DOMAIN segs : n \in Names /\ Before(n, <<now, SEQ>>)
  BY <1>1 DEF Named, SegName, Directory, IsDirectory
<1>3. \A n \in DOMAIN segs : Before(n, next)
  BY <1>1, <1>2, BeforeLater
<1>4. Before(<<now, SEQ>>, next)
  BY <1>1 DEF Before
<1>5. \A m, n \in DOMAIN segs : Before(m, n) =>
         AllBelow(Items(segs[m]), Items(segs[n]))
  BY DEF Named
<1> QED
  BY <1>1, <1>2, <1>3, <1>4, <1>5 DEF Named, SegName

\* The newest records are in the segment with the last name.
LEMMA RenameNamed ==
  ASSUME Control, Memory, Directory, Ordered, Named, steps = 0, Rename
  PROVE  Named'
<1>1. /\ proc = "up" /\ wpc = "rename" /\ wpc' = "list" /\ name \in Names
      /\ segs' = With(segs, name, recs) /\ UNCHANGED <<now, SEQ, proc>>
  BY DEF Control, Rename, clock
<1>2. /\ DOMAIN segs' = DOMAIN segs \cup {name}
      /\ segs'[name] = recs
      /\ \A n \in DOMAIN segs \ {name} : segs'[n] = segs[n]
  BY <1>1 DEF With
<1>3. /\ Before(name, SegName)
      /\ \A n \in DOMAIN segs : Before(n, name) /\ Before(n, SegName) /\ n \in Names
  BY <1>1 DEF Named, Directory, IsDirectory
<1>4. \A m, n \in Names : Before(m, n) => ~Before(n, m) /\ m # n
  BY DEF Before, Names
<1>5. ASSUME NEW m \in DOMAIN segs', NEW n \in DOMAIN segs', Before(m, n)
      PROVE  AllBelow(Items(segs'[m]), Items(segs'[n]))
  <2>1. m # name
    BY <1>1, <1>2, <1>3, <1>4, <1>5
  <2>2. m \in DOMAIN segs /\ segs'[m] = segs[m]
    BY <1>2, <2>1
  <2>3. CASE n = name
    BY <1>2, <2>2, <2>3 DEF Ordered, AllBelow, InMemory
  <2>4. CASE n # name
    BY <1>2, <1>5, <2>2, <2>4 DEF Named
  <2> QED
    BY <2>3, <2>4
<1>6. \A n \in DOMAIN segs' : Before(n, SegName)
  BY <1>2, <1>3
<1>7. SegName' = SegName
  BY <1>1 DEF SegName
<1> QED
  BY <1>1, <1>5, <1>6, <1>7 DEF Named

\* One step per action; StepBack is what the property is not about.
LEMMA NextNamed ==
  /\ Control /\ Control' /\ Memory /\ Directory /\ Ordered /\ Named
  /\ [Next]_vars
  => Named'
<1> SUFFICES ASSUME Control, Control', Memory, Directory, Ordered, Named,
                    [Next]_vars, steps' = 0
             PROVE  Named'
  BY DEF Named
<1>0. steps = 0 /\ ~StepBack
  <2>1. steps \in Nat
    BY QueryLogAssumption DEF Control
  <2>2. ~StepBack
    BY <2>1 DEF StepBack
  <2>3. steps' = steps
    BY <2>2 DEF Next, Writer, WriteSegment, Send, Recv, FlushTick, Create, Fill,
                Rename, WriteFail, List, ListFail, Delete, DeleteFail, Done, Query,
                QueryBegin, QueryPlan, QueryRead, QueryFail, Tick, Crash, Start,
                clock, vars
  <2> QED
    BY <2>2, <2>3
<1>t. now \in Nat /\ SEQ \in Nat
  BY QueryLogAssumption DEF Control
<1>1. CASE Create
  BY <1>0, <1>1, CreateNamed
<1>2. CASE Rename
  BY <1>0, <1>2, RenameNamed
<1>3. CASE WriteFail \/ Tick
  <2>1. /\ segs' = segs /\ proc' = proc /\ name' = name /\ proc # "down"
        /\ wpc' \in {"fill", "rename"} => wpc \in {"fill", "rename"}
        /\ now < now' \/ (now = now' /\ SEQ <= SEQ')
    BY <1>3, <1>t DEF WriteFail, Tick, Control, clock
  <2> QED
    BY <1>0, <2>1, LaterNamed
<1>4. CASE Delete
  <2>1. /\ segs' = Without(segs, Oldest(todo))
        /\ UNCHANGED <<now, proc, wpc, name, SEQ>>
    BY <1>4 DEF Delete, clock
  <2>2. /\ DOMAIN segs' \subseteq DOMAIN segs
        /\ \A n \in DOMAIN segs' : segs'[n] = segs[n]
    BY <2>1 DEF Without
  <2>3. SegName' = SegName
    BY <2>1 DEF SegName
  <2> QED
    BY <1>0, <2>1, <2>2, <2>3 DEF Named
<1>5. CASE Crash
  <2>1. proc # "down" /\ proc' = "down" /\ wpc' = "idle" /\ UNCHANGED <<now, segs>>
    BY <1>5 DEF Crash, clock
  <2>2. \A n \in DOMAIN segs : n[1] <= now
    BY <1>0, <1>t, <2>1 DEF Named, Before, SegName, Directory, IsDirectory, Names
  <2> QED
    BY <1>0, <2>1, <2>2 DEF Named
<1>6. CASE Start
  <2>1. /\ proc = "down" /\ proc' # "down" /\ wpc = "idle" /\ wpc' = "idle"
        /\ now' = now + 1 /\ SEQ' = 0 /\ segs' = segs
    BY <1>6 DEF Start, Control
  <2>2. \A n \in DOMAIN segs : Before(n, <<now + 1, 0>>)
    BY <1>0, <1>t, <2>1 DEF Named, Before, Directory, IsDirectory, Names
  <2> QED
    BY <1>0, <2>1, <2>2 DEF Named, SegName
<1>7. CASE /\ UNCHANGED <<now, proc, name, SEQ, segs>>
           /\ wpc' \in {"fill", "rename"} => wpc \in {"fill", "rename"}
  <2>1. SegName' = SegName
    BY <1>7 DEF SegName
  <2> QED
    BY <1>0, <1>7, <2>1 DEF Named
<1>8. \/ Create \/ Rename \/ WriteFail \/ Tick \/ Delete \/ Crash \/ Start
      \/ /\ UNCHANGED <<now, proc, name, SEQ, segs>>
         /\ wpc' \in {"fill", "rename"} => wpc \in {"fill", "rename"}
  BY <1>0 DEF Next, Writer, WriteSegment, Send, Recv, FlushTick, Fill, List,
              ListFail, DeleteFail, Done, Query, QueryBegin, QueryPlan, QueryRead,
              QueryFail, clock, vars
<1> QED
  BY <1>1, <1>2, <1>3, <1>4, <1>5, <1>6, <1>7, <1>8

-----------------------------------------------------------------------------
\* The theorems.

IInv ==
    /\ Control /\ Memory /\ Directory /\ Reading
    /\ Retention /\ Account /\ Ordered /\ Named

\* The inductive invariant holds in every state.
LEMMA AlwaysInv == Spec => []IInv
<1>1. Init => IInv
  <2>1. Init => Account
    BY DEF Init, Account
  <2> QED
    BY <2>1, InitControl, InitDirectory, InitRetention, InitOrdered, InitNamed DEF IInv
<1>2. IInv /\ [Next]_vars => IInv'
  <2> SUFFICES ASSUME IInv, [Next]_vars PROVE IInv'
    OBVIOUS
  <2>1. todo \subseteq DOMAIN segs
    BY DEF IInv, Retention
  <2>2. Control' /\ Memory'
    BY NextControl, NextMemory DEF IInv
  <2>3. Directory' /\ Reading'
    BY <2>1, NextDirectory, NextReading DEF IInv
  <2>4. Retention' /\ Ordered'
    BY NextRetention, NextOrdered DEF IInv
  <2>5. Named'
    BY <2>2, NextNamed DEF IInv
  <2>6. Account'
    BY NextAccount DEF IInv
  <2> QED
    BY <2>2, <2>3, <2>4, <2>5, <2>6 DEF IInv
<1> QED
  BY <1>1, <1>2, PTL DEF Spec

\* The values of the variables of qlog.rs: the channel, the buffer and a segment
\* stay within their limits, and the running total never goes below zero.
THEOREM QueryLogTypes == Spec => []TypeOK
<1>1. IInv => TypeOK
  <2> SUFFICES ASSUME IInv PROVE TypeOK
    OBVIOUS
  <2>1. Control /\ Memory
    BY DEF IInv
  <2>2. Directory /\ Reading /\ Retention /\ listed \subseteq Names
    BY DEF IInv, Account
  <2>3. rows \subseteq Records \cup {Torn}
    BY <2>2 DEF Reading
  <2> QED
    BY <2>1, <2>2, <2>3
       DEF TypeOK, Control, Memory, Directory, IsDirectory, Reading, Retention, Points
<1> QED
  BY <1>1, AlwaysInv, PTL

\* No record is logged twice, whatever fails and whenever the process dies:
\* run_writer and write_segment keep the order of arrival, so what is in memory
\* is newer than what is on disk, and the rename of a segment is the one step
\* that takes its records from memory.
THEOREM QueryLogRecordOnce == Spec => []RecordOnce
<1>1. IInv => RecordOnce
  <2> SUFFICES ASSUME IInv PROVE RecordOnce
    OBVIOUS
  <2>1. Memory /\ Directory /\ Ordered
    BY DEF IInv
  <2>2. ASSUME NEW a \in InMemory, NEW b \in OnDisk PROVE a # b
    <3>1. PICK n \in DOMAIN segs : b \in Items(segs[n])
      BY DEF OnDisk
    <3>2. b < a /\ b \in Nat
      BY <2>1, <3>1, ItemsType, QueryLogAssumption
         DEF Ordered, AllBelow, Directory, IsDirectory, Records
    <3> QED
      BY <3>2
  <2>3. /\ IsFiniteSet(Items(chan)) /\ Cardinality(Items(chan)) = Len(chan)
        /\ IsFiniteSet(Items(buf)) /\ Cardinality(Items(buf)) = Len(buf)
        /\ IsFiniteSet(Items(recs)) /\ Cardinality(Items(recs)) = Len(recs)
    BY <2>1, IncreasingCount DEF Memory, Ordered
  <2>4. Items(buf) \cap Items(recs) = {}
    <3>1. buf = <<>> \/ recs = <<>>
      BY <2>1 DEF Memory
    <3> QED
      BY <3>1, EmptyIncreasing
  <2> DEFINE held == Items(buf) \cup Items(recs)
  <2>5. Items(chan) \cap held = {}
    <3>1. \A a \in held, b \in Items(chan) : a < b /\ a \in Nat
      BY <2>1, RecordsInMemory DEF Ordered, AllBelow
    <3>2. \A a \in held : a \notin Items(chan)
      BY <3>1
    <3> QED
      BY <3>2
  <2>6. IsFiniteSet(held) /\ Cardinality(held) = Len(buf) + Len(recs)
    <3>1. /\ IsFiniteSet(held)
          /\ Cardinality(held) = Cardinality(Items(buf)) + Cardinality(Items(recs))
                                    - Cardinality(Items(buf) \cap Items(recs))
      BY <2>3, FS_Union
    <3>2. Cardinality(Items(buf) \cap Items(recs)) = 0
      BY <2>4, FS_EmptySet
    <3>3. Len(buf) \in Nat /\ Len(recs) \in Nat
      BY <2>1, LenProperties DEF Memory
    <3> QED
      BY <2>3, <3>1, <3>2, <3>3
  <2>7. Cardinality(Items(chan) \cup held) = Len(chan) + Len(buf) + Len(recs)
    <3>1. Cardinality(Items(chan) \cup held)
             = Len(chan) + (Len(buf) + Len(recs)) - Cardinality(Items(chan) \cap held)
      BY <2>3, <2>6, FS_Union
    <3>2. Cardinality(Items(chan) \cap held) = 0
      BY <2>5, FS_EmptySet
    <3>3. Len(chan) \in Nat /\ Len(buf) \in Nat /\ Len(recs) \in Nat
      BY <2>1, LenProperties DEF Memory
    <3> HIDE DEF held
    <3> QED
      BY <3>1, <3>2, <3>3
  <2>8. InMemory = Items(chan) \cup held
    BY DEF InMemory
  <2>9. InMemory \cap OnDisk = {}
    BY <2>2
  <2> QED
    BY <2>1, <2>7, <2>8, <2>9 DEF RecordOnce, Ordered
<1> QED
  BY <1>1, AlwaysInv, PTL

\* A query never reads a half-written segment: write_segment renames complete
\* files only, and nothing else makes a segment.
THEOREM QueryLogNeverHalfRead == Spec => []NeverHalfRead
<1>1. IInv => NeverHalfRead
  BY QueryLogAssumption DEF IInv, Reading, NeverHalfRead
<1> QED
  BY <1>1, AlwaysInv, PTL

\* A pass of enforce_retention that met no failure leaves the segments within
\* max_bytes, and so they stay until the next one is written.
THEOREM QueryLogSegmentsCapped == Spec => []SegmentsCapped
<1>1. IInv => SegmentsCapped
  BY DEF IInv, Retention, SegmentsCapped
<1> QED
  BY <1>1, AlwaysInv, PTL

\* While the clock does not step back, the lexical order of the names is the
\* order of the records, over restarts too: enforce_retention deletes the oldest.
THEOREM QueryLogNamesInOrder == Spec => []NamesInOrder
<1>1. IInv => NamesInOrder
  BY DEF IInv, Named, NamesInOrder, Chronological, AllBelow
<1> QED
  BY <1>1, AlwaysInv, PTL

\* enforce_retention deletes a segment only while the segments exceed the cap:
\* its running total is never more than what is there, even when files it could
\* not stat or remove are missing from it.
THEOREM QueryLogDeletesNoMore == Spec => DeletesNoMore
<1> DEFINE Kept == DOMAIN segs \subseteq DOMAIN segs' \/ SizeOf(DOMAIN segs) > max_bytes
<1>1. IInv /\ [Next]_vars => [Kept]_vars
  <2> SUFFICES ASSUME IInv, [Next]_vars PROVE Kept \/ UNCHANGED vars
    BY DEF Kept
  <2>1. CASE Delete
    <3> DEFINE size == SizeOf(DOMAIN segs)
    <3>1. wpc = "delete" /\ total > max_bytes
      BY <2>1 DEF Delete
    <3>2. total <= size /\ total \in Nat
      BY <3>1 DEF IInv, Retention
    <3>3. size \in Nat
      BY SizeCounts DEF IInv, Directory, SizeOf, Size
    <3> HIDE DEF size
    <3>4. size > max_bytes
      BY <3>1, <3>2, <3>3, QueryLogAssumption
    <3> QED
      BY <3>4 DEF size
  <2>2. CASE Rename
    BY <2>2 DEF Rename, With
  <2>3. CASE UNCHANGED segs
    BY <2>3
  <2>4. Delete \/ Rename \/ UNCHANGED segs
    BY DEF Next, Writer, WriteSegment, Send, Recv, FlushTick, Create, Fill,
           WriteFail, List, ListFail, DeleteFail, Done, Query, QueryBegin,
           QueryPlan, QueryRead, QueryFail, Tick, StepBack, Crash, Start, vars
  <2> QED
    BY <2>1, <2>2, <2>3, <2>4
<1> QED
  BY <1>1, AlwaysInv, PTL DEF Spec, DeletesNoMore

\* A pass of enforce_retention that stops before it has tried every file it listed
\* leaves those that are still there within the cap, whatever could not be removed:
\* its running total is exactly what they take.
THEOREM QueryLogStopsWithinCap == Spec => StopsWithinCap
<1> DEFINE Fits == Done => todo = {} \/ SizeOf(listed \cap DOMAIN segs) <= max_bytes
<1>1. IInv => Fits
  BY DEF IInv, Account, Done
<1> QED
  BY <1>1, AlwaysInv, PTL DEF Spec, StopsWithinCap

=============================================================================
