-------------------------- MODULE CacheFileProofs ---------------------------
(* That the rows of a cache file can be read whoever shares it: IInv is    *)
(* inductive, action by action; the two tables that hand out numbers only  *)
(* grow, and whoever holds a number keeps a true one.                      *)
EXTENDS CacheFile, TLAPS

-----------------------------------------------------------------------------
(* Tables that hand out numbers.                                           *)

(* seq is as far as it goes what t is.                                     *)
Extends(t, seq) == Len(seq) <= Len(t) /\ \A i \in 1 .. Len(seq) : t[i] = seq[i]

(* INSERT OR IGNORE keeps every number and gives x one.                    *)
LEMMA InsertExtends ==
  ASSUME NEW S, NEW seq \in Seq(S), NEW x \in S
  PROVE  /\ Insert(seq, x) \in Seq(S)
         /\ Extends(Insert(seq, x), seq)
         /\ InSeq(Insert(seq, x), x)
  <1>1. CASE InSeq(seq, x)
    BY <1>1 DEF Insert, Extends
  <1>2. CASE ~InSeq(seq, x)
    <2>1. Insert(seq, x) = Append(seq, x)
      BY <1>2 DEF Insert
    <2>2. /\ Append(seq, x) \in Seq(S) /\ Len(Append(seq, x)) = Len(seq) + 1
          /\ \A i \in 1 .. Len(seq) : Append(seq, x)[i] = seq[i]
          /\ Append(seq, x)[Len(seq) + 1] = x
      OBVIOUS
    <2>3. Len(seq) \in Nat
      OBVIOUS
    <2> QED  BY <2>1, <2>2, <2>3 DEF Extends, InSeq
  <1> QED  BY <1>1, <1>2

(* No name gets a second number.                                           *)
LEMMA InsertUnique ==
  ASSUME NEW S, NEW seq \in Seq(S), NEW x \in S, Unique(seq)
  PROVE  Unique(Insert(seq, x))
  <1>1. CASE InSeq(seq, x)
    BY <1>1 DEF Insert
  <1>2. CASE ~InSeq(seq, x)
    <2>1. Insert(seq, x) = Append(seq, x)
      BY <1>2 DEF Insert
    <2>2. /\ Len(seq) \in Nat /\ Len(Append(seq, x)) = Len(seq) + 1
          /\ \A i \in 1 .. Len(seq) : Append(seq, x)[i] = seq[i]
          /\ Append(seq, x)[Len(seq) + 1] = x
      OBVIOUS
    <2>3. \A i \in 1 .. Len(seq) : seq[i] # x
      BY <1>2 DEF InSeq
    <2> SUFFICES ASSUME NEW i \in 1 .. Len(seq) + 1, NEW j \in 1 .. Len(seq) + 1,
                        Append(seq, x)[i] = Append(seq, x)[j]
                 PROVE  i = j
      BY <2>1, <2>2 DEF Unique
    <2>4. CASE i \in 1 .. Len(seq) /\ j \in 1 .. Len(seq)
      BY <2>2, <2>4 DEF Unique
    <2>5. CASE i = Len(seq) + 1 \/ j = Len(seq) + 1
      BY <2>2, <2>3, <2>5
    <2> QED  BY <2>2, <2>4, <2>5
  <1> QED  BY <1>1, <1>2

(* The SELECT finds the number.                                            *)
LEMMA IdOfIsId ==
  ASSUME NEW seq, NEW x, InSeq(seq, x)
  PROVE  IdOf(seq, x) \in 1 .. Len(seq) /\ seq[IdOf(seq, x)] = x
  BY DEF InSeq, IdOf

(* A number stays true while the table grows.                              *)
LEMMA StandsStays ==
  ASSUME NEW S, NEW seq \in Seq(S), NEW t \in Seq(S), Extends(t, seq),
         NEW i \in Nat, NEW x, Stands(i, seq, x)
  PROVE  Stands(i, t, x)
  BY DEF Extends, Stands

LEMMA InSeqStays ==
  ASSUME NEW S, NEW seq \in Seq(S), NEW t \in Seq(S), Extends(t, seq),
         NEW x, InSeq(seq, x)
  PROVE  InSeq(t, x)
  BY DEF Extends, InSeq

-----------------------------------------------------------------------------
(* The rows, one by one.                                                   *)

RowTrue(r) ==
  /\ r.instance \in 1 .. Len(instances) /\ r.status \in 1 .. Len(statuses)
  /\ told[<<r.hash, instances[r.instance]>>] = statuses[r.status]

Kept(k) == \E r \in results : <<r.hash, instances[r.instance]>> = k

OneRow == \A r, s \in results : r.hash = s.hash /\ r.instance = s.instance => r = s

(* RowsDecode in these terms.                                              *)
LEMMA RowByRow ==
  ASSUME TypeOK
  PROVE  RowsDecode <=> /\ \A r \in results : RowTrue(r)
                        /\ \A k \in Hashes \X Paths : told[k] # "none" => Kept(k)
                        /\ OneRow
  <1>1. \A r \in results : r.status \in Nat \ {0} /\ r.instance \in Nat \ {0}
    BY DEF TypeOK
  <1>2. Len(instances) \in Nat /\ Len(statuses) \in Nat
    BY DEF TypeOK
  <1>3. DOMAIN told = Hashes \X Paths
    BY DEF TypeOK
  <1>4. results = Joined <=> \A r \in results : /\ r.instance \in 1 .. Len(instances)
                                               /\ r.status \in 1 .. Len(statuses)
    BY <1>1, <1>2 DEF Joined
  <1>5. \A r \in results : StatusName(r.status) = statuses[r.status]
    BY <1>1 DEF StatusName
  <1> QED  BY <1>3, <1>4, <1>5 DEF RowsDecode, RowTrue, Kept, OneRow

(* RowsDecode in these terms, after a step.                                *)
LEMMA RowByRowNext ==
  ASSUME TypeOK'
  PROVE  RowsDecode' <=> /\ \A r \in results' : RowTrue(r)'
                         /\ \A k \in Hashes \X Paths : told'[k] # "none" => Kept(k)'
                         /\ OneRow'
  <1>1. \A r \in results' : r.status \in Nat \ {0} /\ r.instance \in Nat \ {0}
    BY DEF TypeOK
  <1>2. Len(instances') \in Nat /\ Len(statuses') \in Nat
    BY DEF TypeOK
  <1>3. DOMAIN told' = Hashes \X Paths
    BY DEF TypeOK
  <1>4. results' = Joined' <=> \A r \in results' : /\ r.instance \in 1 .. Len(instances')
                                                /\ r.status \in 1 .. Len(statuses')
    BY <1>1, <1>2 DEF Joined
  <1>5. \A r \in results' : StatusName(r.status)' = statuses'[r.status]
    BY <1>1 DEF StatusName
  <1> QED  BY <1>3, <1>4, <1>5 DEF RowsDecode, RowTrue, Kept, OneRow

(* Rows nobody touches stay true while the tables grow.                    *)
LEMMA RowsStayTrue ==
  ASSUME TypeOK, TypeOK', RowsDecode, UNCHANGED <<results, told>>,
         Extends(instances', instances), Extends(statuses', statuses)
  PROVE  RowsDecode'
  <1>1. ASSUME NEW r \in results
        PROVE  RowTrue(r)' /\ instances'[r.instance] = instances[r.instance]
    <2>1. RowTrue(r)
      BY <1>1, RowByRow
    <2>2. Len(instances) \in Nat /\ Len(instances') \in Nat
          /\ Len(statuses) \in Nat /\ Len(statuses') \in Nat
      BY DEF TypeOK
    <2> QED  BY <2>1, <2>2 DEF RowTrue, Extends
  <1>2. \A k \in Hashes \X Paths : told'[k] # "none" => Kept(k)'
    BY <1>1, RowByRow DEF Kept
  <1>3. \A r \in results' : RowTrue(r)'
    BY <1>1
  <1>4. RowsDecode' <=> /\ \A r \in results' : RowTrue(r)'
                        /\ \A k \in Hashes \X Paths : told'[k] # "none" => Kept(k)'
                        /\ OneRow'
    BY RowByRowNext
  <1>5. OneRow'
    BY RowByRow DEF OneRow
  <1> QED  BY <1>2, <1>3, <1>4, <1>5

-----------------------------------------------------------------------------
(* The tuners' memory.                                                     *)

Grows ==
  /\ Extends(instances', instances) /\ Extends(statuses', statuses)
  /\ strategies \subseteq strategies'

LEMMA SameGrows ==
  ASSUME TypeOK, UNCHANGED <<instances, statuses, strategies>>
  PROVE  Grows
  BY DEF TypeOK, Grows, Extends

SameMemory(p) ==
  /\ ids'[p] = ids[p] /\ interned'[p] = interned[p]
  /\ submitted'[p] = submitted[p] /\ todo'[p] = todo[p]

(* What a tuner remembers stays true while the tables grow.                *)
LEMMA MemoryStaysTrue ==
  ASSUME TypeOK, TypeOK', Grows, NEW p \in Tuners, MemoryTrue(p),
         ids'[p] = ids[p], interned'[p] = interned[p], submitted'[p] = submitted[p]
  PROVE  MemoryTrue(p)'
  <1>1. instances \in Seq(Paths) /\ instances' \in Seq(Paths)
        /\ statuses \in Seq(Statuses) /\ statuses' \in Seq(Statuses)
    BY DEF TypeOK
  <1>2. ASSUME NEW q \in Paths PROVE Stands(ids'[p][q], instances', q)
    <2>1. Stands(ids[p][q], instances, q) /\ ids[p][q] \in Nat
      BY DEF MemoryTrue, TypeOK
    <2> QED  BY <1>1, <2>1, StandsStays DEF Grows
  <1>3. ASSUME NEW s \in Statuses PROVE Stands(interned'[p][s], statuses', s)
    <2>1. Stands(interned[p][s], statuses, s) /\ interned[p][s] \in Nat
      BY DEF MemoryTrue, TypeOK
    <2> QED  BY <1>1, <2>1, StandsStays DEF Grows
  <1> QED  BY <1>2, <1>3 DEF MemoryTrue, Grows

(* A tuner that does not move, or leaves its put, loses nothing.           *)
LEMMA TunerKeeps ==
  ASSUME TypeOK, TypeOK', Grows, NEW p \in Tuners, MemoryTrue(p), PutReady(p),
         SameMemory(p), at'[p] = at[p] \/ at'[p] \notin Putting
  PROVE  MemoryTrue(p)' /\ PutReady(p)'
  <1>1. MemoryTrue(p)'
    BY MemoryStaysTrue DEF SameMemory
  <1>2. CASE at'[p] \notin Putting
    BY <1>1, <1>2 DEF PutReady
  <1>3. CASE at'[p] = at[p] /\ at'[p] \in Putting
    <2>1. statuses \in Seq(Statuses) /\ statuses' \in Seq(Statuses)
      BY DEF TypeOK
    <2>2. at[p] = "interned" => InSeq(statuses', todo[p].status)
      BY <1>3, <2>1, InSeqStays DEF PutReady, Grows
    <2> QED  BY <1>1, <1>3, <2>2 DEF PutReady, SameMemory, Grows
  <1> QED  BY <1>2, <1>3

(* The rest of IInv when the rows are not touched.                         *)
LEMMA RowsUntouched ==
  ASSUME IInv, TypeOK', Grows, UNCHANGED <<results, told, old>>
  PROVE  RowsDecode' /\ RowsDescribed'
  <1>1. RowsDecode'
    BY RowsStayTrue DEF IInv, Grows
  <1>2. RowsDescribed'
    BY DEF IInv, Grows, RowsDescribed
  <1> QED  BY <1>1, <1>2

(* A step of p that leaves the numbered tables alone and its memory too.   *)
LEMMA Walk ==
  ASSUME IInv, TypeOK', NEW p \in Tuners,
         UNCHANGED <<instances, statuses, results, told, old, strategies, ids, interned,
                     submitted, todo>>,
         \A q \in Tuners : at'[q] = at[q] \/ at'[q] \notin Putting
  PROVE  IInv'
  <1>1. Grows
    BY SameGrows DEF IInv
  <1>2. ASSUME NEW q \in Tuners PROVE MemoryTrue(q)' /\ PutReady(q)'
    <2>1. SameMemory(q)
      BY DEF SameMemory
    <2> QED  BY <1>1, <2>1, TunerKeeps DEF IInv
  <1>3. RowsDecode' /\ RowsDescribed'
    BY <1>1, RowsUntouched
  <1>4. Unique(instances') /\ Unique(statuses')
    BY DEF IInv
  <1> QED  BY <1>2, <1>3, <1>4 DEF IInv

-----------------------------------------------------------------------------
(* IInv holds at first and is kept, action by action.                      *)

LEMMA InitMemory ==
  ASSUME Init, NEW p \in Tuners
  PROVE  MemoryTrue(p) /\ PutReady(p)
  <1>1. at[p] = "off" /\ ids[p] = NoIds /\ interned[p] = NoStatuses /\ submitted[p] = {}
    BY DEF Init
  <1>2. PutReady(p)
    BY <1>1 DEF PutReady, Putting
  <1>3. MemoryTrue(p)
    BY <1>1 DEF MemoryTrue, NoIds, NoStatuses, Stands
  <1> QED  BY <1>2, <1>3

LEMMA InitIInv == Init => IInv
  <1> SUFFICES ASSUME Init PROVE IInv
    OBVIOUS
  <1>2. ASSUME NEW t \in {{}, {"instances", "results"}}, EmptyFile(t)
        PROVE  IInv
    <2>1. TypeOK
      BY <1>2 DEF Init, EmptyFile, TypeOK, NoIds, NoStatuses
    <2>2. RowsDecode
      BY <1>2, <2>1, RowByRow DEF EmptyFile, OneRow
    <2>3. Unique(instances) /\ Unique(statuses)
      BY <1>2 DEF EmptyFile, Unique
    <2>4. RowsDescribed
      BY <1>2 DEF EmptyFile, RowsDescribed
    <2>5. \A p \in Tuners : MemoryTrue(p) /\ PutReady(p)
      BY InitMemory
    <2> QED  BY <2>1, <2>2, <2>3, <2>4, <2>5 DEF IInv
  <1>3. ASSUME NEW h \in Hashes, NEW q \in Paths, NEW s \in Statuses,
               NEW t \in {{}, {"strategies"}}, OldFile(h, q, s, t)
        PROVE  IInv
    <2>1. instances = <<q>> /\ statuses = <<s>>
      BY <1>3 DEF OldFile
    <2>2. TypeOK
      <3>1. told \in [Hashes \X Paths -> Statuses \cup {"none"}]
        BY <1>3 DEF OldFile
      <3> QED  BY <1>3, <3>1 DEF Init, OldFile, TypeOK, NoIds, NoStatuses
    <2>3. RowsDecode
      <3>1. told[<<h, q>>] = s /\ \A k \in Hashes \X Paths : told[k] # "none" => k = <<h, q>>
        BY <1>3 DEF OldFile
      <3> QED  BY <1>3, <2>1, <2>2, <3>1, RowByRow DEF OldFile, RowTrue, Kept, OneRow
    <2>4. Unique(instances) /\ Unique(statuses)
      BY <2>1 DEF Unique
    <2>5. RowsDescribed
      BY <1>3 DEF OldFile, RowsDescribed
    <2>6. \A p \in Tuners : MemoryTrue(p) /\ PutReady(p)
      BY InitMemory
    <2> QED  BY <2>2, <2>3, <2>4, <2>5, <2>6 DEF IInv
  <1> QED  BY <1>2, <1>3 DEF Init

(* Opening the file: the tables that hand out numbers are not touched.     *)
LEMMA OpenKeeps ==
  ASSUME IInv, NEW p \in Tuners, Open(p) \/ Create(p) \/ ReadColumns(p) \/ Alter(p)
  PROVE  IInv'
  <1> DEFINE Before == {"off", "create", "columns", "alter", "load"}
  <1>1. PICK l \in Before, i \in Nat \ {0} : Goto(p, l, i)
    <2>1. step[p] + 1 \in Nat \ {0}
      BY DEF IInv, TypeOK
    <2> QED  BY <2>1 DEF Open, Create, ReadColumns, Alter
  <1>2. /\ UNCHANGED <<instances, statuses, results, told, old, strategies>>
        /\ UNCHANGED <<ids, interned, submitted, todo>>
    BY DEF Open, Create, ReadColumns, Alter, fileVars, history
  <1>3. TypeOK'
    BY <1>1, <1>2 DEF IInv, TypeOK, Goto
  <1>4. \A q \in Tuners : at'[q] = at[q] \/ at'[q] \notin Putting
    BY <1>1 DEF IInv, TypeOK, Goto, Putting
  <1> QED  BY <1>2, <1>3, <1>4, Walk

LEMMA LoadInsertKeeps ==
  ASSUME IInv, NEW p \in Tuners, LoadInsert(p)
  PROVE  IInv'
  <1> DEFINE x == Lists[p][step[p]]
  <1>1. x \in Paths /\ instances \in Seq(Paths)
    BY ListsAssumption DEF LoadInsert, IInv, TypeOK
  <1>2. instances' = Insert(instances, x)
    BY DEF LoadInsert
  <1>3. instances' \in Seq(Paths) /\ Extends(instances', instances) /\ Unique(instances')
    BY <1>1, <1>2, InsertExtends, InsertUnique DEF IInv
  <1>4. TypeOK'
    BY <1>3 DEF LoadInsert, Goto, IInv, TypeOK, history
  <1>5. Grows
    <2>1. statuses' = statuses /\ strategies' = strategies /\ Extends(statuses, statuses)
      BY DEF LoadInsert, Extends, IInv, TypeOK
    <2> QED  BY <1>3, <2>1 DEF Grows
  <1>6. ASSUME NEW q \in Tuners PROVE MemoryTrue(q)' /\ PutReady(q)'
    <2>1. SameMemory(q)
      BY DEF LoadInsert, SameMemory
    <2>2. at'[q] = at[q] \/ at'[q] \notin Putting
      BY DEF LoadInsert, Goto, IInv, TypeOK, Putting
    <2> QED  BY <1>4, <1>5, <2>1, <2>2, TunerKeeps DEF IInv
  <1>7. RowsDecode' /\ RowsDescribed'
    BY <1>4, <1>5, RowsUntouched DEF LoadInsert, history
  <1>8. Unique(statuses')
    BY DEF LoadInsert, IInv
  <1> QED  BY <1>3, <1>4, <1>6, <1>7, <1>8 DEF IInv

LEMMA LoadSelectKeeps ==
  ASSUME IInv, NEW p \in Tuners, LoadSelect(p)
  PROVE  IInv'
  <1>1. instances \in Seq(Paths) /\ Len(instances) \in Nat
    BY DEF IInv, TypeOK
  <1>2. ASSUME NEW q \in Paths
        PROVE  ids'[p][q] \in Nat /\ Stands(ids'[p][q], instances, q)
    <2>1. ids'[p][q] = IF InSeq(Lists[p], q) /\ InSeq(instances, q)
                       THEN IdOf(instances, q) ELSE 0
      BY DEF LoadSelect, IInv, TypeOK
    <2>2. CASE InSeq(instances, q)
      <3>1. IdOf(instances, q) \in 1 .. Len(instances) /\ instances[IdOf(instances, q)] = q
        BY <2>2, IdOfIsId
      <3> QED  BY <1>1, <2>1, <3>1 DEF Stands
    <2>3. CASE ~InSeq(instances, q)
      BY <2>1, <2>3 DEF Stands
    <2> QED  BY <2>2, <2>3
  <1>3. ids' \in [Tuners -> [Paths -> Nat]]
    <2>1. DOMAIN ids'[p] = Paths /\ ids'[p] = [q \in Paths |-> ids'[p][q]]
      BY DEF LoadSelect, IInv, TypeOK
    <2>2. ids'[p] \in [Paths -> Nat]
      BY <1>2, <2>1
    <2> QED  BY <2>2 DEF LoadSelect, IInv, TypeOK
  <1>4. TypeOK'
    BY <1>3 DEF LoadSelect, Goto, IInv, TypeOK, fileVars, history
  <1>5. Grows
    BY SameGrows DEF LoadSelect, fileVars, IInv
  <1>6. ASSUME NEW q \in Tuners PROVE MemoryTrue(q)' /\ PutReady(q)'
    <2>1. CASE q # p
      <3>1. SameMemory(q) /\ at'[q] = at[q]
        BY <2>1 DEF LoadSelect, SameMemory, Goto, IInv, TypeOK
      <3> QED  BY <1>4, <1>5, <3>1, TunerKeeps DEF IInv
    <2>2. CASE q = p
      <3>1. at'[p] \notin Putting
        BY DEF LoadSelect, Goto, IInv, TypeOK, Putting
      <3>2. MemoryTrue(p)
        BY DEF IInv
      <3> QED  BY <1>2, <2>2, <3>1, <3>2 DEF LoadSelect, fileVars, MemoryTrue, PutReady
    <2> QED  BY <2>1, <2>2
  <1>7. RowsDecode' /\ RowsDescribed'
    BY <1>4, <1>5, RowsUntouched DEF LoadSelect, fileVars, history
  <1>8. Unique(instances') /\ Unique(statuses')
    BY DEF LoadSelect, fileVars, IInv
  <1> QED  BY <1>4, <1>6, <1>7, <1>8 DEF IInv

LEMMA PutStrategyKeeps ==
  ASSUME IInv, NEW p \in Tuners, NEW h \in Hashes, PutStrategy(p, h)
  PROVE  IInv'
  <1>1. TypeOK'
    BY DEF PutStrategy, IInv, TypeOK, history
  <1>2. Grows
    BY DEF PutStrategy, Grows, Extends, IInv, TypeOK
  <1>3. ASSUME NEW q \in Tuners PROVE MemoryTrue(q)' /\ PutReady(q)'
    <2>1. CASE q # p
      <3>1. SameMemory(q) /\ at'[q] = at[q]
        BY <2>1 DEF PutStrategy, SameMemory, IInv, TypeOK
      <3> QED  BY <1>1, <1>2, <3>1, TunerKeeps DEF IInv
    <2>2. CASE q = p
      <3>1. at'[p] \notin Putting
        BY DEF PutStrategy, Putting
      <3>2. MemoryTrue(p)
        BY DEF IInv
      <3>3. submitted'[p] \subseteq strategies'
        BY <3>2 DEF PutStrategy, MemoryTrue, IInv, TypeOK
      <3> QED  BY <2>2, <3>1, <3>2, <3>3 DEF PutStrategy, MemoryTrue, PutReady
    <2> QED  BY <2>1, <2>2
  <1>4. RowsDecode' /\ RowsDescribed'
    BY <1>1, <1>2, RowsUntouched DEF PutStrategy, history
  <1>5. Unique(instances') /\ Unique(statuses')
    BY DEF PutStrategy, IInv
  <1> QED  BY <1>1, <1>3, <1>4, <1>5 DEF IInv

(* What is reported is of a submitted strategy and a loaded instance.      *)
LEMMA ReportKeeps ==
  ASSUME IInv, NEW p \in Tuners, NEW h \in Hashes, NEW i \in Paths, NEW s \in Statuses,
         NEW r \in BOOLEAN, Report(p, h, i, s, r)
  PROVE  IInv'
  <1> DEFINE new == [hash |-> h, path |-> i, status |-> s, runhash |-> r]
  <1>1. new \in Results /\ todo' = [todo EXCEPT ![p] = new]
    BY DEF Report, Results
  <1>2. TypeOK'
    BY <1>1 DEF Report, Goto, Putting, IInv, TypeOK, fileVars, history
  <1>3. Grows
    BY SameGrows DEF Report, fileVars, IInv
  <1>4. ASSUME NEW q \in Tuners PROVE MemoryTrue(q)' /\ PutReady(q)'
    <2>1. MemoryTrue(q)'
      BY <1>2, <1>3, MemoryStaysTrue DEF Report, IInv
    <2>2. CASE q # p
      <3>1. SameMemory(q) /\ at'[q] = at[q]
        BY <2>2 DEF Report, SameMemory, Goto, IInv, TypeOK
      <3> QED  BY <1>2, <1>3, <3>1, TunerKeeps DEF IInv
    <2>3. CASE q = p
      <3>1. h \in strategies' /\ ids'[p][i] # 0 /\ interned' = interned
        BY DEF Report, IInv, MemoryTrue, fileVars
      <3>2. todo'[p] = new
        BY <1>1 DEF IInv, TypeOK
      <3>3. at'[p] = IF interned[p][s] # 0 THEN "read" ELSE "intern"
        BY DEF Report, Goto, IInv, TypeOK
      <3>4. PutReady(p)'
        BY <1>1, <3>1, <3>2, <3>3 DEF PutReady
      <3> QED  BY <2>1, <2>3, <3>4
    <2> QED  BY <2>2, <2>3
  <1>5. RowsDecode' /\ RowsDescribed'
    BY <1>2, <1>3, RowsUntouched DEF Report, fileVars, history
  <1>6. Unique(instances') /\ Unique(statuses')
    BY DEF Report, fileVars, IInv
  <1> QED  BY <1>2, <1>4, <1>5, <1>6 DEF IInv

LEMMA InternInsertKeeps ==
  ASSUME IInv, NEW p \in Tuners, InternInsert(p)
  PROVE  IInv'
  <1> DEFINE x == todo[p].status
  <1>1. x \in Statuses /\ statuses \in Seq(Statuses)
    BY DEF InternInsert, IInv, TypeOK, PutReady, Putting, Results
  <1>2. statuses' = Insert(statuses, x)
    BY DEF InternInsert
  <1>3. /\ statuses' \in Seq(Statuses) /\ Extends(statuses', statuses) /\ Unique(statuses')
        /\ InSeq(statuses', x)
    BY <1>1, <1>2, InsertExtends, InsertUnique DEF IInv
  <1>4. TypeOK'
    BY <1>3 DEF InternInsert, Goto, Putting, IInv, TypeOK, history
  <1>5. Grows
    <2>1. instances' = instances /\ strategies' = strategies /\ Extends(instances, instances)
      BY DEF InternInsert, Extends, IInv, TypeOK
    <2> QED  BY <1>3, <2>1 DEF Grows
  <1>6. ASSUME NEW q \in Tuners PROVE MemoryTrue(q)' /\ PutReady(q)'
    <2>1. SameMemory(q)
      BY DEF InternInsert, SameMemory
    <2>2. CASE q # p
      <3>1. at'[q] = at[q]
        BY <2>2 DEF InternInsert, Goto, IInv, TypeOK
      <3> QED  BY <1>4, <1>5, <2>1, <3>1, TunerKeeps DEF IInv
    <2>3. CASE q = p
      <3>1. MemoryTrue(p)'
        BY <1>4, <1>5, MemoryStaysTrue DEF InternInsert, IInv
      <3>2. at'[p] = "interned"
        BY DEF InternInsert, Goto, IInv, TypeOK
      <3>3. PutReady(p)'
        BY <1>3, <3>2 DEF InternInsert, PutReady, Putting, IInv
      <3> QED  BY <2>3, <3>1, <3>3
    <2> QED  BY <2>2, <2>3
  <1>7. RowsDecode' /\ RowsDescribed'
    BY <1>4, <1>5, RowsUntouched DEF InternInsert, history
  <1>8. Unique(instances')
    BY DEF InternInsert, IInv
  <1> QED  BY <1>3, <1>4, <1>6, <1>7, <1>8 DEF IInv

LEMMA InternSelectKeeps ==
  ASSUME IInv, NEW p \in Tuners, InternSelect(p)
  PROVE  IInv'
  <1> DEFINE x == todo[p].status
             n == IdOf(statuses, x)
  <1>1. x \in Statuses /\ InSeq(statuses, x) /\ Len(statuses) \in Nat
    BY DEF InternSelect, IInv, TypeOK, PutReady, Putting, Results
  <1>2. n \in Nat /\ n # 0 /\ Stands(n, statuses, x)
    BY <1>1, IdOfIsId DEF Stands
  <1>3. \A s \in Statuses : interned'[p][s] = IF s = x THEN n ELSE interned[p][s]
    BY <1>1 DEF InternSelect, IInv, TypeOK
  <1>4. TypeOK'
    <2>1. interned' \in [Tuners -> [Statuses -> Nat]]
      BY <1>2 DEF InternSelect, IInv, TypeOK
    <2> QED  BY <2>1 DEF InternSelect, Goto, Putting, IInv, TypeOK, fileVars, history
  <1>5. Grows
    BY SameGrows DEF InternSelect, fileVars, IInv
  <1>6. ASSUME NEW q \in Tuners PROVE MemoryTrue(q)' /\ PutReady(q)'
    <2>1. CASE q # p
      <3>1. SameMemory(q) /\ at'[q] = at[q]
        BY <2>1 DEF InternSelect, SameMemory, Goto, IInv, TypeOK
      <3> QED  BY <1>4, <1>5, <3>1, TunerKeeps DEF IInv
    <2>2. CASE q = p
      <3>1. MemoryTrue(p) /\ PutReady(p)
        BY DEF IInv
      <3>2. UNCHANGED <<instances, statuses, strategies, ids, submitted, todo>>
        BY DEF InternSelect, fileVars
      <3>3. MemoryTrue(p)'
        BY <1>2, <1>3, <3>1, <3>2 DEF MemoryTrue
      <3>4. at[p] = "interned" /\ at'[p] = "read"
        BY DEF InternSelect, Goto, IInv, TypeOK
      <3>5. interned'[p][x] # 0
        BY <1>1, <1>2, <1>3
      <3>6. PutReady(p)'
        BY <3>1, <3>2, <3>4, <3>5 DEF PutReady, Putting
      <3> QED  BY <2>2, <3>3, <3>6
    <2> QED  BY <2>1, <2>2
  <1>7. RowsDecode' /\ RowsDescribed'
    BY <1>4, <1>5, RowsUntouched DEF InternSelect, fileVars, history
  <1>8. Unique(instances') /\ Unique(statuses')
    BY DEF InternSelect, fileVars, IInv
  <1> QED  BY <1>4, <1>6, <1>7, <1>8 DEF IInv

LEMMA PutReadsKeeps ==
  ASSUME IInv, NEW p \in Tuners, PutReads(p)
  PROVE  IInv'
  <1>1. PICK l \in {"write", "idle"} : Goto(p, l, 1)
    BY DEF PutReads
  <1>2. TypeOK'
    BY <1>1 DEF PutReads, Goto, Putting, IInv, TypeOK, fileVars, history
  <1>3. Grows
    BY SameGrows DEF PutReads, fileVars, IInv
  <1>4. ASSUME NEW q \in Tuners PROVE MemoryTrue(q)' /\ PutReady(q)'
    <2>1. SameMemory(q)
      BY DEF PutReads, SameMemory
    <2>2. CASE q # p \/ l = "idle"
      <3>1. at'[q] = at[q] \/ at'[q] \notin Putting
        BY <1>1, <2>2 DEF Goto, IInv, TypeOK, Putting
      <3> QED  BY <1>2, <1>3, <2>1, <3>1, TunerKeeps DEF IInv
    <2>3. CASE q = p /\ l = "write"
      <3>1. MemoryTrue(p)'
        BY <1>2, <1>3, MemoryStaysTrue DEF PutReads, IInv
      <3>2. PutReady(p) /\ at[p] = "read" /\ at'[p] = "write"
        BY <1>1, <2>3 DEF PutReads, Goto, IInv, TypeOK
      <3>3. PutReady(p)'
        BY <3>2 DEF PutReads, PutReady, Putting, fileVars
      <3> QED  BY <2>3, <3>1, <3>3
    <2> QED  BY <1>1, <2>2, <2>3
  <1>5. RowsDecode' /\ RowsDescribed'
    BY <1>2, <1>3, RowsUntouched DEF PutReads, fileVars, history
  <1>6. Unique(instances') /\ Unique(statuses')
    BY DEF PutReads, fileVars, IInv
  <1> QED  BY <1>2, <1>4, <1>5, <1>6 DEF IInv

(* The row written has the numbers of the instance and of the status; the  *)
(* rows it replaces are those of its instance, which is one instance       *)
(* because no path has two numbers.                                        *)
LEMMA PutWritesKeeps ==
  ASSUME IInv, NEW p \in Tuners, PutWrites(p)
  PROVE  IInv'
  <1> DEFINE t == todo[p]
             i == ids[p][t.path]
             s == interned[p][t.status]
             row == [hash |-> t.hash, instance |-> i, status |-> s, runhash |-> t.runhash]
  <1>1. t \in Results /\ t.hash \in strategies /\ i # 0 /\ s # 0
    BY DEF PutWrites, IInv, PutReady, Putting
  <1>2. /\ t.path \in Paths /\ t.status \in Statuses /\ t.hash \in Hashes
        /\ t.runhash \in BOOLEAN /\ i \in Nat /\ s \in Nat
    BY <1>1 DEF Results, IInv, TypeOK
  <1>3. /\ i \in 1 .. Len(instances) /\ instances[i] = t.path
        /\ s \in 1 .. Len(statuses) /\ statuses[s] = t.status
    BY <1>1, <1>2 DEF IInv, MemoryTrue, Stands
  <1>4. /\ results' = (results \ Present(p)) \cup {row}
        /\ told' = [told EXCEPT ![<<t.hash, t.path>>] = t.status]
        /\ UNCHANGED <<instances, statuses, strategies, ids, interned, submitted, todo, old>>
    BY DEF PutWrites
  <1>5. TypeOK'
    <2>1. row \in [hash : Hashes, instance : Nat \ {0}, status : Nat \ {0}, runhash : BOOLEAN]
      BY <1>1, <1>2
    <2>2. told' \in [Hashes \X Paths -> Statuses \cup {"none"}]
      BY <1>2, <1>4 DEF IInv, TypeOK
    <2> QED  BY <1>4, <2>1, <2>2 DEF PutWrites, Goto, Putting, IInv, TypeOK
  <1>6. Grows
    BY <1>4, SameGrows DEF IInv
  <1>7. ASSUME NEW q \in Tuners PROVE MemoryTrue(q)' /\ PutReady(q)'
    <2>1. SameMemory(q)
      BY <1>4 DEF SameMemory
    <2>2. at'[q] = at[q] \/ at'[q] \notin Putting
      BY DEF PutWrites, Goto, IInv, TypeOK, Putting
    <2> QED  BY <1>5, <1>6, <2>1, <2>2, TunerKeeps DEF IInv
  <1>8. RowsDecode'
    <2>1. \A k \in Hashes \X Paths :
            told'[k] = IF k = <<t.hash, t.path>> THEN t.status ELSE told[k]
      BY <1>2, <1>4 DEF IInv, TypeOK
    <2>2. /\ \A r \in results : RowTrue(r)
          /\ \A k \in Hashes \X Paths : told[k] # "none" => Kept(k)
          /\ OneRow
      BY RowByRow DEF IInv
    <2>3. \A r \in results : r.hash \in Hashes /\ instances[r.instance] \in Paths
      <3>1. instances \in Seq(Paths) /\ \A r \in results : r.hash \in Hashes
        BY DEF IInv, TypeOK
      <3>2. \A r \in results : r.instance \in 1 .. Len(instances)
        BY <2>2 DEF RowTrue
      <3> QED  BY <3>1, <3>2
    <2>4. ASSUME NEW r \in results \ Present(p) PROVE RowTrue(r)'
      <3>1. r.hash # t.hash \/ r.instance # i
        BY <2>4 DEF Present
      <3>2. <<r.hash, instances[r.instance]>> # <<t.hash, t.path>>
        BY <1>3, <2>2, <3>1 DEF RowTrue, IInv, Unique
      <3> QED  BY <1>4, <2>1, <2>2, <2>3, <3>2 DEF RowTrue
    <2>5. RowTrue(row)'
      BY <1>2, <1>3, <1>4, <2>1 DEF RowTrue
    <2>6. ASSUME NEW k \in Hashes \X Paths, told'[k] # "none" PROVE Kept(k)'
      <3>1. CASE k = <<t.hash, t.path>>
        <4>1. row \in results' /\ <<row.hash, instances'[row.instance]>> = k
          BY <1>3, <1>4, <3>1
        <4> QED  BY <4>1 DEF Kept
      <3>2. CASE k # <<t.hash, t.path>>
        <4>1. PICK r \in results : <<r.hash, instances[r.instance]>> = k
          BY <2>1, <2>2, <2>6, <3>2 DEF Kept
        <4>2. r \notin Present(p)
          BY <1>3, <3>2, <4>1 DEF Present
        <4> QED  BY <1>4, <4>1, <4>2 DEF Kept
      <3> QED  BY <3>1, <3>2
    <2>7. \A r \in results' : RowTrue(r)'
      BY <1>4, <2>4, <2>5
    <2>8. OneRow'
      <3>1. \A r \in results \ Present(p) : ~(r.hash = row.hash /\ r.instance = row.instance)
        BY DEF Present
      <3> QED  BY <1>4, <2>2, <3>1 DEF OneRow
    <2> QED  BY <1>5, <2>6, <2>7, <2>8, RowByRowNext
  <1>9. RowsDescribed'
    BY <1>1, <1>4 DEF IInv, RowsDescribed
  <1>10. Unique(instances') /\ Unique(statuses')
    BY <1>4 DEF IInv
  <1> QED  BY <1>5, <1>7, <1>8, <1>9, <1>10 DEF IInv

LEMMA ExitKeeps ==
  ASSUME IInv, NEW p \in Tuners, Exit(p)
  PROVE  IInv'
  <1>1. TypeOK'
    BY DEF Exit, Goto, Putting, IInv, TypeOK, fileVars, history, NoIds, NoStatuses
  <1>2. Grows
    BY SameGrows DEF Exit, fileVars, IInv
  <1>3. ASSUME NEW q \in Tuners PROVE MemoryTrue(q)' /\ PutReady(q)'
    <2>1. CASE q # p
      <3>1. SameMemory(q) /\ at'[q] = at[q]
        BY <2>1 DEF Exit, SameMemory, Goto, IInv, TypeOK
      <3> QED  BY <1>1, <1>2, <3>1, TunerKeeps DEF IInv
    <2>2. CASE q = p
      <3>1. /\ at'[p] = "off" /\ ids'[p] = NoIds /\ interned'[p] = NoStatuses
            /\ submitted'[p] = {}
        BY DEF Exit, Goto, IInv, TypeOK
      <3>2. PutReady(p)'
        BY <3>1 DEF PutReady, Putting
      <3>3. MemoryTrue(p)'
        BY <3>1 DEF MemoryTrue, NoIds, NoStatuses, Stands
      <3> QED  BY <2>2, <3>2, <3>3
    <2> QED  BY <2>1, <2>2
  <1>4. RowsDecode' /\ RowsDescribed'
    BY <1>1, <1>2, RowsUntouched DEF Exit, fileVars, history
  <1>5. Unique(instances') /\ Unique(statuses')
    BY DEF Exit, fileVars, IInv
  <1> QED  BY <1>1, <1>3, <1>4, <1>5 DEF IInv

(* Whatever does not write to the file nor move a tuner.                   *)
LEMMA ReadersKeep ==
  ASSUME IInv, UNCHANGED <<fileVars, tunerVars, history>>
  PROVE  IInv'
  <1>1. /\ UNCHANGED <<instances, statuses, results, told, old, strategies>>
        /\ UNCHANGED <<at, step, ids, interned, submitted, todo>>
    BY DEF fileVars, tunerVars, history
  <1>2. TypeOK'
    BY <1>1 DEF IInv, TypeOK
  <1>3. Grows
    BY <1>1, SameGrows DEF IInv
  <1>4. ASSUME NEW q \in Tuners PROVE MemoryTrue(q)' /\ PutReady(q)'
    BY <1>1, <1>2, <1>3, TunerKeeps DEF IInv, SameMemory
  <1>5. RowsDecode' /\ RowsDescribed'
    BY <1>1, <1>2, <1>3, RowsUntouched
  <1> QED  BY <1>1, <1>2, <1>4, <1>5 DEF IInv

LEMMA NextIInv ==
  ASSUME IInv, [Next]_vars
  PROVE  IInv'
  <1>1. ASSUME NEW p \in Tuners, Tuner(p) PROVE IInv'
    BY <1>1, OpenKeeps, LoadInsertKeeps, LoadSelectKeeps, PutStrategyKeeps, ReportKeeps,
       InternInsertKeeps, InternSelectKeeps, PutReadsKeeps, PutWritesKeeps, ExitKeeps
       DEF Tuner
  <1>2. CASE Export
    <2>1. UNCHANGED <<fileVars, tunerVars, history>>
      BY <1>2 DEF Export, ExportSolved, ExportStatus, ExportConfs, ExportRunhashes, Exports
    <2> QED  BY <2>1, ReadersKeep
  <1>3. CASE UNCHANGED vars
    <2>1. UNCHANGED <<fileVars, tunerVars, history>>
      BY <1>3 DEF vars
    <2> QED  BY <2>1, ReadersKeep
  <1> QED  BY <1>1, <1>2, <1>3 DEF Next

(* IInv holds always.                                                      *)
THEOREM Invariance == Spec => []IInv
  BY InitIInv, NextIInv, PTL DEF Spec

(* Whoever shares the file, and whenever they come and go: every row leads *)
(* to the instance and the status it was put for (cache.rs:163-195,        *)
(* 336-406).                                                               *)
THEOREM RowsCanBeRead == Spec => []RowsDecode
  <1>1. IInv => RowsDecode
    BY DEF IInv
  <1> QED  BY <1>1, Invariance, PTL

(* And it has a configuration, unless it is from before there was a table  *)
(* for them (cache.rs:30-42, eval.rs:294-296).                             *)
THEOREM RowsAreDescribed == Spec => []RowsDescribed
  <1>1. IInv => RowsDescribed
    BY DEF IInv
  <1> QED  BY <1>1, Invariance, PTL

-----------------------------------------------------------------------------
(* The export.                                                             *)

(* A row stays, or makes way for one of the same hash and instance; an     *)
(* instance keeps its number.                                              *)
Recorded(l) == \E r \in results : r.hash = l.hash /\ instances[r.instance] = l.path

LEMMA RowsRemain ==
  ASSUME IInv, [Next]_vars
  PROVE  /\ Extends(instances', instances)
         /\ old' = old
         /\ \A l : Recorded(l) => Recorded(l)'
  <1>0. /\ Len(instances) \in Nat /\ Extends(instances, instances)
        /\ \A r \in results : r.instance \in 1 .. Len(instances)
    <2>1. \A r \in results : RowTrue(r)
      BY RowByRow DEF IInv
    <2>2. Len(instances) \in Nat
      BY DEF IInv, TypeOK
    <2>3. Extends(instances, instances)
      BY <2>2 DEF Extends
    <2>4. \A r \in results : r.instance \in 1 .. Len(instances)
      BY <2>1 DEF RowTrue
    <2> QED  BY <2>2, <2>3, <2>4
  <1>1. CASE UNCHANGED <<instances, results, old>>
    BY <1>0, <1>1 DEF Recorded
  <1>2. ASSUME NEW p \in Tuners, LoadInsert(p)
        PROVE  Extends(instances', instances) /\ UNCHANGED <<results, old>>
    <2>1. Lists[p][step[p]] \in Paths /\ instances \in Seq(Paths)
      BY <1>2, ListsAssumption DEF LoadInsert, IInv, TypeOK
    <2>2. instances' = Insert(instances, Lists[p][step[p]]) /\ UNCHANGED <<results, old>>
      BY <1>2 DEF LoadInsert, history
    <2> QED  BY <2>1, <2>2, InsertExtends
  <1>3. ASSUME NEW p \in Tuners, PutWrites(p)
        PROVE  /\ UNCHANGED <<instances, old>>
               /\ \A r \in results : \E x \in results' :
                    x.hash = r.hash /\ x.instance = r.instance
    <2> DEFINE row == [hash |-> todo[p].hash, instance |-> ids[p][todo[p].path],
                       status |-> interned[p][todo[p].status], runhash |-> todo[p].runhash]
    <2>1. results' = (results \ Present(p)) \cup {row} /\ UNCHANGED <<instances, old>>
      BY <1>3 DEF PutWrites
    <2>2. \A r \in Present(p) : row.hash = r.hash /\ row.instance = r.instance
      BY DEF Present
    <2> QED  BY <2>1, <2>2
  <1>4. ASSUME NEW p \in Tuners, Tuner(p), ~LoadInsert(p), ~PutWrites(p)
        PROVE  UNCHANGED <<instances, results, old>>
    BY <1>4 DEF Tuner, Open, Create, ReadColumns, Alter, LoadSelect, PutStrategy, Report,
                InternInsert, InternSelect, PutReads, Exit, fileVars, history
  <1>5. CASE Export \/ UNCHANGED vars
    <2>1. UNCHANGED <<instances, results, old>>
      BY <1>5 DEF Export, ExportSolved, ExportStatus, ExportConfs, ExportRunhashes, Exports,
                  vars, fileVars, history
    <2> QED  BY <1>1, <2>1
  <1>6. ASSUME Extends(instances', instances), UNCHANGED <<results, old>>
        PROVE  \A l : Recorded(l) => Recorded(l)'
    BY <1>0, <1>6 DEF Recorded, Extends
  <1>7. ASSUME UNCHANGED <<instances, old>>,
               \A r \in results : \E x \in results' :
                 x.hash = r.hash /\ x.instance = r.instance
        PROVE  \A l : Recorded(l) => Recorded(l)'
    BY <1>7 DEF Recorded
  <1> QED  BY <1>0, <1>1, <1>2, <1>3, <1>4, <1>5, <1>6, <1>7 DEF Next

(* What is written is of rows that are there, and each file is made of     *)
(* rows at least as many as those before it.                               *)
ExportInv ==
  /\ files = [solved |-> files.solved, status |-> files.status, confs |-> files.confs,
              counts |-> files.counts]
  /\ \A l \in files.solved \cup files.status : Recorded(l)
  /\ ex \in {"status", "confs", "done"} =>
       \A l \in files.solved : \E m \in files.status : <<m.hash, m.path>> = <<l.hash, l.path>>
  /\ ex \in {"confs", "done"} => \A l \in files.status : l.hash \in files.confs \cup old
  /\ ex = "done" =>
       \A c \in files.counts : \A l \in files.status : l.hash = c.hash =>
         \E i \in c.rows : i \in 1 .. Len(instances) /\ instances[i] = l.path

(* The lines of a query are of rows, and every row has its line.           *)
LEMMA LinesAreRows ==
  ASSUME IInv
  PROVE  /\ \A l \in Lines : Recorded(l)
         /\ \A l : Recorded(l) => \E m \in Lines : <<m.hash, m.path>> = <<l.hash, l.path>>
         /\ \A r \in results : r.instance \in 1 .. Len(instances)
  <1> DEFINE line(r) == [hash |-> r.hash, path |-> instances[r.instance],
                         status |-> StatusName(r.status)]
  <1>1. results = Joined
    BY DEF IInv, RowsDecode
  <1>2. Lines = {line(r) : r \in results}
    BY <1>1 DEF Lines
  <1>3. \A r \in results : line(r) \in Lines /\ line(r).hash = r.hash
                          /\ line(r).path = instances[r.instance]
    BY <1>2
  <1>4. \A l \in Lines : Recorded(l)
    BY <1>2 DEF Recorded
  <1>5. \A l : Recorded(l) => \E m \in Lines : <<m.hash, m.path>> = <<l.hash, l.path>>
    BY <1>3 DEF Recorded
  <1>6. \A r \in results : r.instance \in 1 .. Len(instances)
    BY <1>1 DEF Joined
  <1> QED  BY <1>4, <1>5, <1>6

LEMMA ExportInvNext ==
  ASSUME IInv, ExportInv, [Next]_vars
  PROVE  ExportInv'
  <1>1. /\ Extends(instances', instances) /\ old' = old
        /\ \A l : Recorded(l) => Recorded(l)'
    BY RowsRemain
  <1>2. CASE UNCHANGED <<ex, files>>
    <2>1. \A l \in files'.solved \cup files'.status : Recorded(l)'
      BY <1>1, <1>2 DEF ExportInv
    <2>2. ex' = "done" =>
            \A c \in files'.counts : \A l \in files'.status : l.hash = c.hash =>
              \E i \in c.rows : i \in 1 .. Len(instances') /\ instances'[i] = l.path
      <3>1. Len(instances) \in Nat /\ Len(instances') \in Nat
        BY NextIInv DEF IInv, TypeOK
      <3>2. \A i \in 1 .. Len(instances) : i \in 1 .. Len(instances') /\ instances'[i] = instances[i]
        BY <1>1, <3>1 DEF Extends
      <3> QED  BY <1>2, <3>2 DEF ExportInv
    <2> QED  BY <1>1, <1>2, <2>1, <2>2 DEF ExportInv
  <1>3. ASSUME NEW p \in Tuners, Tuner(p) PROVE UNCHANGED <<ex, files>>
    BY <1>3 DEF Tuner, Open, Create, ReadColumns, Alter, LoadInsert, LoadSelect, PutStrategy,
                Report, InternInsert, InternSelect, PutReads, PutWrites, Exit, exportVars
  <1>4. CASE ExportSolved("off", "solved")
    <2>1. /\ files' = [files EXCEPT !.solved = {l \in Lines : l.status \in Solved}]
          /\ ex' \in {"solved", "failed"}
      BY <1>4 DEF ExportSolved, Exports
    <2> QED  BY <1>1, <2>1, LinesAreRows DEF ExportInv
  <1>5. CASE ExportStatus("solved", "status")
    <2>1. \/ files' = files /\ ex' = "failed"
          \/ files' = [files EXCEPT !.status = Lines] /\ ex' \in {"status", "failed"}
      <3>1. CASE runhashes
        BY <1>5, <3>1 DEF ExportStatus, Exports
      <3>2. CASE ~runhashes
        <4>1. ~(Readable /\ runhashes)
          BY <3>2
        <4> QED  BY <1>5, <3>2, <4>1 DEF ExportStatus, Exports
      <3> QED  BY <3>1, <3>2
    <2>2. CASE files' = files /\ ex' = "failed"
      BY <1>1, <2>2 DEF ExportInv
    <2>3. CASE files' = [files EXCEPT !.status = Lines] /\ ex' \in {"status", "failed"}
      <3>1. files'.status = Lines /\ files'.solved = files.solved
        BY <2>3 DEF ExportInv
      <3>2. \A l \in files'.solved : \E m \in Lines : <<m.hash, m.path>> = <<l.hash, l.path>>
        BY <3>1, LinesAreRows DEF ExportInv
      <3>3. \A l \in files'.solved \cup files'.status : Recorded(l)'
        BY <1>1, <3>1, LinesAreRows DEF ExportInv
      <3> QED  BY <2>3, <3>1, <3>2, <3>3 DEF ExportInv
    <2> QED  BY <2>1, <2>2, <2>3
  <1>6. CASE ExportConfs("status", "confs")
    <2>1. files' = [files EXCEPT !.confs = strategies] /\ ex' = "confs" /\ ex = "status"
      BY <1>6 DEF ExportConfs, Exports
    <2>2. \A l \in files.status : l.hash \in strategies \cup old
      BY DEF ExportInv, Recorded, IInv, RowsDescribed
    <2>3. /\ files'.status = files.status /\ files'.solved = files.solved
          /\ files'.confs = strategies
      BY <2>1 DEF ExportInv
    <2>4. \A l \in files'.solved \cup files'.status : Recorded(l)'
      BY <1>1, <2>3 DEF ExportInv
    <2> QED  BY <1>1, <2>1, <2>2, <2>3, <2>4 DEF ExportInv
  <1>7. CASE ExportRunhashes("confs", "done")
    <2> DEFINE of(h) == {r.instance : r \in {x \in results : x.hash = h}}
               new == {[hash |-> h, rows |-> of(h)] :
                         h \in {r.hash : r \in {x \in results : x.runhash}}}
    <2>1. files' = [files EXCEPT !.counts = new] /\ ex' = "done" /\ ex = "confs"
          /\ instances' = instances
      BY <1>7 DEF ExportRunhashes, Exports, fileVars
    <2>2. /\ files'.status = files.status /\ files'.solved = files.solved
          /\ files'.confs = files.confs /\ files'.counts = new
      BY <2>1 DEF ExportInv
    <2>3. ASSUME NEW c \in new, NEW l \in files.status, l.hash = c.hash
          PROVE  \E i \in c.rows : i \in 1 .. Len(instances) /\ instances[i] = l.path
      <3>1. PICK r \in results : r.hash = l.hash /\ instances[r.instance] = l.path
        BY DEF ExportInv, Recorded
      <3>2. c.rows = of(c.hash)
        OBVIOUS
      <3>3. r.instance \in c.rows
        BY <2>3, <3>1, <3>2
      <3> QED  BY <3>1, <3>3, LinesAreRows
    <2>4. \A l \in files'.solved \cup files'.status : Recorded(l)'
      BY <1>1, <2>2 DEF ExportInv
    <2>5. \A c \in files'.counts : \A l \in files'.status : l.hash = c.hash =>
            \E i \in c.rows : i \in 1 .. Len(instances') /\ instances'[i] = l.path
      BY <2>1, <2>2, <2>3
    <2>6. /\ \A l \in files'.solved : \E m \in files'.status :
               <<m.hash, m.path>> = <<l.hash, l.path>>
          /\ \A l \in files'.status : l.hash \in files'.confs \cup old'
      BY <1>1, <2>1, <2>2 DEF ExportInv
    <2>7. files' = [solved |-> files'.solved, status |-> files'.status,
                    confs |-> files'.confs, counts |-> files'.counts]
      BY <2>1, <2>2 DEF ExportInv
    <2> HIDE DEF new
    <2> QED  BY <2>4, <2>5, <2>6, <2>7 DEF ExportInv
  <1>8. CASE UNCHANGED vars
    BY <1>2, <1>8 DEF vars, exportVars
  <1> QED  BY <1>2, <1>3, <1>4, <1>5, <1>6, <1>7, <1>8 DEF Next, Export

(* An export made while tuners write is closed: the files written later    *)
(* answer for every line of those written before (db.rs:330-345).          *)
THEOREM ExportsAreClosed == Spec => []ExportIsClosed
  <1>1. Init => ExportInv
    BY DEF Init, ExportInv
  <1>2. IInv /\ ExportInv => ExportIsClosed
    <2> SUFFICES ASSUME IInv, ExportInv, ex = "done" PROVE ExportIsClosed
      BY DEF ExportIsClosed
    <2>1. ASSUME NEW c \in files.counts, NEW l \in files.status, l.hash = c.hash
          PROVE  IdOf(instances, l.path) \in c.rows
      <3>1. PICK i \in c.rows : i \in 1 .. Len(instances) /\ instances[i] = l.path
        BY <2>1 DEF ExportInv
      <3>2. InSeq(instances, l.path)
        BY <3>1 DEF InSeq
      <3>3. IdOf(instances, l.path) = i
        BY <3>1, <3>2, IdOfIsId DEF IInv, Unique
      <3> QED  BY <3>3
    <2> QED  BY <2>1 DEF ExportIsClosed, ExportInv
  <1> QED  BY <1>1, <1>2, Invariance, ExportInvNext, PTL DEF Spec

=============================================================================
