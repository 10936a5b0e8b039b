-------------------------- MODULE HidParserProofs --------------------------
(***************************************************************************)
(* Proofs about the parser of report descriptors, as Links runs it, for     *)
(* descriptors of any length and any depth of the stacks.                  *)
(***************************************************************************)
EXTENDS Links, FiniteSetTheorems, TLAPS

StateTable == [page : {"BUTTON", "DESKTOP"}, size : Nat, count : Nat, id : {0} \cup Parser!Ids]

SizeInfo == [id : {0} \cup Parser!Ids, bits : Nat]

Parsing == phase = "parsing"

\* Every structure acquired is in a list, or is the report info.
PoolInv ==
  /\ phase \in {"none", "parsing", "kept", "refused"}
  /\ IsFiniteSet(found) /\ (phase \in {"none", "refused"} => found = {})
  /\ taken \in [Parser!Pools -> Int]
  /\ taken["ReportInfo"] = IF phase \in {"parsing", "kept"} THEN 1 ELSE 0
  /\ taken["ReportItem"] = Cardinality(found)
  /\ taken["ReportSizeInfo"] = IF Parsing THEN Len(sizes) ELSE 0
  /\ taken["CollectionPath"] = IF Parsing THEN Len(parents) ELSE 0

\* The list of collections is the path to the current one: each is the parent
\* of the next, so that the one released is the last.
PathInv ==
  Parsing =>
    /\ parents \in Seq(Nat) /\ parents # <<>>
    /\ \A i \in DOMAIN parents : parents[i] = i - 1
    /\ current = Len(parents) \/ (current = 0 /\ Len(parents) = 1)

\* There is one count for each report ID, and none without an ID once one was
\* named.
CountInv ==
  Parsing =>
    /\ table \in Seq(StateTable) /\ table # <<>>
    /\ sizes \in Seq(SizeInfo) /\ counting \in DOMAIN sizes
    /\ \A i, j \in DOMAIN sizes : sizes[i].id = sizes[j].id => i = j
    /\ ~usingIDs => /\ Len(sizes) = 1 /\ sizes[counting].id = 0
                    /\ \A i \in DOMAIN table : table[i].id = 0
    /\ usingIDs => \A i \in DOMAIN sizes : sizes[i].id # 0

\* A field lies within the bits of the report it was counted in.
Within(f) ==
  \E i \in DOMAIN sizes : sizes[i].id = f.counted /\ f.offset + f.size <= sizes[i].bits

FieldInv ==
  /\ Parsing =>
       /\ read \in Nat
       /\ \A f \in found :
            /\ f.item \in Int /\ f.item < read /\ f.size \in Nat /\ f.offset \in Nat
            /\ f.counted = 0 => f.id = 0
            /\ (usingIDs /\ f.counted = 0) \/ Within(f)
  /\ Parser!FieldsDisjoint

ParserInv == PoolInv /\ PathInv /\ CountInv /\ FieldInv

-----------------------------------------------------------------------------
\* The parser counts with the Cardinality of FiniteSets.
LEMMA SameCardinality == \A S : Parser!Cardinality(S) = Cardinality(S)
  BY DEF Parser!Cardinality, Cardinality

LEMMA Initial == Init => ParserInv
<1> SUFFICES ASSUME Parser!Init PROVE ParserInv
  BY DEF Init
<1>1. IsFiniteSet({}) /\ Cardinality({}) = 0
  BY FS_EmptySet
<1>2. PoolInv
  <2>1. taken = [p \in Parser!Pools |-> 0] /\ phase = "none" /\ found = {}
    BY DEF Parser!Init
  <2> QED
    BY <1>1, <2>1 DEF PoolInv, Parsing, Parser!Pools
<1>3. PathInv /\ CountInv /\ FieldInv
  BY DEF Parser!Init, PathInv, CountInv, FieldInv, Parsing, Parser!FieldsDisjoint
<1> QED
  BY <1>2, <1>3 DEF ParserInv

\* The end of a parse, good or bad: the lists are given back, and the info and
\* the fields unless they are kept.
LEMMA FinishStep ==
  ASSUME ParserInv, Parsing, NEW error, Parser!Finish(error)
  PROVE  ParserInv'
<1> DEFINE ok == error = "Successful" /\ found # {}
<1> DEFINE lists == [taken EXCEPT !["ReportSizeInfo"] = @ - Len(sizes),
                                  !["CollectionPath"] = @ - Len(parents)]
<1>1. /\ phase' = IF ok THEN "kept" ELSE "refused"
      /\ taken' = IF ok THEN lists ELSE Parser!Released(lists)
      /\ found' = IF ok THEN found ELSE {}
  BY DEF Parser!Finish
<1>2. /\ IsFiniteSet(found) /\ Cardinality(found) \in Nat /\ IsFiniteSet({}) /\ Cardinality({}) = 0
      /\ phase = "parsing" /\ Len(sizes) \in Nat /\ Len(parents) \in Nat
  BY FS_EmptySet, FS_CardinalityType DEF ParserInv, PoolInv, Parsing, CountInv, PathInv
<1>3. /\ lists \in [Parser!Pools -> Int]
      /\ lists["ReportInfo"] = 1 /\ lists["ReportItem"] = Cardinality(found)
      /\ lists["ReportSizeInfo"] = 0 /\ lists["CollectionPath"] = 0
  BY <1>2 DEF ParserInv, PoolInv, Parsing, Parser!Pools
<1> HIDE DEF lists
<1>4. PoolInv'
  <2>1. CASE ok
    BY <1>1, <1>2, <1>3, <2>1 DEF PoolInv, Parsing
  <2>2. CASE ~ok
    <3>1. /\ taken' \in [Parser!Pools -> Int]
          /\ taken'["ReportInfo"] = 0 /\ taken'["ReportItem"] = 0
          /\ taken'["ReportSizeInfo"] = 0 /\ taken'["CollectionPath"] = 0
      BY <1>1, <1>2, <1>3, <2>2, SameCardinality DEF Parser!Released, Parser!Pools
    <3> QED
      BY <1>1, <1>2, <2>2, <3>1 DEF PoolInv, Parsing
  <2> QED
    BY <2>1, <2>2
<1>5. ~Parsing'
  BY <1>1 DEF Parsing
<1>6. Parser!FieldsDisjoint'
  BY <1>1 DEF ParserInv, FieldInv, Parser!FieldsDisjoint, Parser!Stray
<1> QED
  BY <1>4, <1>5, <1>6 DEF ParserInv, PathInv, CountInv, FieldInv

LEMMA BeginStep ==
  ASSUME ParserInv, NEW page \in {"BUTTON", "DESKTOP"}, Parser!Begin(page)
  PROVE  ParserInv'
<1>1. /\ phase \in {"none", "refused"} /\ phase' = "parsing" /\ read' = 0
      /\ table' = <<[page |-> page, size |-> 4, count |-> 1, id |-> 0]>>
      /\ sizes' = <<[id |-> 0, bits |-> 0]>> /\ counting' = 1 /\ usingIDs' = FALSE
      /\ parents' = <<0>> /\ current' = 0 /\ found' = {}
  BY DEF Parser!Begin
<1>2. /\ IsFiniteSet({}) /\ Cardinality({}) = 0 /\ found = {}
  BY <1>1, FS_EmptySet DEF ParserInv, PoolInv
<1>3. Len(parents') = 1 /\ Len(sizes') = 1
  BY <1>1
<1>4. /\ taken' \in [Parser!Pools -> Int]
      /\ taken'["ReportInfo"] = 1 /\ taken'["ReportItem"] = 0
      /\ taken'["ReportSizeInfo"] = 1 /\ taken'["CollectionPath"] = 1
  BY <1>1, <1>2 DEF Parser!Begin, ParserInv, PoolInv, Parsing, Parser!Pools
<1>5. PoolInv'
  BY <1>1, <1>2, <1>3, <1>4 DEF PoolInv, Parsing
<1>6. PathInv'
  BY <1>1 DEF PathInv
<1>7. CountInv'
  <2>1. table' \in Seq(StateTable) /\ sizes' \in Seq(SizeInfo)
    BY <1>1 DEF StateTable, SizeInfo
  <2> QED
    BY <1>1, <2>1 DEF CountInv
<1>8. FieldInv'
  BY <1>1 DEF FieldInv, Parser!FieldsDisjoint
<1> QED
  BY <1>5, <1>6, <1>7, <1>8 DEF ParserInv

\* Items that touch neither the counts nor the fields.
LEMMA KeepsFields ==
  ASSUME ParserInv, Parser!Next1, Parser!Read, UNCHANGED <<sizes, counting, usingIDs, found>>
  PROVE  FieldInv'
<1>1. read \in Nat /\ read' = read + 1 /\ phase' = phase /\ Parsing
  BY DEF ParserInv, FieldInv, Parser!Next1, Parser!Read, Parsing
<1> QED
  BY <1>1 DEF ParserInv, FieldInv, Parsing, Within, Parser!FieldsDisjoint, Parser!Stray

\* PUSH, POP and the global items: each table is one there was, or has its ID.
LEMMA TableStep ==
  ASSUME ParserInv, Parser!Next1, Parser!Read,
         UNCHANGED <<sizes, counting, usingIDs, parents, current, found, taken>>,
         table' \in Seq(StateTable), table' # <<>>,
         \A i \in DOMAIN table' : \E j \in DOMAIN table : table'[i].id = table[j].id
  PROVE  ParserInv'
<1>1. FieldInv'
  BY KeepsFields
<1>2. Parsing /\ phase' = phase
  BY DEF Parser!Next1, Parser!Read, Parsing
<1>3. CountInv'
  BY <1>2 DEF ParserInv, CountInv, Parsing
<1>4. PathInv' /\ PoolInv'
  BY <1>2 DEF ParserInv, PathInv, PoolInv, Parsing
<1> QED
  BY <1>1, <1>3, <1>4 DEF ParserInv

LEMMA StackStep ==
  ASSUME ParserInv, Parser!Push \/ Parser!Pop
  PROVE  ParserInv'
<1>1. Parser!Next1 /\ Parsing
  BY DEF Parser!Push, Parser!Pop, Parser!Next1, Parsing
<1>2. table \in Seq(StateTable) /\ table # <<>> /\ Len(table) \in Nat \ {0}
  BY <1>1 DEF ParserInv, CountInv
<1>3. CASE Parser!Finish("HIDStackOverflow") \/ Parser!Finish("HIDStackUnderflow")
  BY <1>1, <1>3, FinishStep
<1>4. CASE /\ table' = Append(table, Parser!Top) /\ Parser!Read
           /\ UNCHANGED <<sizes, counting, usingIDs, usages, parents, current, found, taken>>
  <2>1. Parser!Top \in StateTable /\ Parser!Top = table[Len(table)]
    BY <1>2 DEF Parser!Top
  <2>2. table' \in Seq(StateTable) /\ table' # <<>>
    BY <1>2, <1>4, <2>1
  <2>3. \A i \in DOMAIN table' : \E j \in DOMAIN table : table'[i].id = table[j].id
    BY <1>2, <1>4, <2>1
  <2> QED
    BY <1>1, <1>4, <2>2, <2>3, TableStep
<1>5. CASE /\ Len(table) > 1 /\ table' = SubSeq(table, 1, Len(table) - 1) /\ Parser!Read
           /\ UNCHANGED <<sizes, counting, usingIDs, usages, parents, current, found, taken>>
  <2>1. table' \in Seq(StateTable) /\ table' # <<>>
    <3>1. PICK n \in Nat \ {0} : n = Len(table) - 1
      BY <1>2, <1>5
    <3>2. table' = SubSeq(table, 1, n) /\ n < Len(table)
      BY <1>2, <1>5, <3>1
    <3>3. Len(table') = n /\ table' \in Seq(StateTable)
      BY <1>2, <3>2
    <3> QED
      BY <3>3
  <2>2. \A i \in DOMAIN table' : i \in DOMAIN table /\ table'[i] = table[i]
    <3>1. PICK n \in Nat : n = Len(table) - 1
      BY <1>2
    <3>2. table' = SubSeq(table, 1, n) /\ n < Len(table)
      BY <1>2, <1>5, <3>1
    <3>3. DOMAIN table' = 1..n /\ DOMAIN table = 1..Len(table)
      BY <1>2, <3>2
    <3> QED
      BY <1>2, <3>2, <3>3
  <2>3. \A i \in DOMAIN table' : \E j \in DOMAIN table : table'[i].id = table[j].id
    BY <2>2
  <2> QED
    BY <1>1, <1>5, <2>1, <2>3, TableStep
<1> QED
  BY <1>3, <1>4, <1>5 DEF Parser!Push, Parser!Pop

LEMMA GlobalStep ==
  ASSUME ParserInv, NEW t, Parser!Top \in StateTable => t \in StateTable /\ t.id = Parser!Top.id,
         Parser!Global(t)
  PROVE  ParserInv'
<1>1. /\ Parser!Next1 /\ Parsing /\ Parser!Read /\ table' = [table EXCEPT ![Len(table)] = t]
      /\ UNCHANGED <<sizes, counting, usingIDs, parents, current, found, taken>>
  BY DEF Parser!Global, Parser!Next1, Parsing, Parser!WithTop
<1>2. table \in Seq(StateTable) /\ table # <<>> /\ Len(table) \in DOMAIN table
  BY <1>1 DEF ParserInv, CountInv
<1>3. t \in StateTable /\ t.id = table[Len(table)].id
  BY <1>2 DEF Parser!Top
<1>4. table' \in Seq(StateTable) /\ table' # <<>>
  BY <1>1, <1>2, <1>3
<1>5. \A i \in DOMAIN table' : \E j \in DOMAIN table : table'[i].id = table[j].id
  BY <1>1, <1>2, <1>3
<1> QED
  BY <1>1, <1>4, <1>5, TableStep

LEMMA UsageStep ==
  ASSUME ParserInv, NEW u, Parser!Usage(u)
  PROVE  ParserInv'
<1>1. Parser!Next1 /\ Parsing /\ table \in Seq(StateTable) /\ table # <<>>
  BY DEF Parser!Usage, Parser!Next1, Parsing, ParserInv, CountInv
<1>2. CASE Parser!Finish("UsageListOverflow")
  BY <1>1, <1>2, FinishStep
<1>3. CASE /\ Parser!Read
           /\ UNCHANGED <<table, sizes, counting, usingIDs, parents, current, found, taken>>
  <2>1. \A i \in DOMAIN table' : \E j \in DOMAIN table : table'[i].id = table[j].id
    BY <1>3
  <2> QED
    BY <1>1, <1>3, <2>1, TableStep
<1> QED
  BY <1>2, <1>3 DEF Parser!Usage

\* The first ID names the count there is; a later one has a count or gets one.
LEMMA ReportIdStep ==
  ASSUME ParserInv, NEW id \in Parser!Ids, Parser!ReportId(id)
  PROVE  ParserInv'
<1> DEFINE entry == Parser!InfoOf(id)
<1>1. /\ Parsing /\ Parsing' /\ phase' = phase /\ read \in Nat /\ read' = read + 1
      /\ sizes' = entry.list /\ counting' = entry.at /\ usingIDs' = TRUE
      /\ taken' = [taken EXCEPT !["ReportSizeInfo"] = @ + Len(entry.list) - Len(sizes)]
      /\ table' = [table EXCEPT ![Len(table)] = [Parser!Top EXCEPT !.id = id]]
      /\ UNCHANGED <<parents, current, found>>
  BY DEF Parser!ReportId, Parser!Next1, Parser!Read, Parser!WithTop, Parsing, ParserInv, FieldInv
<1>2. /\ table \in Seq(StateTable) /\ table # <<>> /\ Len(table) \in DOMAIN table
      /\ sizes \in Seq(SizeInfo) /\ counting \in DOMAIN sizes
      /\ DOMAIN sizes = 1..Len(sizes) /\ Len(sizes) \in Nat
      /\ \A i, j \in DOMAIN sizes : sizes[i].id = sizes[j].id => i = j
      /\ ~usingIDs => Len(sizes) = 1 /\ sizes[counting].id = 0
      /\ id \in Parser!Ids /\ id # 0
  BY <1>1 DEF ParserInv, CountInv, Parser!Ids
<1>3. /\ entry.list \in Seq(SizeInfo) /\ entry.at \in DOMAIN entry.list
      /\ \A i, j \in DOMAIN entry.list : entry.list[i].id = entry.list[j].id => i = j
      /\ \A i \in DOMAIN entry.list : entry.list[i].id # 0
      /\ usingIDs => \A i \in DOMAIN sizes : i \in DOMAIN entry.list /\ entry.list[i] = sizes[i]
  <2>1. CASE ~usingIDs
    <3>1. entry.list = [sizes EXCEPT ![counting].id = id] /\ entry.at = counting
      BY <2>1 DEF Parser!InfoOf
    <3>2. counting = 1 /\ DOMAIN sizes = {1}
      BY <1>2, <2>1
    <3>3. sizes[1] \in SizeInfo
      BY <1>2, <3>2
    <3> DEFINE named == [sizes[1] EXCEPT !.id = id]
    <3>4. named \in SizeInfo /\ named.id = id
      BY <1>2, <3>3 DEF SizeInfo
    <3>5. entry.list = [sizes EXCEPT ![1] = named]
      BY <1>2, <3>1, <3>2
    <3> HIDE DEF entry, named
    <3>6. DOMAIN entry.list = {1} /\ entry.list[1].id = id
      BY <3>2, <3>4, <3>5
    <3>7. entry.list \in Seq(SizeInfo)
      BY <1>2, <3>2, <3>4, <3>5
    <3> QED
      BY <1>2, <2>1, <3>1, <3>2, <3>6, <3>7
  <2>2. CASE usingIDs /\ \E i \in DOMAIN sizes : sizes[i].id = id
    <3> DEFINE at == {i \in DOMAIN sizes : sizes[i].id = id}
    <3>1. PICK i \in at : TRUE
      BY <2>2
    <3>2. at = {i}
      BY <1>2, <3>1
    <3>3. (CHOOSE x \in at : \A j \in at : x <= j) \in at
      BY <1>2, <3>2
    <3>4. entry.list = sizes /\ entry.at \in at
      BY <2>2, <3>1, <3>3 DEF Parser!InfoOf
    <3> HIDE DEF entry
    <3> QED
      BY <1>1, <1>2, <2>2, <3>4 DEF ParserInv, CountInv
  <2>3. CASE usingIDs /\ ~\E i \in DOMAIN sizes : sizes[i].id = id
    <3> DEFINE new == [id |-> id, bits |-> 0]
    <3>1. entry.list = Append(sizes, new) /\ entry.at = Len(sizes) + 1
      BY <2>3 DEF Parser!InfoOf
    <3>2. new \in SizeInfo /\ new.id = id
      BY <1>2 DEF SizeInfo
    <3> HIDE DEF entry, new
    <3>3. /\ entry.list \in Seq(SizeInfo) /\ DOMAIN entry.list = 1..(Len(sizes) + 1)
          /\ \A i \in DOMAIN sizes : entry.list[i] = sizes[i]
          /\ entry.list[Len(sizes) + 1] = new
      BY <1>2, <3>1, <3>2
    <3>4. \A i \in DOMAIN sizes : sizes[i].id # 0
      BY <1>1, <2>3 DEF ParserInv, CountInv
    <3> QED
      BY <1>2, <2>3, <3>1, <3>2, <3>3, <3>4
  <2> QED
    BY <2>1, <2>2, <2>3
<1> HIDE DEF entry
<1>4. CountInv'
  <2>1. Parser!Top \in StateTable
    BY <1>2 DEF Parser!Top
  <2>2. [Parser!Top EXCEPT !.id = id] \in StateTable
    BY <2>1 DEF StateTable
  <2>3. table' \in Seq(StateTable) /\ table' # <<>>
    BY <1>1, <1>2, <2>2
  <2> QED
    BY <1>1, <1>3, <2>3 DEF CountInv
<1>5. PoolInv'
  <2>1. Len(entry.list) \in Nat
    BY <1>3
  <2> QED
    BY <1>1, <1>2, <2>1 DEF ParserInv, PoolInv, Parsing, Parser!Pools
<1>6. PathInv'
  BY <1>1 DEF ParserInv, PathInv
<1>7. FieldInv'
  <2>1. ASSUME NEW f \in found
        PROVE  /\ f.item \in Int /\ f.item < read' /\ f.size \in Nat /\ f.offset \in Nat
               /\ f.counted = 0 => f.id = 0
               /\ f.counted = 0 \/ Within(f)'
    <3>1. /\ f.item \in Int /\ f.item < read' /\ f.size \in Nat /\ f.offset \in Nat
          /\ f.counted = 0 => f.id = 0
          /\ f.counted = 0 \/ Within(f)
      BY <1>1 DEF ParserInv, FieldInv
    <3>2. CASE usingIDs
      BY <1>1, <1>3, <3>1, <3>2 DEF Within
    <3>3. CASE ~usingIDs
      <4>1. f.counted = 0
        BY <1>2, <3>1, <3>3 DEF Within
      <4> QED
        BY <3>1, <4>1
    <3> QED
      BY <3>1, <3>2, <3>3
  <2>2. Parser!FieldsDisjoint'
    BY <1>1 DEF ParserInv, FieldInv, Parser!FieldsDisjoint, Parser!Stray
  <2> QED
    BY <1>1, <2>1, <2>2 DEF FieldInv
<1> QED
  BY <1>4, <1>5, <1>6, <1>7 DEF ParserInv

\* A collection is added to the end of the path; leaving one takes the last
\* off, which is the one released.
LEMMA PathStep ==
  ASSUME ParserInv, Parser!Collection \/ Parser!EndCollection
  PROVE  ParserInv'
<1>1. /\ Parsing /\ phase = "parsing" /\ Parser!Next1
      /\ parents \in Seq(Nat) /\ parents # <<>> /\ Len(parents) \in Nat \ {0}
      /\ DOMAIN parents = 1..Len(parents)
      /\ \A i \in DOMAIN parents : parents[i] = i - 1
      /\ current = Len(parents) \/ (current = 0 /\ Len(parents) = 1)
      /\ taken \in [Parser!Pools -> Int] /\ taken["CollectionPath"] = Len(parents)
  BY DEF Parser!Collection, Parser!EndCollection, Parser!Next1, Parsing, ParserInv, PathInv, PoolInv
<1>2. CASE Parser!Finish("UnexpectedEndCollection")
  BY <1>1, <1>2, FinishStep
<1>3. ASSUME Parser!Read, UNCHANGED <<table, sizes, counting, usingIDs, found>>,
             parents' \in Seq(Nat), parents' # <<>>,
             \A i \in DOMAIN parents' : parents'[i] = i - 1,
             current' = Len(parents') \/ (current' = 0 /\ Len(parents') = 1),
             taken' = [taken EXCEPT !["CollectionPath"] = Len(parents')]
      PROVE  ParserInv'
  <2>1. FieldInv'
    BY <1>1, <1>3, KeepsFields
  <2>2. phase' = phase
    BY <1>3 DEF Parser!Read
  <2>3. CountInv' /\ PathInv'
    BY <1>3, <2>2 DEF ParserInv, CountInv, PathInv, Parsing
  <2>4. Len(parents') \in Int
    BY <1>3
  <2>5. PoolInv'
    BY <1>1, <1>3, <2>2, <2>4 DEF ParserInv, PoolInv, Parsing, Parser!Pools
  <2> QED
    BY <2>1, <2>3, <2>5 DEF ParserInv
<1>4. CASE Parser!Collection
  <2>1. Parser!Read /\ UNCHANGED <<table, sizes, counting, usingIDs, found>>
    BY <1>4 DEF Parser!Collection
  <2>2. CASE current = 0
    <3>1. current' = 1 /\ UNCHANGED <<parents, taken>>
      BY <1>4, <2>2 DEF Parser!Collection
    <3>2. taken' = [taken EXCEPT !["CollectionPath"] = Len(parents')]
      BY <1>1, <3>1 DEF Parser!Pools
    <3> QED
      BY <1>1, <1>3, <2>1, <2>2, <3>1, <3>2
  <2>3. CASE current # 0
    <3>1. /\ parents' = Append(parents, current) /\ current' = Len(parents) + 1
          /\ taken' = [taken EXCEPT !["CollectionPath"] = @ + 1]
      BY <1>4, <2>3 DEF Parser!Collection
    <3>2. current = Len(parents)
      BY <1>1, <2>3
    <3>3. /\ parents' \in Seq(Nat) /\ Len(parents') = Len(parents) + 1
          /\ \A i \in DOMAIN parents' : parents'[i] = i - 1
      BY <1>1, <3>1, <3>2
    <3>4. taken' = [taken EXCEPT !["CollectionPath"] = Len(parents')]
      BY <1>1, <3>1, <3>3 DEF Parser!Pools
    <3>5. parents' # <<>>
      BY <1>1, <3>3
    <3> QED
      BY <1>3, <2>1, <3>1, <3>3, <3>4, <3>5
  <2> QED
    BY <2>2, <2>3
<1>5. CASE /\ current # 0 /\ current' = parents[current]
           /\ IF current' = 0 THEN UNCHANGED <<parents, taken>>
              ELSE /\ parents' = SubSeq(parents, 1, current')
                   /\ taken' = [taken EXCEPT !["CollectionPath"] = @ - 1]
           /\ Parser!Read /\ UNCHANGED <<table, sizes, counting, usingIDs, found>>
  <2>1. current = Len(parents) /\ current' = Len(parents) - 1
    BY <1>1, <1>5
  <2>2. CASE current' = 0
    <3>1. UNCHANGED <<parents, taken>> /\ Len(parents) = 1
      BY <1>1, <1>5, <2>1, <2>2
    <3>2. taken' = [taken EXCEPT !["CollectionPath"] = Len(parents')]
      BY <1>1, <3>1 DEF Parser!Pools
    <3> QED
      BY <1>1, <1>3, <1>5, <2>2, <3>1, <3>2
  <2>3. CASE current' # 0
    <3> DEFINE n == Len(parents) - 1
    <3>1. n \in Nat \ {0} /\ Len(parents) = n + 1
      BY <1>1, <2>1, <2>3
    <3>2. parents' = SubSeq(parents, 1, n) /\ taken' = [taken EXCEPT !["CollectionPath"] = @ - 1]
      BY <1>5, <2>1, <2>3, <3>1
    <3>3. parents' \in Seq(Nat) /\ Len(parents') = n
      BY <1>1, <3>1, <3>2
    <3>4. \A i \in DOMAIN parents' : parents'[i] = i - 1
      BY <1>1, <3>1, <3>2, <3>3
    <3>5. taken' = [taken EXCEPT !["CollectionPath"] = Len(parents')]
      BY <1>1, <3>1, <3>2, <3>3 DEF Parser!Pools
    <3>6. parents' # <<>> /\ current' = Len(parents')
      BY <2>1, <3>1, <3>3
    <3> QED
      BY <1>3, <1>5, <3>3, <3>4, <3>5, <3>6
  <2> QED
    BY <2>2, <2>3
<1> QED
  BY <1>2, <1>4, <1>5 DEF Parser!EndCollection

-----------------------------------------------------------------------------
(* Input items.                                                            *)

\* The fields of one item lie one behind the other, and all within its bits.
LEMMA Places ==
  ASSUME NEW s \in Nat, NEW c \in Nat
  PROVE  /\ \A k \in 1..c : (k - 1) * s \in Nat /\ (k - 1) * s + s <= c * s
         /\ \A j, k \in 1..c : j < k => (j - 1) * s + s <= (k - 1) * s
         /\ c * s \in Nat
<1>1. \A a, b \in Nat : a <= b => a * s <= b * s /\ a * s \in Nat
  OBVIOUS
<1>2. \A k \in 1..c : (k - 1) * s + s = k * s /\ k \in Nat /\ k - 1 \in Nat
  OBVIOUS
<1> QED
  BY <1>1, <1>2

\* The fields of an item are of its report, behind all that was counted there.
LEMMA NewFields ==
  ASSUME ParserInv, Parsing, NEW constant
  PROVE  /\ IsFiniteSet(Parser!Fields(constant))
         /\ \A f \in Parser!Fields(constant) :
              /\ f.item = read /\ f.id = Parser!Top.id /\ f.counted = sizes[counting].id
              /\ f.size \in Nat /\ f.offset \in Nat
              /\ sizes[counting].bits <= f.offset
              /\ f.offset + f.size <= sizes[counting].bits + Parser!Top.count * Parser!Top.size
         /\ \A f, g \in Parser!Fields(constant) :
              f # g => f.offset + f.size <= g.offset \/ g.offset + g.size <= f.offset
<1> DEFINE c == Parser!Top.count
<1> DEFINE s == Parser!Top.size
<1> DEFINE b == sizes[counting].bits
<1>1. c \in Nat /\ s \in Nat /\ b \in Nat
  <2>1. table[Len(table)] \in StateTable /\ sizes[counting] \in SizeInfo
    BY DEF ParserInv, CountInv
  <2> QED
    BY <2>1 DEF StateTable, SizeInfo, Parser!Top
<1>2. \A k \in 1..c :
        /\ Parser!Field(k).item = read /\ Parser!Field(k).id = Parser!Top.id
        /\ Parser!Field(k).counted = sizes[counting].id
        /\ Parser!Field(k).size = s /\ Parser!Field(k).offset = b + (k - 1) * s
  BY DEF Parser!Field
<1>3. Parser!Fields(constant) \subseteq {Parser!Field(k) : k \in 1..c}
  BY DEF Parser!Fields
<1> HIDE DEF c, s, b
<1>4. IsFiniteSet({Parser!Field(k) : k \in 1..c})
  <2> DEFINE F == [k \in 1..c |-> Parser!Field(k)]
  <2>1. F \in Surjection(1..c, {Parser!Field(k) : k \in 1..c})
    BY DEF Surjection
  <2>2. IsFiniteSet(1..c)
    BY <1>1, FS_Interval
  <2> QED
    BY <2>1, <2>2, FS_Surjection
<1>5. IsFiniteSet(Parser!Fields(constant))
  BY <1>3, <1>4, FS_Subset
<1>6. ASSUME NEW f \in Parser!Fields(constant)
      PROVE  /\ f.item = read /\ f.id = Parser!Top.id /\ f.counted = sizes[counting].id
             /\ f.size \in Nat /\ f.offset \in Nat
             /\ b <= f.offset /\ f.offset + f.size <= b + c * s
  <2>1. PICK k \in 1..c : f = Parser!Field(k)
    BY <1>3
  <2>2. (k - 1) * s \in Nat /\ (k - 1) * s + s <= c * s /\ c * s \in Nat
    BY <1>1, Places
  <2> QED
    BY <1>1, <1>2, <2>1, <2>2
<1>7. ASSUME NEW f \in Parser!Fields(constant), NEW g \in Parser!Fields(constant), f # g
      PROVE  f.offset + f.size <= g.offset \/ g.offset + g.size <= f.offset
  <2>1. PICK j \in 1..c : f = Parser!Field(j)
    BY <1>3
  <2>2. PICK k \in 1..c : g = Parser!Field(k)
    BY <1>3
  <2>3. j < k \/ k < j
    BY <1>1, <1>7, <2>1, <2>2
  <2>4. /\ (j - 1) * s \in Nat /\ (k - 1) * s \in Nat
        /\ j < k => (j - 1) * s + s <= (k - 1) * s
        /\ k < j => (k - 1) * s + s <= (j - 1) * s
    BY <1>1, Places
  <2> QED
    BY <1>1, <1>2, <2>1, <2>2, <2>3, <2>4
<1> QED
  BY <1>5, <1>6, <1>7 DEF b, c, s

LEMMA InputStep ==
  ASSUME ParserInv, NEW constant, Parser!Input(constant)
  PROVE  ParserInv'
<1> DEFINE new == Parser!Fields(constant)
<1> DEFINE b == sizes[counting].bits
<1> DEFINE n == Parser!Top.count * Parser!Top.size
<1>1. /\ Parsing /\ Parsing' /\ phase' = phase /\ phase = "parsing"
      /\ read \in Nat /\ read' = read + 1
      /\ found' = found \cup new
      /\ taken' = [taken EXCEPT !["ReportItem"] = @ + Parser!Cardinality(new)]
      /\ sizes' = [sizes EXCEPT ![counting].bits = @ + n]
      /\ UNCHANGED <<table, counting, usingIDs, parents, current>>
  BY DEF Parser!Input, Parser!Next1, Parser!Read, Parsing, ParserInv, FieldInv
<1>2. /\ sizes \in Seq(SizeInfo) /\ counting \in DOMAIN sizes
      /\ table \in Seq(StateTable) /\ Parser!Top \in StateTable
      /\ ~usingIDs => sizes[counting].id = 0 /\ Parser!Top.id = 0
      /\ usingIDs => sizes[counting].id # 0
      /\ \A i, j \in DOMAIN sizes : sizes[i].id = sizes[j].id => i = j
  BY <1>1 DEF ParserInv, CountInv, Parser!Top
<1>3. n \in Nat /\ \A i \in DOMAIN sizes : sizes[i].bits \in Nat
  <2>1. n \in Nat
    BY <1>2, Places DEF StateTable
  <2> HIDE DEF n
  <2>2. \A i \in DOMAIN sizes : sizes[i] \in SizeInfo
    BY <1>2
  <2>3. \A i \in DOMAIN sizes : sizes[i].bits \in Nat
    BY <2>2 DEF SizeInfo
  <2> QED
    BY <2>1, <2>3
<1>4. /\ IsFiniteSet(new)
      /\ \A f \in new :
           /\ f.item = read /\ f.id = Parser!Top.id /\ f.counted = sizes[counting].id
           /\ f.size \in Nat /\ f.offset \in Nat
           /\ b <= f.offset /\ f.offset + f.size <= b + n
      /\ \A f, g \in new : f # g => f.offset + f.size <= g.offset \/ g.offset + g.size <= f.offset
  BY <1>1, NewFields
<1> HIDE DEF new, n
<1>5. \A f \in found :
        /\ f.item \in Int /\ f.item < read /\ f.size \in Nat /\ f.offset \in Nat
        /\ f.counted = 0 => f.id = 0
        /\ (usingIDs /\ f.counted = 0) \/ Within(f)
  BY <1>1 DEF ParserInv, FieldInv
\* Only the current count changes, and only by its bits.
<1>6. /\ DOMAIN sizes' = DOMAIN sizes /\ sizes' \in Seq(SizeInfo)
      /\ sizes'[counting].bits = b + n
      /\ \A i \in DOMAIN sizes : sizes'[i].id = sizes[i].id
      /\ \A i \in DOMAIN sizes : sizes[i].bits <= sizes'[i].bits
  <2> DEFINE grown == [sizes[counting] EXCEPT !.bits = b + n]
  <2>1. sizes' = [sizes EXCEPT ![counting] = grown]
    BY <1>1, <1>2
  <2>2. sizes[counting] \in SizeInfo /\ b + n \in Nat
    <3>1. sizes[counting] \in SizeInfo /\ b \in Nat
      BY <1>2, <1>3
    <3> QED
      BY <1>3, <3>1
  <2>3. grown \in SizeInfo /\ grown.id = sizes[counting].id /\ grown.bits = b + n
    BY <2>2 DEF SizeInfo
  <2> HIDE DEF grown
  <2>4. DOMAIN sizes' = DOMAIN sizes /\ sizes' \in Seq(SizeInfo) /\ sizes'[counting] = grown
    BY <1>2, <2>1, <2>3
  <2>5. \A i \in DOMAIN sizes : i # counting => sizes'[i] = sizes[i]
    BY <2>1
  <2>6. b <= b + n
    BY <1>2, <1>3
  <2>7. \A i \in DOMAIN sizes : sizes[i].bits <= sizes[i].bits
    BY <1>3
  <2> QED
    BY <1>2, <2>3, <2>4, <2>5, <2>6, <2>7
<1>7. CountInv'
  <2>1. /\ table # <<>>
        /\ ~usingIDs => Len(sizes) = 1 /\ \A i \in DOMAIN table : table[i].id = 0
        /\ usingIDs => \A i \in DOMAIN sizes : sizes[i].id # 0
    BY <1>1 DEF ParserInv, CountInv
  <2>2. Len(sizes') = Len(sizes)
    BY <1>2, <1>6
  <2>3. \A i, j \in DOMAIN sizes' : sizes'[i].id = sizes'[j].id => i = j
    BY <1>2, <1>6
  <2>4. UNCHANGED <<table, counting, usingIDs>>
    BY <1>1
  <2> QED
    BY <1>2, <1>6, <2>1, <2>2, <2>3, <2>4 DEF CountInv
<1>8. PathInv'
  BY <1>1 DEF ParserInv, PathInv
<1>9. PoolInv'
  <2>1. found \cap new = {}
    BY <1>1, <1>4, <1>5
  <2>2. IsFiniteSet(found) /\ Cardinality(found) \in Nat /\ Cardinality(new) \in Nat
    BY <1>4, FS_CardinalityType DEF ParserInv, PoolInv
  <2>3. IsFiniteSet(found') /\ Cardinality(found') = Cardinality(found) + Cardinality(new)
    <3>1. Cardinality(found \cap new) = 0
      BY <2>1, FS_EmptySet
    <3>2. /\ IsFiniteSet(found \cup new)
          /\ Cardinality(found \cup new) =
               Cardinality(found) + Cardinality(new) - Cardinality(found \cap new)
      BY <1>4, <2>2, FS_Union
    <3> QED
      BY <1>1, <2>2, <3>1, <3>2
  <2>4. Len(sizes') = Len(sizes)
    BY <1>2, <1>6
  <2> QED
    BY <1>1, <2>2, <2>3, <2>4, SameCardinality DEF ParserInv, PoolInv, Parsing, Parser!Pools
<1>10. ASSUME NEW f \in found'
       PROVE  /\ f.item \in Int /\ f.item < read' /\ f.size \in Nat /\ f.offset \in Nat
              /\ f.counted = 0 => f.id = 0
              /\ (usingIDs' /\ f.counted = 0) \/ Within(f)'
  <2>1. CASE f \in new
    <3>1. f.offset + f.size <= sizes'[counting].bits
      BY <1>4, <1>6, <2>1
    <3>2. sizes'[counting].id = f.counted /\ counting \in DOMAIN sizes'
      BY <1>2, <1>4, <1>6, <2>1
    <3>3. Within(f)'
      BY <1>1, <3>1, <3>2 DEF Within
    <3>4. f.counted = 0 => f.id = 0
      BY <1>2, <1>4, <2>1
    <3> QED
      BY <1>1, <1>4, <2>1, <3>3, <3>4
  <2>2. CASE f \in found
    <3>1. Within(f) => Within(f)'
      <4> SUFFICES ASSUME Within(f) PROVE Within(f)'
        OBVIOUS
      <4>1. PICK i \in DOMAIN sizes : sizes[i].id = f.counted /\ f.offset + f.size <= sizes[i].bits
        BY DEF Within
      <4>2. /\ f.offset + f.size \in Nat /\ sizes[i].bits \in Nat /\ sizes'[i].bits \in Nat
            /\ sizes[i].bits <= sizes'[i].bits
        <5>1. sizes'[i] \in SizeInfo
          BY <1>6
        <5>2. sizes'[i].bits \in Nat
          BY <5>1 DEF SizeInfo
        <5>3. f.offset \in Nat /\ f.size \in Nat
          BY <1>5, <2>2
        <5> QED
          BY <1>3, <1>6, <5>2, <5>3
      <4>3. i \in DOMAIN sizes' /\ sizes'[i].id = f.counted /\ f.offset + f.size <= sizes'[i].bits
        BY <1>6, <4>1, <4>2
      <4> QED
        BY <4>3 DEF Within
    <3> QED
      BY <1>1, <1>5, <2>2, <3>1
  <2> QED
    BY <1>1, <2>1, <2>2
\* What was counted before in the report of the item ends where the item begins.
<1>11. ASSUME NEW f \in new, NEW g \in found, f.id = g.id, ~Parser!Stray(f), ~Parser!Stray(g)
       PROVE  g.offset + g.size <= f.offset
  <2>1. /\ f.counted = f.id \/ f.counted = 0
        /\ g.counted = g.id \/ g.counted = 0
        /\ f.counted = sizes[counting].id /\ f.id = Parser!Top.id
    BY <1>4, <1>11 DEF Parser!Stray
  <2>2. /\ g.counted = 0 => g.id = 0
        /\ (usingIDs /\ g.counted = 0) \/ Within(g)
    BY <1>5
  <2>3. Within(g) /\ g.counted = sizes[counting].id
    BY <1>2, <1>11, <2>1, <2>2
  <2>4. g.offset + g.size <= b
    BY <1>2, <2>3 DEF Within
  <2>5. g.offset + g.size \in Nat /\ b \in Nat /\ f.offset \in Nat /\ b <= f.offset
    BY <1>2, <1>3, <1>4, <1>5
  <2> QED
    BY <2>4, <2>5
<1>12. Parser!FieldsDisjoint'
  <2>1. \A f, g \in found : f # g /\ f.id = g.id /\ ~Parser!Stray(f) /\ ~Parser!Stray(g) =>
          f.offset + f.size <= g.offset \/ g.offset + g.size <= f.offset
    BY DEF ParserInv, FieldInv, Parser!FieldsDisjoint
  <2> QED
    BY <1>1, <1>4, <1>11, <2>1 DEF Parser!FieldsDisjoint, Parser!Stray
<1>13. FieldInv'
  BY <1>1, <1>10, <1>12 DEF FieldInv
<1> QED
  BY <1>7, <1>8, <1>9, <1>13 DEF ParserInv

-----------------------------------------------------------------------------
LEMMA FreeStep ==
  ASSUME ParserInv, Parser!Free
  PROVE  ParserInv'
<1>1. /\ phase = "kept" /\ phase' = "none" /\ found' = {} /\ taken' = Parser!Released(taken)
  BY DEF Parser!Free
<1>2. IsFiniteSet({}) /\ Cardinality({}) = 0 /\ Cardinality(found) \in Nat
  BY FS_EmptySet, FS_CardinalityType DEF ParserInv, PoolInv
<1>3. /\ taken' \in [Parser!Pools -> Int]
      /\ taken'["ReportInfo"] = 0 /\ taken'["ReportItem"] = 0
      /\ taken'["ReportSizeInfo"] = 0 /\ taken'["CollectionPath"] = 0
  BY <1>1, <1>2, SameCardinality DEF ParserInv, PoolInv, Parsing, Parser!Released, Parser!Pools
<1>4. PoolInv'
  BY <1>1, <1>2, <1>3 DEF PoolInv, Parsing
<1> QED
  BY <1>1, <1>4 DEF ParserInv, PathInv, CountInv, FieldInv, Parsing, Parser!FieldsDisjoint

LEMMA ParserStep == ParserInv /\ Parser!Next => ParserInv'
<1> SUFFICES ASSUME ParserInv, Parser!Next PROVE ParserInv'
  OBVIOUS
<1>1. ASSUME NEW t, Parser!Global(t),
             \/ \E p \in {"BUTTON", "DESKTOP"} : t = [Parser!Top EXCEPT !.page = p]
             \/ \E n \in {4, 8} : t = [Parser!Top EXCEPT !.size = n]
             \/ \E n \in {1, 2} : t = [Parser!Top EXCEPT !.count = n]
      PROVE  ParserInv'
  <2>1. Parser!Top \in StateTable => t \in StateTable /\ t.id = Parser!Top.id
    BY <1>1 DEF StateTable
  <2> QED
    BY <1>1, <2>1, GlobalStep
<1>2. CASE Parser!End
  BY <1>2, FinishStep DEF Parser!End, Parsing
<1> QED
  BY <1>1, <1>2, BeginStep, ReportIdStep, UsageStep, InputStep, StackStep, PathStep, FreeStep
     DEF Parser!Next

LEMMA ParserStepOfAny == ParserInv /\ [Next]_vars => ParserInv'
<1> SUFFICES ASSUME ParserInv, [Next]_vars PROVE ParserInv'
  OBVIOUS
<1>1. CASE Step("descriptor", Parser!Next)
  BY <1>1, ParserStep DEF Step
<1>2. CASE UNCHANGED parser
  <2> USE <1>2 DEF parser
  <2>1. PoolInv' /\ PathInv' /\ CountInv'
    BY DEF ParserInv, PoolInv, PathInv, CountInv, Parsing
  <2>2. FieldInv'
    BY DEF ParserInv, FieldInv, Parsing, Within, Parser!FieldsDisjoint, Parser!Stray
  <2> QED
    BY <2>1, <2>2 DEF ParserInv
<1> QED
  BY <1>1, <1>2 DEF Next, Step, Elsewhere, vars

\* Two fields of a report share no bit, whatever the order of report IDs, pushes
\* and items of a descriptor (USB_ProcessHIDReport), fields counted in another
\* report left out.
THEOREM FieldsCorrect == Spec => []FieldsDisjoint
<1>1. ParserInv => FieldsDisjoint
  BY DEF ParserInv, FieldInv, FieldsDisjoint
<1> QED
  BY <1>1, Initial, ParserStepOfAny, PTL DEF Spec

\* No structure is lost and none is given back twice, wherever a parse fails
\* (USB_ProcessHIDReport, USB_FreeReportInfo).
THEOREM PoolsCorrect == Spec => []PoolsBalance
<1>1. ParserInv => PoolsBalance
  <2> SUFFICES ASSUME ParserInv, phase # "parsing"
               PROVE  taken = [p \in Parser!Pools |->
                                 CASE p = "ReportInfo" -> IF phase = "kept" THEN 1 ELSE 0
                                   [] p = "ReportItem" -> Cardinality(found)
                                   [] OTHER -> 0]
    BY SameCardinality DEF PoolsBalance, Parser!PoolsBalance
  <2> QED
    BY DEF ParserInv, PoolInv, Parsing, Parser!Pools
<1> QED
  BY <1>1, Initial, ParserStepOfAny, PTL DEF Spec
=============================================================================
