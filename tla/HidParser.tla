------------------------------ MODULE HidParser ------------------------------
(***************************************************************************)
(* USB_ProcessHIDReport (hidparser.c) reading a report descriptor item by  *)
(* item, and gamepad_parser.c, which keeps the buttons and axes it finds.  *)
(* Every structure comes from a pool of fixed size and is given back by    *)
(* hand.  A descriptor is any sequence of items; a read counts as its item *)
(* whole.  Left out: units and the ranges of values, which nothing tests,  *)
(* and ranges of usages, since gamepad_parser.c keeps buttons by their     *)
(* page alone.                                                             *)
(***************************************************************************)
EXTENDS Integers, Sequences, FiniteSets

CONSTANTS
  MaxRead,   \* bound: items of a descriptor
  Depth,     \* HID_STATETABLE_STACK_DEPTH
  MaxUsages  \* HID_USAGE_STACK_DEPTH

VARIABLES
  phase,     \* "none", "parsing", "kept" (info of gamepad_parser.c) or a failure
  read,      \* items read
  table,     \* the stack of state tables, the current one last
  sizes,     \* the list of report IDs with the bits counted for each
  counting,  \* CurrReportIDInfo, as a place in sizes
  usingIDs,  \* UsingReportIDs
  usages,    \* UsageList
  parents,   \* the list of collections, each by the place of its parent
  current,   \* CurrCollectionPath, 0 if none
  found,     \* the report items kept, each with the place of its item
  taken      \* structures acquired and not released, by pool

vars == <<phase, read, table, sizes, counting, usingIDs, usages, parents, current, found, taken>>

-----------------------------------------------------------------------------
Ids == {1, 2}

\* CALLBACK_HIDParser_FilterHIDReportItem of an input item that is not
\* constant: buttons, the four axes and the hat are kept.
Kept(page, usage) == page = "BUTTON" \/ (page = "DESKTOP" /\ usage = "axis")

Pools == {"ReportSizeInfo", "CollectionPath", "ReportInfo", "ReportItem"}

Top == table[Len(table)]

WithTop(t) == [table EXCEPT ![Len(table)] = t]

-----------------------------------------------------------------------------
(* Report IDs.                                                             *)

\* Faulty: a report ID named again is counted from zero.
FreshInfo(id) ==
  IF usingIDs
  THEN [list |-> Append(sizes, [id |-> id, bits |-> 0]), at |-> Len(sizes) + 1]
  ELSE [list |-> [sizes EXCEPT ![counting].id = id], at |-> counting]

\* REPORT_ID: the first ID names the structure there is; later ones are looked
\* up in the list and appended if missing.
InfoOf(id) ==
  LET at == {i \in DOMAIN sizes : sizes[i].id = id}
  IN  IF ~usingIDs THEN [list |-> [sizes EXCEPT ![counting].id = id], at |-> counting]
      ELSE IF at # {} THEN [list |-> sizes, at |-> CHOOSE i \in at : \A j \in at : i <= j]
      ELSE [list |-> Append(sizes, [id |-> id, bits |-> 0]), at |-> Len(sizes) + 1]

\* An input item: each of its ReportCount fields takes a usage and its place
\* in the report; the fields that pass the filter are kept.
Field(k) ==
  [item |-> read, id |-> Top.id, counted |-> sizes[counting].id,
   size |-> Top.size, offset |-> sizes[counting].bits + (k - 1) * Top.size]

UsageOf(k) == IF k <= Len(usages) THEN usages[k] ELSE "none"

Fields(constant) ==
  IF constant THEN {} ELSE {Field(k) : k \in {n \in 1..Top.count : Kept(Top.page, UsageOf(n))}}

-----------------------------------------------------------------------------
(* The end of a parse.                                                     *)

\* Faulty: the items of a descriptor that is refused stay acquired.
ReleasedInfoOnly(t) == [t EXCEPT !["ReportInfo"] = @ - 1]

\* USB_FreeReportInfo
Released(t) == [t EXCEPT !["ReportInfo"] = @ - 1, !["ReportItem"] = @ - Cardinality(found)]

\* A main item forgets the usages.
Main == usages' = <<>>

\* The size infos and what is left of the collections are given back whatever
\* the result; the report info and its items when there is none or an error.
Finish(error) ==
  LET lists == [taken EXCEPT !["ReportSizeInfo"] = @ - Len(sizes),
                             !["CollectionPath"] = @ - Len(parents)]
      ok == error = "Successful" /\ found # {}
  IN  /\ phase' = IF ok THEN "kept" ELSE "refused"
      /\ taken' = IF ok THEN lists ELSE Released(lists)
      /\ found' = IF ok THEN found ELSE {}
      /\ UNCHANGED <<read, table, sizes, counting, usingIDs, usages, parents, current>>

-----------------------------------------------------------------------------
Init ==
  /\ phase = "none" /\ read = 0 /\ table = <<>> /\ sizes = <<>> /\ counting = 0
  /\ usingIDs = FALSE /\ usages = <<>> /\ parents = <<>> /\ current = 0 /\ found = {}
  /\ taken = [p \in Pools |-> 0]

\* generate_HID_report_info; a descriptor begins with a usage page and the
\* size and number of fields.  Bound: 4 bits, one field.
Begin(page) ==
  /\ phase \in {"none", "refused"}
  /\ phase' = "parsing" /\ read' = 0
  /\ table' = <<[page |-> page, size |-> 4, count |-> 1, id |-> 0]>>
  /\ sizes' = <<[id |-> 0, bits |-> 0]>> /\ counting' = 1 /\ usingIDs' = FALSE
  /\ usages' = <<>> /\ parents' = <<0>> /\ current' = 0 /\ found' = {}
  /\ taken' = [taken EXCEPT !["ReportSizeInfo"] = @ + 1, !["CollectionPath"] = @ + 1,
                            !["ReportInfo"] = @ + 1]

\* One more item of the descriptor.
Next1 == phase = "parsing" /\ read < MaxRead

Read == read' = read + 1 /\ UNCHANGED phase

Push ==
  /\ Next1
  /\ \/ /\ Len(table) < Depth
        /\ table' = Append(table, Top)
        /\ Read /\ UNCHANGED <<sizes, counting, usingIDs, usages, parents, current, found, taken>>
     \/ Len(table) = Depth /\ Finish("HIDStackOverflow")

\* The report ID comes back with the table; CurrReportIDInfo does not.
Pop ==
  /\ Next1
  /\ \/ /\ Len(table) > 1
        /\ table' = SubSeq(table, 1, Len(table) - 1)
        /\ Read /\ UNCHANGED <<sizes, counting, usingIDs, usages, parents, current, found, taken>>
     \/ Len(table) = 1 /\ Finish("HIDStackUnderflow")

\* USAGE_PAGE, REPORT_SIZE, REPORT_COUNT
Global(t) ==
  /\ Next1
  /\ table' = WithTop(t)
  /\ Read /\ UNCHANGED <<sizes, counting, usingIDs, usages, parents, current, found, taken>>

ReportId(id) ==
  /\ Next1
  /\ LET info == InfoOf(id)
     IN  /\ sizes' = info.list /\ counting' = info.at
         /\ taken' = [taken EXCEPT !["ReportSizeInfo"] = @ + Len(info.list) - Len(sizes)]
  /\ table' = WithTop([Top EXCEPT !.id = id])
  /\ usingIDs' = TRUE
  /\ Read /\ UNCHANGED <<usages, parents, current, found>>

Usage(u) ==
  /\ Next1
  /\ \/ /\ Len(usages) < MaxUsages
        /\ usages' = Append(usages, u)
        /\ Read /\ UNCHANGED <<table, sizes, counting, usingIDs, parents, current, found, taken>>
     \/ Len(usages) = MaxUsages /\ Finish("UsageListOverflow")

\* The first collection uses the structure there is; the next is appended at
\* the end of the list.
Collection ==
  /\ Next1
  /\ IF current = 0 THEN current' = 1 /\ UNCHANGED <<parents, taken>>
     ELSE /\ parents' = Append(parents, current) /\ current' = Len(parents) + 1
          /\ taken' = [taken EXCEPT !["CollectionPath"] = @ + 1]
  /\ Main /\ Read /\ UNCHANGED <<table, sizes, counting, usingIDs, found>>

\* Leaving a collection releases the one after its parent in the list.
EndCollection ==
  /\ Next1
  /\ \/ /\ current # 0
        /\ current' = parents[current]
        /\ IF current' = 0 THEN UNCHANGED <<parents, taken>>
           ELSE /\ parents' = SubSeq(parents, 1, current')
                /\ taken' = [taken EXCEPT !["CollectionPath"] = @ - 1]
        /\ Main /\ Read /\ UNCHANGED <<table, sizes, counting, usingIDs, found>>
     \/ current = 0 /\ Finish("UnexpectedEndCollection")

\* INPUT; an OUTPUT or FEATURE item counts its own bits and is not kept.
Input(constant) ==
  /\ Next1
  /\ found' = found \cup Fields(constant)
  /\ taken' = [taken EXCEPT !["ReportItem"] = @ + Cardinality(Fields(constant))]
  /\ sizes' = [sizes EXCEPT ![counting].bits = @ + Top.count * Top.size]
  /\ Main /\ Read /\ UNCHANGED <<table, counting, usingIDs, parents, current>>

End == phase = "parsing" /\ Finish("Successful")

\* free_HID_report_info
Free ==
  /\ phase = "kept"
  /\ phase' = "none" /\ taken' = Released(taken) /\ found' = {}
  /\ UNCHANGED <<read, table, sizes, counting, usingIDs, usages, parents, current>>

Next ==
  \/ \E p \in {"BUTTON", "DESKTOP"} : Begin(p)
  \/ \E p \in {"BUTTON", "DESKTOP"} : Global([Top EXCEPT !.page = p])
  \/ \E n \in {4, 8} : Global([Top EXCEPT !.size = n])
  \/ \E n \in {1, 2} : Global([Top EXCEPT !.count = n])
  \/ \E id \in Ids : ReportId(id)
  \/ \E u \in {"axis", "other"} : Usage(u)
  \/ \E c \in BOOLEAN : Input(c)
  \/ Push \/ Pop \/ Collection \/ EndCollection \/ End \/ Free

-----------------------------------------------------------------------------
(* Properties.                                                             *)

Stray(f) == f.counted # f.id /\ f.counted # 0

\* Two fields of one report never share bits, in whatever order the reports
\* and the items of a descriptor come.  Left out are fields counted in the
\* report that was current before a POP.
FieldsDisjoint ==
  \A f, g \in found :
    f # g /\ f.id = g.id /\ ~Stray(f) /\ ~Stray(g)
    => f.offset + f.size <= g.offset \/ g.offset + g.size <= f.offset

\* Whatever a descriptor contains and however its parse ends, all that is
\* still acquired afterwards is the report info kept, with its items.
PoolsBalance ==
  phase # "parsing" =>
    taken = [p \in Pools |-> CASE p = "ReportInfo" -> IF phase = "kept" THEN 1 ELSE 0
                               [] p = "ReportItem" -> Cardinality(found)
                               [] OTHER -> 0]
=============================================================================
