------------------------------ MODULE TuiProofs ------------------------------
(***************************************************************************)
(* Proofs about Tui, for every set of names and values, every table to     *)
(* start with and every way SQLite lists the rows. What the action         *)
(* properties need is ScreenInv: while a key is waited for, the row under  *)
(* the selection is the one drawn on the screen, although the selection is *)
(* an index and the list it points into is read again and again.           *)
(***************************************************************************)
EXTENDS Tui, SetInduction, SequenceTheorems

(* A list in the order of its values. *)
Sorted(s) == \A i, j \in DOMAIN s : i < j => s[i].value <= s[j].value

(* The rows that table t may hold. *)
Entries(t) == [key : Keys(t), value : Values]

(* Finitely many rows in each table. *)
Stocked(tables) ==
  /\ DOMAIN tables = Tables
  /\ \A t \in Tables :
       /\ DOMAIN tables[t] \subseteq Keys(t) /\ IsFiniteSet(DOMAIN tables[t])
       /\ tables[t] \in [DOMAIN tables[t] -> Values]

(* The lists on the screen and the selections in them. *)
Listed(lists) ==
  /\ DOMAIN lists = Tables
  /\ \A t \in Tables : lists[t] \in Seq(Entries(t))

Selections ==
  /\ DOMAIN selected = Tables
  /\ \A t \in Tables : selected[t] = None \/ selected[t] \in Nat \ {0}

(* What the open dialog holds. *)
DialogInv ==
  /\ phase \in {"event", "tail", "over"}
  /\ tab \in Tabs
  /\ mode \in {"Viewing", "ConfirmDelete"} \cup Forms
  /\ mode \in Forms => tab \in Tables /\ focus \in 0..(Fields - 1)
  /\ form \in [key : Names \cup {Empty}, value : Values \cup {Empty}]
  /\ mode \in Forms /\ tab = "Rules" => form.value \in Values
  /\ opened # None <=> mode = "Editing"
  /\ error => phase = "over"

(* While a key is waited for, the row under the selection is on the screen. *)
ScreenInv ==
  phase = "event" /\ HasRow => screen = SelectedRow.key

(* The inductive invariant of the terminal UI. *)
TuiIInv ==
  /\ Stocked(table) /\ nextId \in Nat \ {0}
  /\ Listed(shown) /\ Selections
  /\ DialogInv
  /\ ScreenInv

-----------------------------------------------------------------------------
(* Lists of rows. *)

(* A finite set of rows has one with the greatest value. *)
LEMMA GreatestValue ==
  ASSUME NEW S, IsFiniteSet(S), S # {}, \A x \in S : x.value \in Int
  PROVE  \E x \in S : \A y \in S : y.value <= x.value
  <1> DEFINE F == {T \in SUBSET S : T = {} \/ \E x \in T : \A y \in T : y.value <= x.value}
  <1>1. {} \in F
    OBVIOUS
  <1>2. ASSUME NEW T \in SUBSET S, NEW z \in S, T \in F PROVE T \cup {z} \in F
    <2>1. CASE T = {}
      BY <2>1
    <2>2. CASE T # {}
      <3>1. PICK x \in T : \A y \in T : y.value <= x.value
        BY <1>2, <2>2
      <3>2. \A y \in S : y.value \in Int
        OBVIOUS
      <3>3. x \in S /\ x.value \in Int /\ z.value \in Int
        BY <3>2
      <3>4. CASE z.value <= x.value
        BY <3>1, <3>4
      <3>5. CASE ~ (z.value <= x.value)
        <4>1. \A y \in T : y.value <= z.value
          BY <3>1, <3>2, <3>3, <3>5
        <4> QED
          BY <3>3, <4>1
      <3> QED
        BY <3>4, <3>5
    <2> QED
      BY <2>1, <2>2
  <1>3. S \in F
    <2> HIDE DEF F
    <2> QED
      BY <1>1, <1>2, FiniteInSet
  <1> QED
    BY <1>3

(* A finite set of rows can be listed in the order of their values. *)
LEMMA SortedExists ==
  ASSUME NEW S, IsFiniteSet(S), \A x \in S : x.value \in Int
  PROVE  \E s \in SetToSeqs(S) : Sorted(s)
  <1> DEFINE Inj(s, n) == \A i, j \in 1..n : i # j => s[i] # s[j]
             D == {n \in Nat : \A T \in SUBSET S :
                     IsFiniteSet(T) /\ Cardinality(T) = n =>
                       \E s \in [1..n -> T] : Inj(s, n) /\ Sorted(s)}
  <1>1. 0 \in D
    <2>1. ASSUME NEW T \in SUBSET S PROVE \E s \in [1..0 -> T] : Inj(s, 0) /\ Sorted(s)
      <3>1. [i \in 1..0 |-> 0] \in [1..0 -> T] /\ Inj([i \in 1..0 |-> 0], 0)
            /\ Sorted([i \in 1..0 |-> 0])
        BY DEF Sorted
      <3> QED
        BY <3>1
    <2> QED
      BY <2>1
  <1>2. ASSUME NEW n \in Nat, n \in D PROVE n + 1 \in D
    <2> SUFFICES ASSUME NEW T \in SUBSET S, IsFiniteSet(T), Cardinality(T) = n + 1
                 PROVE  \E s \in [1..(n + 1) -> T] : Inj(s, n + 1) /\ Sorted(s)
      BY <1>2
    <2>1. T # {}
      BY FS_EmptySet
    <2>2. PICK x \in T : \A y \in T : y.value <= x.value
      BY <2>1, GreatestValue
    <2>3. IsFiniteSet(T \ {x}) /\ Cardinality(T \ {x}) = n
      <3>1. /\ IsFiniteSet(T \ {x})
            /\ Cardinality(T \ {x}) = IF x \in T THEN Cardinality(T) - 1 ELSE Cardinality(T)
        BY FS_RemoveElement, Zenon
      <3> QED
        BY <3>1
    <2>4. PICK s \in [1..n -> T \ {x}] : Inj(s, n) /\ Sorted(s)
      BY <1>2, <2>3
    <2> DEFINE r == [i \in 1..(n + 1) |-> IF i = n + 1 THEN x ELSE s[i]]
    <2>5. /\ r \in [1..(n + 1) -> T] /\ r[n + 1] = x
          /\ \A i \in 1..n : r[i] = s[i] /\ r[i] # x /\ r[i] \in T /\ i \in 1..(n + 1)
      OBVIOUS
    <2>6. Inj(r, n + 1)
      <3> HIDE DEF r
      <3> QED
        BY <2>4, <2>5
    <2>7. Sorted(r)
      <3> SUFFICES ASSUME NEW i \in 1..(n + 1), NEW j \in 1..(n + 1), i < j
                   PROVE  r[i].value <= r[j].value
        BY DEF Sorted
      <3> HIDE DEF r
      <3>1. i \in 1..n
        OBVIOUS
      <3>2. CASE j = n + 1
        BY <2>2, <2>5, <3>1, <3>2
      <3>3. CASE j # n + 1
        <4>1. j \in 1..n
          BY <3>3
        <4>2. s[i].value <= s[j].value
          BY <2>4, <3>1, <4>1 DEF Sorted
        <4> QED
          BY <2>5, <3>1, <4>1, <4>2
      <3> QED
        BY <3>2, <3>3
    <2> HIDE DEF r
    <2> QED
      BY <2>5, <2>6, <2>7
  <1>3. Nat \subseteq D
    <2> HIDE DEF D
    <2> QED
      BY <1>1, <1>2, NatInSet
  <1>4. Cardinality(S) \in D
    BY <1>3, FS_CardinalityType
  <1> QED
    BY <1>4 DEF SetToSeqs

(* A listing has every row once. *)
LEMMA ListFacts ==
  ASSUME NEW S, IsFiniteSet(S), NEW s \in SetToSeqs(S)
  PROVE  s \in Seq(S) /\ Range(s) = S
  <1> DEFINE n == Cardinality(S)
  <1>1. n \in Nat
    BY FS_CardinalityType
  <1>2. s \in [1..n -> S] /\ \A i, j \in 1..n : i # j => s[i] # s[j]
    BY DEF SetToSeqs
  <1>3. s \in Seq(S)
    BY <1>1, <1>2, SeqDef
  <1>4. s \in Injection(1..n, S)
    BY <1>2 DEF Injection, IsInjective
  <1>5. Cardinality(1..n) = n
    BY <1>1, FS_Interval
  <1>6. s \in Surjection(1..n, S)
    BY <1>4, <1>5, FS_Injection
  <1>7. \A x \in S : \E i \in 1..n : s[i] = x
    BY <1>6 DEF Surjection
  <1> QED
    BY <1>2, <1>3, <1>7 DEF Range

(* A table has as many rows as keys. *)
LEMMA RowsFinite ==
  ASSUME NEW map, IsFiniteSet(DOMAIN map)
  PROVE  IsFiniteSet(RowsOf(map))
  <1> DEFINE f == [k \in DOMAIN map |-> [key |-> k, value |-> map[k]]]
  <1>1. f \in [DOMAIN map -> RowsOf(map)] /\ \A x \in RowsOf(map) : \E k \in DOMAIN map : f[k] = x
    BY DEF RowsOf
  <1>2. f \in Surjection(DOMAIN map, RowsOf(map))
    BY <1>1 DEF Surjection
  <1> QED
    BY <1>2, FS_Surjection

(* What ORDER BY and the order of insertion leave open is among the listings. *)
LEMMA ListingFacts ==
  ASSUME NEW tables, Stocked(tables), NEW t \in Tables, NEW list \in Listings(t, tables[t])
  PROVE  list \in Seq(Entries(t)) /\ Range(list) = RowsOf(tables[t])
  <1> DEFINE all == SetToSeqs(RowsOf(tables[t]))
  <1>1. IsFiniteSet(RowsOf(tables[t]))
    BY RowsFinite DEF Stocked
  <1>2. RowsOf(tables[t]) \subseteq Entries(t)
    BY DEF Stocked, RowsOf, Entries
  <1>3. \A x \in RowsOf(tables[t]) : x.value \in Int
    <2> SUFFICES ASSUME NEW x \in RowsOf(tables[t]) PROVE x.value \in Int
      OBVIOUS
    <2>1. x \in Entries(t)
      BY <1>2
    <2>2. x.value \in Values
      BY <2>1 DEF Entries
    <2>3. Values \subseteq Int
      BY ValueAssumption
    <2> HIDE DEF all
    <2> QED
      BY <2>2, <2>3, Zenon
  <1>4. \E s \in all : Sorted(s)
    BY <1>1, <1>3, SortedExists
  <1>5. list \in all
    <2> HIDE DEF all
    <2> DEFINE sorted == {s \in all : \A i, j \in DOMAIN s : i < j => s[i].value <= s[j].value}
    <2>1. sorted \subseteq all /\ \E s \in sorted : TRUE
      BY <1>4 DEF Sorted
    <2>2. list \in (IF t = "Rules" THEN sorted
                    ELSE IF t = "Tags" THEN {CHOOSE s \in sorted : TRUE}
                    ELSE {CHOOSE s \in all : TRUE})
      BY DEF Listings, all
    <2> HIDE DEF sorted
    <2>3. (CHOOSE s \in sorted : TRUE) \in sorted /\ (CHOOSE s \in all : TRUE) \in all
      BY <2>1
    <2> QED
      BY <2>1, <2>2, <2>3
  <1> HIDE DEF all
  <1>6. list \in Seq(RowsOf(tables[t])) /\ Range(list) = RowsOf(tables[t])
    BY <1>1, <1>5, ListFacts DEF all
  <1> QED
    BY <1>2, <1>6, SeqMonotonic

(* A part of a list is a list of rows of the same table. *)
LEMMA UnreadFacts ==
  ASSUME NEW tables, Stocked(tables), NEW t \in Tables, NEW list \in Unread(t, tables[t])
  PROVE  list \in Seq(Entries(t))
  <1>1. PICK s \in Listings(t, tables[t]) : list \in Prefixes(s)
    BY DEF Unread
  <1>2. s \in Seq(Entries(t))
    BY <1>1, ListingFacts
  <1>3. PICK n \in 0..Len(s) : list = SubSeq(s, 1, n)
    BY <1>1 DEF Prefixes
  <1>4. Len(s) \in Nat /\ \A i \in 1..Len(s) : s[i] \in Entries(t)
    BY <1>2, LenProperties, ElementOfSeq
  <1>5. n \in Int /\ \A i \in 1..n : s[i] \in Entries(t)
    BY <1>3, <1>4
  <1> HIDE DEF Entries
  <1> QED
    BY <1>3, <1>5, SubSeqProperties

(* A refresh reads every list from the tables, or a part of it. *)
LEMMA RefreshedFacts ==
  ASSUME NEW tables, Stocked(tables), NEW lists \in Refreshed(tables)
  PROVE  Listed(lists)
  <1>1. \A t \in Tables : lists[t] \in Listings(t, tables[t]) \cup Unread(t, tables[t])
    BY DEF Refreshed, Tables
  <1>2. DOMAIN lists = Tables
    BY DEF Refreshed
  <1>3. \A t \in Tables : lists[t] \in Seq(Entries(t))
    BY <1>1, ListingFacts, UnreadFacts
  <1> QED
    BY <1>2, <1>3 DEF Listed

-----------------------------------------------------------------------------
(* The tables. *)

(* INSERT OR REPLACE and UPDATE keep the tables finite. *)
LEMMA StockedWith ==
  ASSUME Stocked(table), NEW t \in Tables, NEW k \in Keys(t), NEW v \in Values,
         table' = [table EXCEPT ![t] = With(table[t], k, v)]
  PROVE  Stocked(table')
  <1> DEFINE map == With(table[t], k, v)
  <1>1. DOMAIN map = DOMAIN table[t] \cup {k} /\ map \in [DOMAIN map -> Values]
    BY DEF With, Stocked
  <1>2. IsFiniteSet(DOMAIN map) /\ DOMAIN map \subseteq Keys(t)
    BY <1>1, FS_AddElement DEF Stocked
  <1> HIDE DEF map
  <1>3. DOMAIN table' = Tables /\ \A u \in Tables : table'[u] = IF u = t THEN map ELSE table[u]
    BY DEF Stocked, map
  <1> QED
    BY <1>1, <1>2, <1>3 DEF Stocked

(* DELETE keeps the tables finite. *)
LEMMA StockedWithout ==
  ASSUME Stocked(table), NEW t \in Tables, NEW k,
         table' = [table EXCEPT ![t] = Without(table[t], k)]
  PROVE  Stocked(table')
  <1> DEFINE map == Without(table[t], k)
  <1>1. DOMAIN map = DOMAIN table[t] \ {k} /\ map \in [DOMAIN map -> Values]
    BY DEF Without, Stocked
  <1>2. IsFiniteSet(DOMAIN map) /\ DOMAIN map \subseteq Keys(t)
    BY <1>1, FS_RemoveElement DEF Stocked
  <1> HIDE DEF map
  <1>3. DOMAIN table' = Tables /\ \A u \in Tables : table'[u] = IF u = t THEN map ELSE table[u]
    BY DEF Stocked, map
  <1> QED
    BY <1>1, <1>2, <1>3 DEF Stocked

(* The row under the selection is one of its table. *)
LEMMA SelectedEntry ==
  ASSUME Listed(shown), Selections, HasRow
  PROVE  SelectedRow.key \in Keys(tab) /\ SelectedRow.value \in Values
  <1>1. tab \in Tables /\ shown[tab] \in Seq(Entries(tab)) /\ selected[tab] \in 1..Len(shown[tab])
    BY LenProperties DEF HasRow, Listed, Selections
  <1>2. SelectedRow \in Entries(tab)
    BY <1>1, ElementOfSeq DEF SelectedRow
  <1> QED
    BY <1>2 DEF Entries

-----------------------------------------------------------------------------
(* The steps, by what they leave alone. *)

(* Every table has a tab. *)
LEMMA TabFacts == Tables \subseteq Tabs /\ \A i \in 1..6 : Order[i] \in Tabs
  BY DEF Tables, Tabs, Order

(* The tab key goes round the tabs. *)
LEMMA NextTabIn == tab \in Tabs => NextTab \in Tabs
  <1> SUFFICES ASSUME tab \in Tabs PROVE NextTab \in Tabs
    OBVIOUS
  <1> DEFINE here == CHOOSE i \in DOMAIN Order : Order[i] = tab
  <1>1. DOMAIN Order = 1..6 /\ Len(Order) = 6
    BY DEF Order
  <1>2. here \in 1..6
    BY <1>1 DEF Tabs
  <1> HIDE DEF here
  <1>3. (here % 6) + 1 \in 1..6
    BY <1>2
  <1> QED
    BY <1>1, <1>3, TabFacts DEF NextTab, here

(* Keys that change neither a table nor a list. *)
LEMMA QuietKeys ==
  ASSUME TuiIInv,
         NoKey \/ SwitchTab \/ PressQuit \/ PressAdd \/ PressEdit \/ PressDelete \/ Cancel
         \/ MoveFocus \/ Type
  PROVE  TuiIInv'
  <1> USE DEF TuiIInv
  <1>1. UNCHANGED <<table, nextId, shown, selected>> /\ phase = "event" /\ phase' = "tail"
        /\ UNCHANGED error
    BY DEF NoKey, SwitchTab, PressQuit, PressAdd, PressEdit, PressDelete, Cancel, MoveFocus, Type,
           Key, world
  <1>2. Stocked(table)' /\ nextId' \in Nat \ {0} /\ Listed(shown)' /\ Selections' /\ ScreenInv'
    BY <1>1 DEF Selections, ScreenInv, Listed, Stocked
  <1>3. error' = FALSE \/ error' = error
    BY <1>1
  <1>4. ~ error
    BY <1>1 DEF DialogInv
  <1>5. DialogInv'
    <2> USE DEF DialogInv
    <2>1. CASE NoKey \/ PressQuit
      BY <1>1, <1>4, <2>1 DEF NoKey, PressQuit, Key, dialog, Fields
    <2>2. CASE SwitchTab
      <3>1. tab' \in Tabs
        BY <2>2, NextTabIn, TabFacts DEF SwitchTab, Tabs, Order
      <3> QED
        BY <1>1, <1>4, <2>2, <3>1 DEF SwitchTab, Key, dialog, Forms
    <2>3. CASE PressAdd
      BY <1>1, <1>4, <2>3, ValueAssumption DEF PressAdd, Key, Forms, Fields
    <2>4. CASE PressEdit
      <3>1. /\ SelectedRow.key \in Keys(tab) /\ SelectedRow.value \in Values
            /\ tab \in Tables
        BY <2>4, SelectedEntry DEF PressEdit, HasRow
      <3>2. opened' # None
        BY <2>4, <3>1, NoneAssumption DEF PressEdit
      <3>3. tab # "Rules" => SelectedRow.key \in Names
        BY <3>1 DEF Keys
      <3> HIDE DEF SelectedRow
      <3>4. form' \in [key : Names \cup {Empty}, value : Values \cup {Empty}]
            /\ form'.value \in Values
        BY <2>4, <3>1, <3>3 DEF PressEdit
      <3> QED
        BY <1>1, <1>4, <2>4, <3>1, <3>2, <3>4 DEF PressEdit, Key, Forms, Fields
    <2>5. CASE PressDelete
      BY <1>1, <1>4, <2>5 DEF PressDelete, Key, Forms
    <2>6. CASE Cancel
      BY <1>1, <1>4, <2>6 DEF Cancel, Key, Forms, BackToViewing, NoForm
    <2>7. CASE MoveFocus
      <3>1. focus \in 0..(Fields - 1) /\ Fields \in {3, 6}
        BY <2>7 DEF MoveFocus, Key, Fields
      <3>2. focus' \in 0..(Fields - 1)
        BY <2>7, <3>1 DEF MoveFocus, NextField
      <3> QED
        BY <1>1, <1>4, <2>7, <3>2 DEF MoveFocus, Key, Forms, Fields
    <2>8. CASE Type
      <3>1. mode \in Forms /\ tab \in Tables /\ UNCHANGED <<mode, opened, focus, tab>>
        BY <2>8 DEF Type, Key
      <3>2. /\ form' \in [key : Names \cup {Empty}, value : Values \cup {Empty}]
            /\ tab = "Rules" => form'.value \in Values
        <4>1. CASE tab # "Rules" /\ focus = 0
                   /\ \E k \in Names \cup {Empty} : form' = [form EXCEPT !.key = k]
          BY <3>1, <4>1
        <4>2. CASE \E v \in Values \cup (IF tab = "Rules" THEN {} ELSE {Empty}) :
                     form' = [form EXCEPT !.value = v]
          BY <3>1, <4>2
        <4> QED
          BY <2>8, <4>1, <4>2 DEF Type
      <3> QED
        BY <1>1, <1>4, <3>1, <3>2 DEF Fields
    <2> QED
      BY <2>1, <2>2, <2>3, <2>4, <2>5, <2>6, <2>7, <2>8
  <1> QED
    BY <1>2, <1>5

(* Keys that only change what is selected or ask for a refresh. *)
LEMMA ListKeys ==
  ASSUME TuiIInv, PressRefresh \/ (\E delta \in {-15, -1, 1, 15} : Move(delta))
  PROVE  TuiIInv'
  <1> USE DEF TuiIInv
  <1>1. /\ UNCHANGED <<table, nextId, dialog, tab, error>> /\ phase = "event" /\ phase' = "tail"
    BY DEF PressRefresh, Move, Key, world
  <1>2. Stocked(table)' /\ nextId' \in Nat \ {0} /\ ScreenInv' /\ DialogInv'
    BY <1>1 DEF Stocked, ScreenInv, DialogInv, dialog, Fields
  <1>3. Listed(shown') /\ Selections'
    <2>1. CASE PressRefresh
      BY <2>1, RefreshedFacts DEF PressRefresh, Selections
    <2>2. ASSUME NEW delta \in {-15, -1, 1, 15}, Move(delta) PROVE Listed(shown') /\ Selections'
      <3> DEFINE n == Len(shown[tab])
                 next == selected[tab] + delta
                 new == IF selected[tab] = None \/ next < 1 THEN 1 ELSE IF next > n THEN n ELSE next
      <3>1. tab \in Tables /\ n > 0 /\ UNCHANGED shown
            /\ selected' = [selected EXCEPT ![tab] = new]
        BY <2>2 DEF Move
      <3>2. n \in Nat
        BY <3>1, LenProperties DEF Listed
      <3>3. new \in Nat \ {0}
        BY <3>1, <3>2 DEF Selections
      <3> HIDE DEF new
      <3> QED
        BY <3>1, <3>3 DEF Selections, Listed
    <2> QED
      BY <2>1, <2>2
  <1> QED
    BY <1>2, <1>3

(* What submit_form stores keeps the table a table. *)
LEMMA StockedSubmitted ==
  ASSUME TuiIInv, Submit PROVE Stocked(table')
  <1> USE DEF TuiIInv
  <1>1. tab \in Tables /\ mode \in Forms /\ table' = [table EXCEPT ![tab] = Submitted]
    BY DEF Submit, Key, Store, DialogInv
  <1>2. CASE Submitted = table[tab]
    <2>1. DOMAIN table' = Tables /\ \A u \in Tables : table'[u] = table[u]
      BY <1>1, <1>2 DEF Stocked
    <2> QED
      BY <2>1 DEF Stocked
  <1>3. CASE tab = "Rules" /\ mode = "Adding" /\ Submitted = With(table[tab], nextId, form.value)
    <2>1. nextId \in Keys(tab) /\ form.value \in Values
      BY <1>1, <1>3, StoredAssumption DEF Submit, Keys, DialogInv
    <2> QED
      BY <1>1, <1>3, <2>1, StockedWith
  <1>4. CASE /\ tab = "Rules" /\ opened \in DOMAIN table[tab]
             /\ Submitted = With(table[tab], opened, form.value)
    <2>1. opened \in Keys(tab) /\ form.value \in Values
      BY <1>1, <1>4 DEF Stocked, DialogInv
    <2> QED
      BY <1>1, <1>4, <2>1, StockedWith
  <1>5. CASE /\ tab # "Rules" /\ Empty \notin {form.key, form.value}
             /\ Submitted = With(table[tab], Normal[tab][form.key], form.value)
    <2>1. form.key \in Names /\ form.value \in Values
      BY <1>5 DEF DialogInv
    <2>2. Normal[tab][form.key] \in Keys(tab)
      BY <1>1, <1>5, <2>1, NormalAssumption DEF Keys
    <2> QED
      BY <1>1, <1>5, <2>1, <2>2, StockedWith
  <1> QED
    BY <1>1, <1>2, <1>3, <1>4, <1>5 DEF Submitted, EditedRule

(* Keys that may change a table; the lists are read again. *)
LEMMA ChangingKeys ==
  ASSUME TuiIInv, ConfirmRow \/ ConfirmClear \/ Submit
  PROVE  TuiIInv'
  <1> USE DEF TuiIInv
  <1>1. /\ phase = "event" /\ phase' = "tail" /\ UNCHANGED <<tab, selected, error>>
        /\ BackToViewing
    BY DEF ConfirmRow, ConfirmClear, Submit, Key
  <1>2. ScreenInv' /\ DialogInv'
    BY <1>1 DEF ScreenInv, DialogInv, BackToViewing, NoForm, Forms
  <1>3. Selections'
    BY <1>1 DEF Selections
  <1>4. Stocked(table') /\ shown' \in Refreshed(table') /\ nextId' \in Nat \ {0}
    <2>1. CASE ConfirmRow
      <3>1. CASE UNCHANGED <<table, changes>>
        BY <2>1, <3>1 DEF ConfirmRow
      <3>2. ASSUME NEW k \in DeletedRows, Store(tab, Without(table[tab], k))
            PROVE  Stocked(table')
        BY <2>1, <3>2, StockedWithout DEF ConfirmRow, Store
      <3> QED
        BY <2>1, <3>1, <3>2 DEF ConfirmRow
    <2>2. CASE ConfirmClear
      BY <2>2 DEF ConfirmClear, world
    <2>3. CASE Submit
      BY <2>3, StockedSubmitted DEF Submit
    <2> QED
      BY <2>1, <2>2, <2>3
  <1>5. Listed(shown')
    BY <1>4, RefreshedFacts
  <1> QED
    BY <1>2, <1>3, <1>4, <1>5

(* The rest of a turn of the event loop, and the draw of the next one. *)
LEMMA Turns ==
  ASSUME TuiIInv, Fail \/ NotPressed \/ TurnQuit \/ TurnAgain \/ TurnRefresh
  PROVE  TuiIInv'
  <1> USE DEF TuiIInv
  <1>1. CASE Fail \/ TurnQuit
    <2>1. UNCHANGED <<table, nextId, dialog, tab, shown, selected, screen>> /\ phase' = "over"
      BY <1>1 DEF Fail, TurnQuit, world
    <2> QED
      BY <2>1 DEF Stocked, Listed, Selections, DialogInv, ScreenInv, dialog, Fields
  <1>2. ASSUME NotPressed \/ \E lists : NextTurn(lists) /\ \A list \in lists : Listed(list)
        PROVE  TuiIInv'
    <2>1. /\ UNCHANGED <<table, nextId, dialog, tab, error>> /\ phase # "over" /\ phase' = "event"
          /\ Listed(shown') /\ Draw
      BY <1>2 DEF NotPressed, NextTurn, world
    <2>2. Stocked(table)' /\ nextId' \in Nat \ {0} /\ DialogInv'
      BY <2>1 DEF Stocked, DialogInv, dialog, Fields
    <2>3. CASE tab \notin Tables
      <3>1. selected' = selected /\ tab' = tab
        BY <2>1, <2>3 DEF Draw
      <3> QED
        BY <2>1, <2>2, <2>3, <3>1 DEF Selections, ScreenInv, HasRow
    <2>4. CASE tab \in Tables
      <3> DEFINE n == Len(shown'[tab])
                 new == Clamp(selected[tab], n)
      <3>1. n \in Nat
        BY <2>1, <2>4, LenProperties DEF Listed
      <3>2. selected' = [selected EXCEPT ![tab] = new]
        BY <2>1, <2>4 DEF Draw
      <3>3. new = None \/ new \in Nat \ {0}
        BY <2>4, <3>1 DEF Selections, Clamp
      <3> HIDE DEF new, n
      <3>4. Selections'
        BY <2>4, <3>2, <3>3 DEF Selections
      <3>5. selected'[tab'] = new /\ tab' = tab
        BY <2>1, <2>4, <3>2 DEF Selections
      <3>6. new # None => screen' = shown'[tab][new].key
        BY <2>1, <2>4, <3>5 DEF Draw
      <3>7. ScreenInv'
        BY <3>5, <3>6 DEF ScreenInv, HasRow, SelectedRow
      <3> QED
        BY <2>1, <2>2, <3>4, <3>7
    <2> QED
      BY <2>3, <2>4
  <1>3. CASE TurnAgain
    BY <1>2, <1>3 DEF TurnAgain
  <1>4. CASE TurnRefresh
    BY <1>2, <1>4, RefreshedFacts DEF TurnRefresh
  <1>5. CASE NotPressed
    BY <1>2, <1>5
  <1> QED
    BY <1>1, <1>3, <1>4, <1>5

(* What the API and other processes do to the tables. *)
LEMMA Others ==
  ASSUME TuiIInv, NEW t \in Tables, NEW k \in Keys(t),
         OtherDelete(t, k) \/ \E v \in Values : OtherPut(t, k, v)
  PROVE  TuiIInv'
  <1> USE DEF TuiIInv
  <1>1. UNCHANGED ui
    BY DEF OtherDelete, OtherPut
  <1>2. Listed(shown)' /\ Selections' /\ DialogInv' /\ ScreenInv'
    BY <1>1 DEF ui, dialog, Listed, Selections, DialogInv, ScreenInv, HasRow, SelectedRow, Fields
  <1>3. Stocked(table') /\ nextId' \in Nat \ {0}
    BY StockedWith, StockedWithout DEF OtherDelete, OtherPut, Store
  <1> QED
    BY <1>2, <1>3

(* It holds whatever keys are pressed and whatever others change meanwhile. *)
LEMMA TuiInvariant == Spec => []TuiIInv
  <1>1. Init => TuiIInv
    <2> SUFFICES ASSUME Init PROVE TuiIInv
      OBVIOUS
    <2>1. Stocked(table) /\ shown \in Refreshed(table)
      BY StoredAssumption DEF Init, Stocked
    <2>2. nextId \in Nat \ {0}
      <3>1. Cardinality(DOMAIN Stored["Rules"]) \in Nat
        BY StoredAssumption, FS_CardinalityType DEF Tables
      <3> QED
        BY <3>1 DEF Init
    <2>3. Listed(shown) /\ Selections /\ DialogInv /\ ScreenInv
      BY <2>1, RefreshedFacts, TabFacts DEF Init, Selections, DialogInv, ScreenInv, NoForm, Forms, Tables
    <2> QED
      BY <2>1, <2>2, <2>3 DEF TuiIInv
  <1>2. TuiIInv /\ [Next]_vars => TuiIInv'
    <2> SUFFICES ASSUME TuiIInv, [Next]_vars PROVE TuiIInv'
      OBVIOUS
    <2>1. CASE UNCHANGED vars
      BY <2>1 DEF vars, world, dialog, TuiIInv, Stocked, Listed, Selections, DialogInv, ScreenInv,
                  HasRow, SelectedRow, Fields
    <2>2. CASE Next
      BY <2>2, QuietKeys, ListKeys, ChangingKeys, Turns, Others
      DEF Next, ViewingKey, DialogKey, FormKey, EndTurn
    <2> QED
      BY <2>1, <2>2
  <1> QED
    BY <1>1, <1>2, PTL DEF Spec

(* No index of run(), init_edit_mode or submit_form is out of range: a form is
   open only on a tab that has one and with its focus on one of its fields, and
   something is opened exactly while it is edited (tui_app.rs). *)
THEOREM TuiTypeCorrect == Spec => []TypeOK
  <1>1. ASSUME TuiIInv PROVE TypeOK
    <2>1. \A t \in Tables : Range(table[t]) \subseteq Values
      BY <1>1 DEF TuiIInv, Stocked, Range
    <2> QED
      BY <1>1, <2>1 DEF TypeOK, TuiIInv, Stocked, Listed, Selections, DialogInv, Entries
  <1> QED
    BY <1>1, TuiInvariant, PTL

-----------------------------------------------------------------------------
(* What a key changes in the tables. *)

(* Only the confirmation of a dialog and the button of a form change a table;
   a list that is not read again is the one that was. *)
LEMMA WhoChanges ==
  ASSUME TuiIInv, [Next]_vars, phase = "event", phase' = "tail", ~ UNCHANGED table
  PROVE  ConfirmRow \/ Submit
  <1>1. Next
    BY DEF vars
  <1>2. ASSUME NEW t \in Tables, NEW k \in Keys(t),
               OtherDelete(t, k) \/ \E v \in Values : OtherPut(t, k, v)
        PROVE  FALSE
    BY <1>2 DEF OtherDelete, OtherPut, ui
  <1> QED
    BY <1>1, <1>2
    DEF Next, ViewingKey, DialogKey, FormKey, EndTurn, NotPressed, NoKey, SwitchTab, PressQuit, PressRefresh,
        PressAdd, PressEdit, PressDelete, Move, ConfirmClear, Cancel, MoveFocus, Type, Fail, TurnQuit,
        TurnAgain, TurnRefresh, NextTurn, world

(* map has the rows of table t but for that of key k. *)
SameBut(t, map, k) ==
  /\ \A x \in Keys(t) : x # k => (x \in DOMAIN table[t] <=> x \in DOMAIN map)
  /\ \A x \in DOMAIN table[t] : x # k => map[x] = table[t][x]

(* A statement on one row of one table touches no other. *)
LEMMA TouchedFacts ==
  ASSUME Stocked(table), NEW t \in Tables, NEW map, table' = [table EXCEPT ![t] = map],
         NEW k, SameBut(t, map, k)
  PROVE  \A u \in Tables : Touched(u) \subseteq (IF u = t THEN {k} ELSE {})
  <1>1. \A u \in Tables : table'[u] = IF u = t THEN map ELSE table[u]
    BY DEF Stocked
  <1> QED
    BY <1>1 DEF Touched, SameBut

(* A table left alone is not touched. *)
LEMMA NothingTouched ==
  ASSUME UNCHANGED table, NEW u PROVE Touched(u) = {}
  BY DEF Touched

(* Confirming the deletion of a row deletes the row that is highlighted on
   the screen, or nothing, and touches no other row, even when another
   process has added or removed rows since the screen was drawn
   (tui_app.rs:457, delete_selected). *)
THEOREM DeletesHighlighted == Spec => OnlyHighlightedDeleted
  <1>1. ASSUME TuiIInv, [Next]_vars, phase = "event", phase' = "tail", mode = "ConfirmDelete"
        PROVE  \A t \in Tables : Touched(t) \subseteq (IF t = tab THEN {screen} ELSE {})
    <2>1. CASE UNCHANGED table
      BY <2>1, NothingTouched
    <2>2. CASE ~ UNCHANGED table
      <3>1. ConfirmRow
        BY <1>1, <2>2, WhoChanges DEF Submit, Key, Forms
      <3>2. tab \in Tables /\ HasRow /\ screen = SelectedRow.key
        BY <1>1, <2>2, <3>1 DEF ConfirmRow, DeletedRows, TuiIInv, ScreenInv
      <3>3. table' = [table EXCEPT ![tab] = Without(table[tab], screen)]
        BY <3>1, <3>2 DEF ConfirmRow, DeletedRows, Store
      <3> DEFINE map == Without(table[tab], screen)
      <3>4. DOMAIN map = DOMAIN table[tab] \ {screen}
            /\ \A x \in DOMAIN table[tab] : x # screen => map[x] = table[tab][x]
        BY DEF Without
      <3> HIDE DEF map
      <3>5. SameBut(tab, map, screen)
        BY <3>4 DEF SameBut
      <3>6. table' = [table EXCEPT ![tab] = map] /\ Stocked(table)
        BY <1>1, <3>3 DEF map, TuiIInv
      <3> QED
        BY <3>2, <3>5, <3>6, TouchedFacts
    <2> QED
      BY <2>1, <2>2
  <1>2. TuiIInv /\ [Next]_vars =>
          [KeyStep /\ mode = "ConfirmDelete" =>
             \A t \in Tables : Touched(t) \subseteq (IF t = tab THEN {screen} ELSE {})]_vars
    BY <1>1 DEF KeyStep
  <1> QED
    BY <1>2, TuiInvariant, PTL DEF Spec, OnlyHighlightedDeleted

(* Submitting an edited rule changes the rule the form was opened on, or
   nothing, and neither adds nor removes a rule, wherever the selection
   points by then (tui_app.rs:529, submit_form). *)
THEOREM EditsOpened == Spec => OnlyOpenedRuleEdited
  <1>1. ASSUME TuiIInv, [Next]_vars, phase = "event", phase' = "tail", mode = "Editing", tab = "Rules"
        PROVE  /\ \A t \in Tables : Touched(t) \subseteq (IF t = tab THEN {opened} ELSE {})
               /\ DOMAIN table'["Rules"] = DOMAIN table["Rules"]
    <2>1. CASE UNCHANGED table
      BY <2>1, NothingTouched
    <2>2. CASE ~ UNCHANGED table
      <3>1. Submit /\ "Rules" \in Tables
        BY <1>1, <2>2, WhoChanges DEF ConfirmRow, Key, Tables
      <3>2. table' = [table EXCEPT ![tab] = Submitted]
        BY <3>1 DEF Submit, Store
      <3>3. CASE opened \notin DOMAIN table[tab]
        <4>1. Submitted = table[tab]
          BY <1>1, <3>3 DEF Submitted, EditedRule
        <4>2. SameBut(tab, table[tab], opened)
          BY DEF SameBut
        <4>3. table' = [table EXCEPT ![tab] = table[tab]] /\ Stocked(table) /\ tab \in Tables
          BY <1>1, <3>1, <3>2, <4>1 DEF TuiIInv
        <4>4. \A t \in Tables : Touched(t) \subseteq (IF t = tab THEN {opened} ELSE {})
          BY <4>2, <4>3, TouchedFacts
        <4>5. table'["Rules"] = table["Rules"]
          BY <1>1, <4>3 DEF Stocked
        <4> QED
          BY <1>1, <4>4, <4>5
      <3>4. CASE opened \in DOMAIN table[tab]
        <4> DEFINE map == With(table[tab], opened, form.value)
        <4>1. Submitted = map
          BY <1>1, <3>4 DEF Submitted, EditedRule
        <4>2. DOMAIN map = DOMAIN table[tab] /\ \A x \in DOMAIN table[tab] : x # opened => map[x] = table[tab][x]
          BY <3>4 DEF With
        <4> HIDE DEF map
        <4>3. \A t \in Tables : Touched(t) \subseteq (IF t = tab THEN {opened} ELSE {})
          <5>1. SameBut(tab, map, opened)
            BY <4>2 DEF SameBut
          <5>2. table' = [table EXCEPT ![tab] = map] /\ Stocked(table) /\ tab \in Tables
            BY <1>1, <3>1, <3>2, <4>1 DEF TuiIInv
          <5> QED
            BY <5>1, <5>2, TouchedFacts
        <4>4. table'["Rules"] = map
          BY <1>1, <3>1, <3>2, <4>1 DEF TuiIInv, Stocked
        <4> QED
          BY <1>1, <4>2, <4>3, <4>4
      <3> QED
        BY <3>3, <3>4
    <2> QED
      BY <2>1, <2>2
  <1>2. TuiIInv /\ [Next]_vars =>
          [KeyStep /\ mode = "Editing" /\ tab = "Rules" =>
             /\ \A t \in Tables : Touched(t) \subseteq (IF t = tab THEN {opened} ELSE {})
             /\ DOMAIN table'["Rules"] = DOMAIN table["Rules"]]_vars
    BY <1>1 DEF KeyStep
  <1> QED
    BY <1>2, TuiInvariant, PTL DEF Spec, OnlyOpenedRuleEdited
=============================================================================
