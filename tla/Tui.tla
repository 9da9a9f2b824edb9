--------------------------------- MODULE Tui ---------------------------------
(***************************************************************************)
(* The terminal user interface (App in src/src/tui_app.rs): six tabs, a    *)
(* selection in each, a confirmation dialog and the forms that add and     *)
(* edit rules, tags and usage limits, while others change the same tables: *)
(* the API of the same process, and for tags and limits, which are read    *)
(* from the database, another process too.                                 *)
(*                                                                         *)
(* One turn of the loop in run() draws the screen, reads at most one key,  *)
(* and then ends the loop or, when five seconds have passed, refreshes the *)
(* copies of the tables that are on the screen.  The model takes the end   *)
(* of a turn and the next drawing as one step, since a drawing reads only  *)
(* what belongs to the TUI.  A call of the policy or of the limit manager  *)
(* is one step: PolicyStore shows that its caller finds its own change in  *)
(* the cache when the call returns.                                        *)
(*                                                                         *)
(* Rows are keys with values: the id of a rule, the sld of a tag, the tag  *)
(* of a limit; a value is a number, the priority of a rule.                *)
(* Indices count from 1.                                                   *)
(*                                                                         *)
(* The tabs of the access log, the error log and the search history only   *)
(* scroll and clear lists that nothing else here depends on: the lists and *)
(* the selections in them are left out.                                    *)
(***************************************************************************)
EXTENDS Integers, SequencesExt

CONSTANTS
  Names,       \* what may stand in a key field, Empty aside
  Values,      \* what may stand in the other fields
  DefaultValue,\* what a new form suggests
  Normal,      \* Normal[t][k]: name k trimmed, and for tags in lower case
  Stored,      \* Stored[t]: the rows of table t when the TUI starts
  None,        \* Option::None
  Empty,       \* an empty field, or minutes that are no positive number
  Faults,      \* "db_error": changes may fail; "read_error": reads may
  MaxId,       \* bound: ids of rules
  MaxChanges,  \* bound: changes of the tables
  MaxOthers    \* bound: the last of them that others may make

Tables == {"Rules", "Tags", "Limits"}
Order == <<"Rules", "Logs", "Tags", "Limits", "Errors", "Search">>
Tabs == {Order[i] : i \in DOMAIN Order}

ASSUME ValueAssumption ==
  Values \subseteq Nat /\ DefaultValue \in Values /\ Empty \notin Values
ASSUME NormalAssumption == \A t \in Tables : Normal[t] \in [Names -> Names]

Keys(t) == IF t = "Rules" THEN 1..MaxId ELSE Names

ASSUME NoneAssumption == \A t \in Tables : None \notin Keys(t)

ASSUME StoredAssumption ==
  /\ MaxId \in Nat /\ MaxChanges \in Nat /\ MaxOthers \in Nat
  /\ DOMAIN Stored = Tables
  /\ \A t \in Tables :
       /\ DOMAIN Stored[t] \subseteq Keys(t) /\ IsFiniteSet(DOMAIN Stored[t])
       /\ Stored[t] \in [DOMAIN Stored[t] -> Values]

VARIABLES
  table,       \* table[t]: key -> value, what a refresh reads (the rules'
               \* cache, the tables of tags and limits)
  nextId,      \* next id of a rule
  changes,     \* bound: changes so far
  phase,       \* of the loop: "event" (drawn), "tail" or "over"
  tab,         \* active_tab
  mode,        \* "Viewing", "ConfirmDelete", "Adding", "Editing": the tab
               \* tells which of the forms it is
  opened,      \* the key inside EditingRule, EditingTag, EditingLimit
  form,        \* form_fields: [key, value]
  focus,       \* form_focus, from 0
  quit,        \* should_quit
  shown,       \* shown[t]: rules, tags, limits: rows as last refreshed
  selected,    \* selected[t]: the selection of each tab, or None
  error,       \* run() returned an error
  screen       \* history: the row highlighted when a key is waited for

world == <<table, nextId, changes>>
dialog == <<mode, opened, form, focus>>
vars == <<world, dialog, phase, tab, quit, shown, selected, error, screen>>

-----------------------------------------------------------------------------
RowsOf(map) == {[key |-> k, value |-> map[k]] : k \in DOMAIN map}

(* ORDER BY priority: rules of equal priority come in any order.  ORDER BY tag,
   sld, and the order of insertion: one order, which the model leaves open. *)
Listings(t, map) ==
  LET all == SetToSeqs(RowsOf(map))
      sorted == {s \in all : \A i, j \in DOMAIN s : i < j => s[i].value <= s[j].value} IN
  IF t = "Rules" THEN sorted
  ELSE IF t = "Tags" THEN {CHOOSE s \in sorted : TRUE}
  ELSE {CHOOSE s \in all : TRUE}

(* What is shown of a list that could not be read to its end: the rows before the
   one that failed, none if the statement did (unwrap_or_default).  The rules
   come from the cache, which is always there. *)
Unread(t, map) ==
  IF "read_error" \in Faults /\ t # "Rules"
  THEN UNION {Prefixes(s) : s \in Listings(t, map)} ELSE {}

(* refresh_data, called with the tables as they are now in "tables". *)
Refreshed(tables) ==
  LET lists(t) == Listings(t, tables[t]) \cup Unread(t, tables[t]) IN
  {[t \in Tables |-> IF t = "Rules" THEN r ELSE IF t = "Tags" THEN s ELSE l] :
     r \in lists("Rules"), s \in lists("Tags"), l \in lists("Limits")}

(* The row get(i) finds for the selection of the active tab. *)
HasRow ==
  tab \in Tables /\ selected[tab] # None /\ selected[tab] <= Len(shown[tab])
SelectedRow == shown[tab][selected[tab]]

NoForm == [key |-> Empty, value |-> Empty]
Fields == IF tab = "Rules" THEN 6 ELSE 3

(* terminal.draw: the widget of the active tab keeps its selection inside the
   list (ratatui: None for an empty list, the last row if it is beyond). *)
Clamp(i, n) == IF n = 0 THEN None ELSE IF i # None /\ i > n THEN n ELSE i

Draw ==
  /\ selected' = IF tab \notin Tables THEN selected
                 ELSE [selected EXCEPT ![tab] = Clamp(@, Len(shown'[tab]))]
  /\ screen' = IF tab \in Tables /\ selected'[tab] # None
               THEN shown'[tab][selected'[tab]].key ELSE None

-----------------------------------------------------------------------------
(* The first drawing is still to come. *)
Init ==
  /\ table = Stored
  /\ nextId = Cardinality(DOMAIN Stored["Rules"]) + 1
  /\ changes = 0
  /\ phase = "tail"
  /\ tab = "Rules"
  /\ mode = "Viewing" /\ opened = None /\ form = NoForm /\ focus = 0
  /\ quit = FALSE
  /\ shown \in Refreshed(Stored)
  /\ selected = [t \in Tables |-> 1]
  /\ error = FALSE
  /\ screen = None

-----------------------------------------------------------------------------
(* An event that is no press of a key: the loop starts anew, past the test of
   should_quit and the refresh. *)
NotPressed ==
  /\ phase = "event"
  /\ UNCHANGED <<world, dialog, phase, tab, quit, shown, error>>
  /\ Draw

(* No event within the tick, or one that means nothing. *)
NoKey ==
  /\ phase = "event"
  /\ phase' = "tail"
  /\ screen' = None
  /\ UNCHANGED <<world, dialog, tab, quit, shown, selected, error>>

(* A key is read in the given mode. *)
Key(modes) ==
  /\ phase = "event"
  /\ mode \in modes
  /\ phase' = "tail"
  /\ screen' = None
  /\ UNCHANGED error

-----------------------------------------------------------------------------
(* Keys while viewing. *)

NextTab == Order[((CHOOSE i \in DOMAIN Order : Order[i] = tab) % Len(Order)) + 1]

(* 'p', 'l', 't', 'u', 's' and Tab: no letter leads to the search history. *)
SwitchTab ==
  /\ Key({"Viewing"})
  /\ tab' \in {"Rules", "Logs", "Tags", "Limits", "Errors", NextTab}
  /\ UNCHANGED <<world, dialog, quit, shown, selected>>

PressQuit ==
  /\ Key({"Viewing"})
  /\ quit' = TRUE
  /\ UNCHANGED <<world, dialog, tab, shown, selected>>

PressRefresh ==
  /\ Key({"Viewing"})
  /\ shown' \in Refreshed(table)
  /\ UNCHANGED <<world, dialog, tab, quit, selected>>

(* init_add_mode: nothing opens on the other tabs. *)
PressAdd ==
  /\ Key({"Viewing"})
  /\ tab \in Tables
  /\ mode' = "Adding"
  /\ opened' = None
  /\ form' = [key |-> Empty, value |-> IF tab = "Tags" THEN Empty ELSE DefaultValue]
  /\ focus' = 0
  /\ UNCHANGED <<world, tab, quit, shown, selected>>

(* init_edit_mode: a form for the selected row, if there is one. *)
PressEdit ==
  /\ Key({"Viewing"})
  /\ HasRow
  /\ mode' = "Editing"
  /\ opened' = SelectedRow.key
  /\ form' = [key |-> IF tab = "Rules" THEN Empty ELSE SelectedRow.key,
              value |-> SelectedRow.value]
  /\ focus' = 0
  /\ UNCHANGED <<world, tab, quit, shown, selected>>

PressDelete ==
  /\ Key({"Viewing"})
  /\ mode' = "ConfirmDelete"
  /\ UNCHANGED <<world, opened, form, focus, tab, quit, shown, selected>>

(* move_selection, by one row or by fifteen. *)
Move(delta) ==
  LET n == Len(shown[tab])
      next == selected[tab] + delta IN
  /\ Key({"Viewing"})
  /\ tab \in Tables
  /\ n > 0
  /\ selected' = [selected EXCEPT ![tab] =
       IF @ = None \/ next < 1 THEN 1 ELSE IF next > n THEN n ELSE next]
  /\ UNCHANGED <<world, dialog, tab, quit, shown>>

-----------------------------------------------------------------------------
(* The tables. *)

With(map, k, v) == [x \in DOMAIN map \cup {k} |-> IF x = k THEN v ELSE map[x]]
Without(map, k) == [x \in DOMAIN map \ {k} |-> map[x]]

(* A statement ran and table t is now "map". *)
Store(t, map) ==
  /\ changes < MaxChanges
  /\ changes' = changes + 1
  /\ table' = [table EXCEPT ![t] = map]

BackToViewing ==
  /\ mode' = "Viewing"
  /\ opened' = None
  /\ form' = NoForm
  /\ focus' = 0

-----------------------------------------------------------------------------
(* Keys in the confirmation dialog. *)

(* Mutant: the list is refreshed before the row is looked up. *)
DeletedRows_Refreshed ==
  IF HasRow
  THEN {s[tab][selected[tab]].key :
          s \in {r \in Refreshed(table) : selected[tab] <= Len(r[tab])}}
  ELSE {}

(* The row is looked up by the selection when the dialog is confirmed. *)
DeletedRows == IF HasRow THEN {SelectedRow.key} ELSE {}

(* delete_selected on a table, then refresh_data. *)
ConfirmRow ==
  /\ Key({"ConfirmDelete"})
  /\ tab \in Tables
  /\ IF DeletedRows = {} THEN UNCHANGED <<table, changes>>
     ELSE \E k \in DeletedRows : Store(tab, Without(table[tab], k))
  /\ shown' \in Refreshed(table')
  /\ BackToViewing
  /\ UNCHANGED <<nextId, tab, quit, selected>>

(* The error log or the search history is cleared; on the tab of the access log
   nothing happens. *)
ConfirmClear ==
  /\ Key({"ConfirmDelete"})
  /\ tab \notin Tables
  /\ shown' \in Refreshed(table)
  /\ BackToViewing
  /\ UNCHANGED <<world, tab, quit, selected>>

(* 'n' or Esc, and Esc in a form: the fields are left behind, unread. *)
Cancel ==
  /\ Key({"ConfirmDelete", "Adding", "Editing"})
  /\ BackToViewing
  /\ UNCHANGED <<world, tab, quit, shown, selected>>

-----------------------------------------------------------------------------
(* Keys in a form; the last field is the button. *)
Forms == {"Adding", "Editing"}

(* Mutant: the focus runs on past the button. *)
NextField_NoWrap == focus + 1

NextField == (focus + 1) % Fields

(* Tab, Down, Enter on a field; Up. *)
MoveFocus ==
  /\ Key(Forms)
  /\ focus' \in {NextField, IF focus = 0 THEN Fields - 1 ELSE focus - 1}
  /\ UNCHANGED <<world, mode, opened, form, tab, quit, shown, selected>>

(* Characters and Backspace: in the end, any text in the focused field.  What
   stands in the fields of a rule is read in some way, whatever it is. *)
Type ==
  /\ Key(Forms)
  /\ focus < Fields - 1
  /\ \/ /\ tab # "Rules" /\ focus = 0
        /\ \E k \in Names \cup {Empty} : form' = [form EXCEPT !.key = k]
     \/ /\ tab = "Rules" \/ focus > 0
        /\ \E v \in Values \cup (IF tab = "Rules" THEN {} ELSE {Empty}) :
             form' = [form EXCEPT !.value = v]
  /\ UNCHANGED <<world, mode, opened, focus, tab, quit, shown, selected>>

(* Mutant: an edit goes to the row that is selected now. *)
EditedRule_Selected == IF HasRow THEN SelectedRow.key ELSE opened

EditedRule == opened

(* What submit_form makes of the table.  A rule that is gone is not updated; a
   tag or limit is stored under the key in the form, whatever was opened.  Left
   out: an edit also sets the rule's path_pattern and client_ip, which are not
   in the form, to None. *)
Submitted ==
  IF tab = "Rules" /\ mode = "Adding" THEN With(table[tab], nextId, form.value)
  ELSE IF tab = "Rules"
  THEN IF EditedRule \in DOMAIN table[tab] THEN With(table[tab], EditedRule, form.value)
       ELSE table[tab]
  ELSE IF Empty \in {form.key, form.value} THEN table[tab]
  ELSE With(table[tab], Normal[tab][form.key], form.value)

(* Enter on the button. *)
Submit ==
  /\ Key(Forms)
  /\ focus = Fields - 1
  /\ tab = "Rules" => nextId <= MaxId
  /\ Store(tab, Submitted)
  /\ nextId' = IF tab = "Rules" /\ mode = "Adding" THEN nextId + 1 ELSE nextId
  /\ shown' \in Refreshed(table')
  /\ BackToViewing
  /\ UNCHANGED <<tab, quit, selected>>

(* The statement, or the reload after it, fails: `?` ends run() and with it
   the process, or the proxy when it runs next to it.  What the failed call
   left in the tables is the business of PolicyStore. *)
Fail ==
  /\ "db_error" \in Faults
  /\ phase = "event"
  /\ tab \in Tables
  /\ \/ mode = "ConfirmDelete" /\ HasRow
     \/ mode \in Forms /\ focus = Fields - 1
  /\ phase' = "over"
  /\ error' = TRUE
  /\ UNCHANGED <<world, dialog, tab, quit, shown, selected, screen>>

-----------------------------------------------------------------------------
(* The end of a turn. *)

TurnQuit ==
  /\ phase = "tail"
  /\ quit
  /\ phase' = "over"
  /\ UNCHANGED <<world, dialog, tab, quit, shown, selected, error, screen>>

(* No quit: the next turn draws one of the given lists. *)
NextTurn(lists) ==
  /\ phase = "tail"
  /\ ~quit
  /\ shown' \in lists
  /\ phase' = "event"
  /\ Draw
  /\ UNCHANGED <<world, dialog, tab, quit, error>>

TurnAgain == NextTurn({shown})

(* Mutant: nothing is refreshed behind a dialog. *)
TurnRefresh_Viewing == mode = "Viewing" /\ NextTurn(Refreshed(table))

(* Five seconds after the last refresh, whatever is open. *)
TurnRefresh == NextTurn(Refreshed(table))

-----------------------------------------------------------------------------
(* The API, or another process with tags and limits, at any time. *)

ui == <<dialog, phase, tab, quit, shown, selected, error, screen>>

OtherPut(t, k, v) ==
  /\ changes < MaxOthers
  /\ t = "Rules" => k \in DOMAIN table[t] \cup {nextId}
  /\ Store(t, With(table[t], k, v))
  /\ nextId' = IF t = "Rules" /\ k = nextId THEN nextId + 1 ELSE nextId
  /\ UNCHANGED ui

OtherDelete(t, k) ==
  /\ changes < MaxOthers
  /\ k \in DOMAIN table[t]
  /\ Store(t, Without(table[t], k))
  /\ UNCHANGED <<nextId, ui>>

-----------------------------------------------------------------------------
ViewingKey ==
  \/ SwitchTab \/ PressQuit \/ PressRefresh \/ PressAdd \/ PressEdit \/ PressDelete
  \/ \E delta \in {-15, -1, 1, 15} : Move(delta)
DialogKey == ConfirmRow \/ ConfirmClear \/ Cancel
FormKey == MoveFocus \/ Type \/ Submit
EndTurn == TurnQuit \/ TurnAgain \/ TurnRefresh

Next ==
  \/ NotPressed \/ NoKey \/ ViewingKey \/ DialogKey \/ FormKey \/ Fail \/ EndTurn
  \/ \E t \in Tables : \E k \in Keys(t) :
       OtherDelete(t, k) \/ \E v \in Values : OtherPut(t, k, v)

Spec == Init /\ [][Next]_vars

(* The loop goes on without the user (poll has a timeout; releases of keys, or
   repeats, come to an end), and the five seconds pass however many turns it
   makes. *)
Fairness == WF_vars(NoKey \/ TurnQuit \/ TurnAgain) /\ SF_vars(TurnRefresh)

FairSpec == Spec /\ Fairness

-----------------------------------------------------------------------------
(* Properties. *)

(* The screen's copy of table t has the rows of t, or was not read to its end. *)
UpToDate(t) == Range(shown[t]) = RowsOf(table[t]) \/ shown[t] \in Unread(t, table[t])

(* Types of the variables.  A form always has its focus on one of its fields
   and a dialog that needs a row has one: no index of run(), init_edit_mode or
   submit_form is out of range (an index that is ends the proxy). *)
TypeOK ==
  /\ \A t \in Tables : DOMAIN table[t] \subseteq Keys(t) /\ Range(table[t]) \subseteq Values
  /\ phase \in {"event", "tail", "over"}
  /\ tab \in Tabs
  /\ mode \in {"Viewing", "ConfirmDelete"} \cup Forms
  /\ mode \in Forms => tab \in Tables /\ focus \in 0..(Fields - 1)
  /\ opened # None <=> mode = "Editing"
  /\ \A t \in Tables : shown[t] \in Seq([key : Keys(t), value : Values])
  /\ \A t \in Tables : selected[t] = None \/ selected[t] \in Nat \ {0}
  /\ error => phase = "over"

(* Steps in which a key is handled. *)
KeyStep == phase = "event" /\ phase' = "tail"

(* Rows of t that a step adds, changes or removes. *)
Touched(t) ==
  {k \in Keys(t) :
     \/ (k \in DOMAIN table[t]) # (k \in DOMAIN table'[t])
     \/ k \in DOMAIN table[t] /\ k \in DOMAIN table'[t] /\ table[t][k] # table'[t][k]}

(* Deleting removes nothing but the row that is highlighted on the screen when
   the dialog is confirmed, although lists are refreshed and shrink while it is
   open (tui_app.rs:457-463 looks the row up by its index). *)
OnlyHighlightedDeleted ==
  [][KeyStep /\ mode = "ConfirmDelete" =>
       \A t \in Tables : Touched(t) \subseteq (IF t = tab THEN {screen} ELSE {})]_vars

(* Editing a rule changes only the rule whose form was opened, and brings back
   no rule, however often the list behind the form was refreshed, reordered or
   shortened meanwhile (tui_app.rs:403 and 529). *)
OnlyOpenedRuleEdited ==
  [][KeyStep /\ mode = "Editing" /\ tab = "Rules" =>
       /\ \A t \in Tables : Touched(t) \subseteq (IF t = tab THEN {opened} ELSE {})
       /\ DOMAIN table'["Rules"] = DOMAIN table["Rules"]]_vars

(* The screen catches up with the changes of others, in every mode and however
   busy the keyboard is, until the TUI ends (tui_app.rs:275). *)
ScreenCatchesUp ==
  []<>(phase = "over" \/ \A t \in Tables : UpToDate(t))
=============================================================================
