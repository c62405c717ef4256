------------------------------- MODULE Lists --------------------------------
(***************************************************************************)
(* The rows of a screen (internal/ui/list.go, table.go, sort.go, mark.go)  *)
(* and the stack of screens (screen.go): the list a page answers is        *)
(* narrowed by a filter and by !, put in an order, marked and acted on     *)
(* (actions.go), while answers and readings go on changing it; another     *)
(* screen is opened on top and escape comes back.                          *)
(*                                                                         *)
(* A resource is a number, and the cluster answers with them in that       *)
(* order.  Rows and windows count from 1, a cursor on no row is 0.         *)
(***************************************************************************)
EXTENDS Integers, SequencesExt

CONSTANTS
  Size,      (* how many resources there are                               *)
  Matching,  (* those that hold the word the person filters by             *)
  Use,       (* what each takes, which a column shows once it was read     *)
  Columns,   (* the columns the list is ordered by: "name", "use"          *)
  Heights    (* the rows a window may have                                 *)

Resources == 1 .. Size
Child == Size + 1   (* what the screen opened on top lists                 *)

ASSUME ListsAssumption ==
  /\ Size \in Nat \ {0} /\ Matching \subseteq Resources /\ Use \in [Resources -> Nat \ {0}]
  /\ Heights # {} /\ Heights \subseteq Nat \ {0} /\ Columns \subseteq {"name", "use"}

VARIABLES
  screen,    (* the screen on top: which, and the rows its page holds      *)
  history,   (* the screen under it, with the place it was left            *)
  list,      (* list, with its table                                       *)
  troubled,  (* whether ! narrows to what is in trouble                    *)
  usage,     (* the rows whose usage is read                               *)
  action     (* the action the question on the screen is about, or in      *)
             (* flight; bound: one at a time                               *)

listsVars == <<screen, history, list, troubled, usage, action>>

NoRow == 0
Nobody == 0
NoSort == [column |-> "none", desc |-> FALSE]
NoRead == [there |-> {}, trouble |-> {}]
Idle == [step |-> "none", kind |-> "none", on |-> {}, took |-> {}, here |-> FALSE]

NewTable(l) == [l EXCEPT !.cursor = 1, !.top = 0, !.ids = <<>>, !.index = <<>>]
NewList(height) ==
  [cursor |-> 1, top |-> 0, ids |-> <<>>, index |-> <<>>, height |-> height,
   filter |-> FALSE, sort |-> NoSort, marks |-> {}, looked |-> [filter |-> FALSE, troubled |-> FALSE]]

-----------------------------------------------------------------------------
(* The table.                                                              *)
Clamped(at, rows) == Max({1, Min({at, rows})})

(* A mutated Follow: the window follows the cursor up, not down.           *)
FollowUp(l) ==
  LET up == IF l.cursor # NoRow THEN Min({l.top, l.cursor - 1}) ELSE l.top
  IN  [l EXCEPT !.top = Max({0, Min({up, Len(l.ids) - l.height})})]

(* follow: the window over the rows, with the cursor in it.                *)
Follow(l) ==
  LET up == IF l.cursor # NoRow THEN Min({l.top, l.cursor - 1}) ELSE l.top
      down == Max({up, l.cursor - l.height})
  IN  [l EXCEPT !.top = Max({0, Min({down, Len(l.ids) - l.height})})]

Shown(l) == Range(l.ids)
At(l) == IF l.cursor \in DOMAIN l.ids THEN l.ids[l.cursor] ELSE Nobody

(* Each with as many ahead of it as there are rows before its own.         *)
Arranged(ids, ahead) ==
  [i \in 1 .. Cardinality(ids) |->
     CHOOSE id \in ids : Cardinality({other \in ids : <<other, id>> \in ahead}) = i - 1]

(* sortRows: the order a column gives the rows, each as before among equals*)
Cell(id, column, read) ==
  CASE column = "name" -> id
    [] column = "use" -> IF id \in read THEN Use[id] ELSE 0
    [] OTHER -> 0

InOrder(ids, sort, read) ==
  LET Less(a, b) == Cell(a, sort.column, read) < Cell(b, sort.column, read)
      Before(a, b) == IF sort.desc THEN Less(b, a) ELSE Less(a, b)
      Ahead(a, b) == Before(a, b) \/ (~Before(b, a) /\ a < b)
  IN  Arranged(ids, {pair \in ids \X ids : Ahead(pair[1], pair[2])})

Items(rows) == Arranged(rows.there, {pair \in rows.there \X rows.there : pair[1] < pair[2]})

(* filterRows and troubledRows.                                            *)
Narrowed(rows, filter, tr) ==
  {id \in rows.there : (filter => id \in Matching) /\ (tr => id \in rows.trouble)}

(* A mutated Reread: a cursor is left on its row number.                   *)
RereadByNumber(l, rows, tr, read) ==
  LET ids == InOrder(Narrowed(rows, l.filter, tr), l.sort, read)
      index == [i \in DOMAIN ids |-> CHOOSE at \in DOMAIN Items(rows) : Items(rows)[at] = ids[i]]
  IN  Follow([l EXCEPT !.ids = ids, !.index = index, !.cursor = Clamped(@, Len(ids)),
                       !.looked = [filter |-> l.filter, troubled |-> tr]])

(* read.                                                                   *)
Reread(l, rows, tr, read) ==
  LET narrowed == [filter |-> l.filter, troubled |-> tr]
      again == narrowed = l.looked
      ids == InOrder(Narrowed(rows, l.filter, tr), l.sort, read)
      index == [i \in DOMAIN ids |-> CHOOSE at \in DOMAIN Items(rows) : Items(rows)[at] = ids[i]]
      from == IF ~again /\ l.cursor = NoRow THEN 1 ELSE l.cursor
      put == Follow([l EXCEPT !.ids = ids, !.index = index, !.looked = narrowed,
                              !.cursor = IF from = NoRow THEN NoRow ELSE Clamped(from, Len(ids))])
      there == {i \in DOMAIN ids : ids[i] = At(l)}
  IN  CASE there # {} -> Follow([put EXCEPT !.cursor = CHOOSE i \in there : TRUE])
        [] there = {} /\ At(l) # Nobody /\ again -> [put EXCEPT !.cursor = NoRow]
        [] OTHER -> put

Relaid(l) == Reread(l, screen.rows, troubled, usage)

-----------------------------------------------------------------------------
ListsInit ==
  /\ screen = [is |-> "list", rows |-> NoRead] /\ history = <<>>
  /\ list \in {NewList(height) : height \in Heights}
  /\ troubled = FALSE /\ usage = {} /\ action = Idle

Answers == UNION {[there : {there}, trouble : SUBSET there] : there \in SUBSET Resources}

Quiet == UNCHANGED <<screen, history, troubled, usage, action>>
NotAsked == action.step # "asked"

(* An answer to the read of the screen.                                    *)
Answer ==
  /\ \E rows \in Answers :
       screen' = [screen EXCEPT !.rows =
                    IF screen.is = "list" THEN rows ELSE [there |-> {Child}, trouble |-> {}]]
  /\ list' = Reread(list, screen'.rows, troubled, usage)
  /\ UNCHANGED <<history, troubled, usage, action>>

(* keepRowUsage: the rows in the window are read.                          *)
InWindow(l) == {l.ids[i] : i \in DOMAIN l.ids \cap (l.top + 1) .. (l.top + l.height)}

Reading ==
  /\ screen.is = "list"
  /\ \E answered \in SUBSET InWindow(list) :
       /\ usage' = usage \cup answered
       /\ list' = Reread(list, screen.rows, troubled, usage')
  /\ UNCHANGED <<screen, history, troubled, action>>

-----------------------------------------------------------------------------
(* What the person narrows, orders and moves.                              *)
Filter ==
  /\ NotAsked
  /\ list' = Relaid([list EXCEPT !.filter = ~@])
  /\ Quiet

Troubled ==
  /\ NotAsked
  /\ troubled' = ~troubled
  /\ list' = Reread(list, screen.rows, troubled', usage)
  /\ UNCHANGED <<screen, history, usage, action>>

(* by: the same column again turns the order around.                       *)
SortBy(column) ==
  /\ NotAsked
  /\ list' = Relaid([list EXCEPT !.sort =
                        [column |-> column, desc |-> list.sort.column = column /\ ~list.sort.desc]])
  /\ Quiet

Move(by) ==
  /\ NotAsked
  /\ list' = Follow([list EXCEPT !.cursor = Clamped(list.cursor + by, Len(list.ids))])
  /\ Quiet

Resized(height) ==
  /\ list' = Relaid(Follow([list EXCEPT !.height = height]))
  /\ Quiet

-----------------------------------------------------------------------------
(* Marks, and the action that takes them.                                  *)
Selected == IF list.cursor \in DOMAIN list.index THEN Items(screen.rows)[list.index[list.cursor]] ELSE Nobody

Mark ==
  /\ NotAsked /\ screen.is = "list" /\ Selected # Nobody
  /\ list' = Relaid([list EXCEPT !.marks = SymDiff(@, {Selected})])
  /\ Quiet

MarkAll ==
  /\ NotAsked /\ screen.is = "list" /\ Shown(list) # {}
  /\ list' = Relaid([list EXCEPT !.marks = IF Shown(list) \subseteq @ THEN {} ELSE @ \cup Shown(list)])
  /\ Quiet

(* shownMarks; markedFrom, by the index.                                   *)
ShownMarks == list.marks \cap Shown(list)

MarkedFrom ==
  LET marked == {Items(screen.rows)[list.index[i]] : i \in DOMAIN list.index} \cap list.marks
  IN  IF marked # {} THEN marked ELSE {Selected} \ {Nobody}

(* The resources an action is on: what is marked; of those, the ones it    *)
(* fits (purge takes those that are down); or the row of the cursor alone. *)
On(kind) ==
  CASE kind = "marked" -> MarkedFrom
    [] kind = "fitting" -> MarkedFrom \cap screen.rows.trouble
    [] kind = "one" -> {Selected} \ {Nobody}

Ask(kind) ==
  /\ action = Idle /\ screen.is = "list" /\ On(kind) # {}
  /\ action' = [step |-> "asked", kind |-> kind, on |-> On(kind), took |-> ShownMarks, here |-> TRUE]
  /\ UNCHANGED <<screen, history, list, troubled, usage>>

No == ~NotAsked /\ action' = Idle /\ UNCHANGED <<screen, history, list, troubled, usage>>

Yes ==
  /\ ~NotAsked /\ action' = [action EXCEPT !.step = "sent"]
  /\ UNCHANGED <<screen, history, list, troubled, usage>>

(* A mutated Done: every mark goes with what was done.                     *)
DoneWithAll(failed) ==
  LET one == action.kind = "one"
      went == IF one THEN {} ELSE action.on \ failed
      kept == IF one THEN {} ELSE failed
      took == IF one /\ failed # {} THEN {} ELSE list.marks
  IN  IF action.here THEN (list.marks \ took) \cup kept ELSE list.marks \ went

(* done: what failed stays marked; doneLate, once the screen was left.  An *)
(* error of a single call (act) says nothing of the marks.                 *)
Done(failed) ==
  LET one == action.kind = "one"
      went == IF one THEN {} ELSE action.on \ failed
      kept == IF one THEN {} ELSE failed
      took == IF one /\ failed # {} THEN {} ELSE action.took
  IN  IF action.here THEN (list.marks \ took) \cup kept ELSE list.marks \ went

(* each: one that does not answer does not stop the rest.                  *)
ListEnds ==
  /\ action.step = "sent"
  /\ \E failed \in SUBSET action.on :
       list' = Relaid([list EXCEPT !.marks = Done(failed)])
  /\ action' = Idle
  /\ UNCHANGED <<screen, history, troubled, usage>>

-----------------------------------------------------------------------------
(* The stack of screens.                                                   *)
Left == [cursor |-> list.cursor, top |-> list.top, filter |-> list.filter, sort |-> list.sort,
         on |-> At(list)]

(* enter: a new table, no readings, and an ask of its own.                 *)
Entered(rows) ==
  Reread(NewTable([list EXCEPT !.filter = FALSE, !.sort = NoSort, !.marks = {}]), rows, troubled, {})

Open ==
  /\ NotAsked /\ screen.is = "list" /\ Selected # Nobody
  /\ history' = <<[rows |-> screen.rows, left |-> Left]>>
  /\ screen' = [is |-> "child", rows |-> NoRead]
  /\ usage' = {}
  /\ list' = Entered(NoRead)
  /\ action' = [action EXCEPT !.here = FALSE]
  /\ UNCHANGED troubled

(* back, and returnTo: the cursor goes back to its row number.             *)
ReturnedTo(l, rows, left) ==
  Follow([Reread([l EXCEPT !.filter = left.filter, !.sort = left.sort], rows, troubled, {})
            EXCEPT !.cursor = left.cursor, !.top = left.top])

Back ==
  /\ NotAsked /\ history # <<>>
  /\ screen' = [is |-> "list", rows |-> history[1].rows]
  /\ history' = <<>>
  /\ usage' = {}
  /\ list' = ReturnedTo(Entered(history[1].rows), history[1].rows, history[1].left)
  /\ action' = [action EXCEPT !.here = FALSE]
  /\ UNCHANGED troubled

ListsNext ==
  \/ Answer \/ Reading \/ Filter \/ Troubled \/ Mark \/ MarkAll \/ No \/ Yes \/ ListEnds \/ Open \/ Back
  \/ \E column \in Columns : SortBy(column)
  \/ \E by \in {-1, 1} : Move(by)
  \/ \E height \in Heights \ {list.height} : Resized(height)
  \/ \E kind \in {"marked", "fitting", "one"} : Ask(kind)

-----------------------------------------------------------------------------
(* The cursor stays on its resource: whatever is answered, read, narrowed, *)
(* ordered or marked, it is on the same one while the list shows it; and   *)
(* when the resource went by itself the cursor is on none, so that the     *)
(* next key does not act on another (list.go, read).                       *)
CursorStaysOnItsResource ==
  [][(At(list) # Nobody /\ screen'.is = screen.is /\ ~\E by \in {-1, 1} : Move(by)) =>
       \/ At(list') = At(list)
       \/ At(list) \notin Shown(list') /\ (At(list') = Nobody \/ list'.looked # list.looked)]_listsVars

(* A key acts on what the person sees: on marks that are drawn or, with    *)
(* none, on the row of the cursor, which is in the window (page.go,        *)
(* markedFrom; table.go, follow).                                          *)
ActsOnWhatIsSeen ==
  /\ MarkedFrom = IF ShownMarks # {} THEN ShownMarks ELSE {At(list)} \ {Nobody}
  /\ At(list) # Nobody => At(list) \in InWindow(list)

(* Of an action on all the marked rows, what it did is unmarked and nothing*)
(* else: a mark the filter hid, one put on meanwhile and one of what failed*)
(* stay (actions.go, doneMsg).  One that fits only some of the marked rows *)
(* takes the marks of the others with them (purge_test.go:66).             *)
UnmarksWhatItDid ==
  [][(action.kind = "marked" /\ ListEnds) =>
       /\ list.marks \ list'.marks \subseteq action.on
       /\ (~action.here => list'.marks \subseteq list.marks)]_listsVars
=============================================================================
