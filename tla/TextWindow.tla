----------------------------- MODULE TextWindow -----------------------------
(***************************************************************************)
(* The window over a text (internal/ui/text.go): a log or a description of *)
(* which only some rows are on the screen.  The rows drawn so far are kept *)
(* and brought up to date as lines arrive at the end, leave the front or   *)
(* are put in front, while the person scrolls, wraps, filters and goes     *)
(* from match to match.                                                    *)
(*                                                                         *)
(* A line is its number, its width in cells and whether the word that is   *)
(* filtered and searched for is in it, in its last cell.                   *)
(***************************************************************************)
EXTENDS Integers, SequencesExt

CONSTANTS
  MaxLines,     (* maxTextLines                                            *)
  Height,       (* the rows of the window                                  *)
  Widths,       (* the widths it may have                                  *)
  LineKinds,    (* the lines there are: how wide, and whether with the word*)
  MaxTextTotal  (* bound: how many lines there are in all                  *)

ASSUME TextWindowAssumption ==
  /\ {MaxLines, Height} \subseteq Nat \ {0} /\ MaxTextTotal \in Nat
  /\ Widths # {} /\ Widths \subseteq Nat \ {0} /\ LineKinds \subseteq [wide : Nat \ {0}, word : BOOLEAN]

VARIABLES
  text,    (* textContent, as the page holds it                            *)
  window,  (* textModel, the window of the session over it                 *)
  written  (* how many lines there were                                    *)

textVars == <<text, window, written>>

NoRows == [id |-> 2, settings |-> <<>>, lines |-> 0, counts |-> <<>>, rows |-> <<>>, widest |-> 0]

TextWindowInit ==
  /\ text = [id |-> 1, lines |-> <<>>, dropped |-> 0] /\ written = 0
  /\ \E width \in Widths :
       window = [text |-> text, top |-> 0, at |-> 0, shift |-> 0, width |-> width, following |-> TRUE,
                 wrap |-> FALSE, times |-> FALSE, filter |-> FALSE, found |-> FALSE, kept |-> NoRows]

-----------------------------------------------------------------------------
(* Drawing.                                                                *)
Total(content) == content.dropped + Len(content.lines)

Settings(w) == <<w.filter, w.wrap, w.times, IF w.wrap THEN w.width ELSE 0>>

(* The rows of a line: none when the filter drops it, and where it wraps   *)
(* as many as it takes, with the time in front of the first.               *)
RowsOf(w, line) ==
  LET wide == line.wide + IF w.times THEN 1 ELSE 0
      parts == IF w.wrap THEN (wide + w.width - 1) \div w.width ELSE 1
      Part(i) == [line |-> line.n, part |-> i, word |-> line.word /\ i = parts,
                  width |-> IF ~w.wrap THEN wide ELSE Min({w.width, wide - (i - 1) * w.width})]
  IN  IF w.filter /\ ~line.word THEN <<>> ELSE [i \in 1 .. parts |-> Part(i)]

DrawnRows(w, lines) == FlattenSeq([i \in DOMAIN lines |-> RowsOf(w, lines[i])])
DrawnCounts(w, lines) == [i \in DOMAIN lines |-> Len(RowsOf(w, lines[i]))]
WidestOf(rows) == Max({0} \cup {rows[i].width : i \in DOMAIN rows})

(* matches.                                                                *)
Matches(w) ==
  /\ w.kept.id = w.text.id /\ w.kept.lines = Total(w.text)
  /\ Len(w.kept.counts) = Len(w.text.lines) /\ w.kept.settings = Settings(w)

Rows(w) == IF Matches(w) THEN w.kept.rows ELSE DrawnRows(w, w.text.lines)

(* A mutated Measured: the rows left are not measured again.               *)
MeasuredOnce(kept, gone, rows) == Max({kept.widest, WidestOf(rows)})

(* The widest row, of those left measured again only when it left.         *)
Measured(kept, gone, rows) ==
  LET left == WidestOf(SubSeq(kept.rows, gone + 1, Len(kept.rows)))
      itLeft == gone > 0 /\ WidestOf(SubSeq(kept.rows, 1, gone)) = kept.widest
  IN  Max({IF itLeft THEN left ELSE kept.widest, WidestOf(rows)})

(* refresh: the rows of lines that left the front are forgotten and those  *)
(* that arrived are drawn, or all are drawn again.                         *)
Refreshed(w) ==
  LET first == w.kept.lines - Len(w.kept.counts)
      left == w.text.dropped - first
      gone == FoldSeq(+, 0, SubSeq(w.kept.counts, 1, left))
      arrived == SubSeq(w.text.lines, w.kept.lines - w.text.dropped + 1, Len(w.text.lines))
      rows == DrawnRows(w, arrived)
  IN  IF Matches(w) THEN w
      ELSE IF /\ w.kept.id = w.text.id /\ w.kept.settings = Settings(w)
              /\ first <= w.text.dropped /\ w.text.dropped <= w.kept.lines /\ w.kept.lines <= Total(w.text)
      THEN [w EXCEPT !.top = Max({@ - gone, 0}), !.at = Max({@ - gone, 0}),
              !.kept.rows = SubSeq(@, gone + 1, Len(@)) \o rows, !.kept.lines = Total(w.text),
              !.kept.counts = SubSeq(@, left + 1, Len(@)) \o DrawnCounts(w, arrived),
              !.kept.widest = Measured(w.kept, gone, rows)]
      ELSE [w EXCEPT !.kept = [id |-> w.text.id, settings |-> Settings(w), lines |-> Total(w.text),
              counts |-> DrawnCounts(w, w.text.lines), rows |-> DrawnRows(w, w.text.lines),
              widest |-> WidestOf(DrawnRows(w, w.text.lines))]]

-----------------------------------------------------------------------------
(* Moving: inside the rows, and sideways up to where the widest one ends.  *)
TopAt(fresh, top) == [fresh EXCEPT !.top = Max({0, Min({top, Len(fresh.kept.rows) - Height})})]
ShiftAt(fresh, shift) == [fresh EXCEPT !.shift = Max({0, Min({shift, fresh.kept.widest - fresh.width})})]

Moved(w, by) == LET fresh == Refreshed(w) IN TopAt(fresh, fresh.top + by)
Slid(w, by) == IF w.wrap THEN w ELSE ShiftAt(Refreshed(w), w.shift + by)

(* follow, which moves and slides by nothing, and toEnd.                   *)
Inside(w) ==
  LET moved == Moved(w, 0)
  IN  IF w.wrap THEN moved ELSE ShiftAt(moved, w.shift)
AtEnd(w) == Moved(w, Len(Rows(w)))

(* Model.layout: the content of the page, the size, the filter; a window   *)
(* that follows goes to the end as the text grows.                         *)
LaysOut(w, content, width, filter) ==
  LET grew == Total(content) > Total(w.text)
  IN  {IF grew /\ w.following THEN AtEnd(inside) ELSE inside :
         inside \in {Inside([sized EXCEPT !.filter = filter]) :
                      sized \in {Inside([w EXCEPT !.text = content, !.width = width])}}}

(* seek: the first match from a row on, or the last one before it; past    *)
(* either end it goes round.  The window stays when there is none.         *)
Hits(w) == LET rows == Rows(w) IN {i \in 0 .. Len(rows) - 1 : rows[i + 1].word}

(* reveal: the row of the match, and its end where the lines do not wrap.  *)
Revealed(w) ==
  LET cell == w.kept.rows[w.at + 1].width
      seen == w.wrap \/ (cell - 1 >= w.shift /\ cell <= w.shift + w.width)
  IN  [IF seen THEN w ELSE ShiftAt(w, Max({cell - 1 - w.width \div 4, 0})) EXCEPT !.following = FALSE]

Sought(w, from, backward) ==
  LET hits == Hits(w)
      there == IF backward THEN {i \in hits : i <= from} ELSE {i \in hits : i >= from}
      around == IF there = {} THEN hits ELSE there
      Shown(at) == Moved([w EXCEPT !.at = at], Max({at - Height \div 3, 0}) - w.top)
      found == {Shown(at) : at \in IF hits = {} THEN {} ELSE {IF backward THEN Max(around) ELSE Min(around)}}
  IN  IF found = {} THEN w ELSE CHOOSE new \in {Revealed(moved) : moved \in found} : TRUE

(* A mutated NextMatch: going back begins at the match itself.             *)
NextMatchStays(w, by) ==
  LET inView == w.top <= w.at /\ w.at < w.top + Height
      from == IF inView THEN w.at + Max({by, 0}) ELSE IF by < 0 THEN w.top + Height - 1 ELSE w.top
  IN  Sought(w, from, by < 0)

(* goToMatch: from the last match, or from what the window shows.          *)
NextMatch(w, by) ==
  LET inView == w.top <= w.at /\ w.at < w.top + Height
      from == IF inView THEN w.at + by ELSE IF by < 0 THEN w.top + Height - 1 ELSE w.top
  IN  Sought(w, from, by < 0)

-----------------------------------------------------------------------------
(* What comes to the text.                                                 *)
NewLines(count) ==
  {[i \in 1 .. count |-> [n |-> written + i, wide |-> kind[i].wide, word |-> kind[i].word]] :
     kind \in [1 .. count -> LineKinds]}

LinesArrive(count) ==
  /\ written + count <= MaxTextTotal /\ written' = written + count
  /\ \E lines \in NewLines(count) :
       LET all == text.lines \o lines
           over == Max({Len(all) - MaxLines, 0})
       IN  text' = [text EXCEPT !.lines = SubSeq(all, over + 1, Len(all)), !.dropped = @ + over]
  /\ window' \in LaysOut(window, text', window.width, window.filter)

(* A mutated KeptPlace: the rows put in front are not counted.             *)
KeptPlaceByLines(w, count) == Inside([w EXCEPT !.top = @ + count, !.at = @ + count])

(* keepPlace: the window goes on by the rows of the lines put in front.    *)
KeptPlace(w, count) ==
  LET rows == FoldSeq(+, 0, SubSeq(w.kept.counts, 1, Min({count, Len(w.kept.counts)})))
  IN  Inside([w EXCEPT !.top = @ + rows, !.at = @ + rows])

(* addBefore, of a text that lost no line and has the room (earlier).      *)
LinesBefore(count) ==
  /\ text.dropped = 0 /\ Len(text.lines) + count <= MaxLines
  /\ written + count <= MaxTextTotal /\ written' = written + count
  /\ \E lines \in NewLines(count) : text' = [text EXCEPT !.id = 1 - @, !.lines = lines \o @]
  /\ \E w \in LaysOut(window, text', window.width, window.filter) : window' = KeptPlace(w, count)

(* The text is another one: a log is opened again.                         *)
TextOpens ==
  /\ Len(text.lines) > 0
  /\ text' = [id |-> 1 - text.id, lines |-> <<>>, dropped |-> 0]
  /\ window' \in LaysOut(window, text', window.width, window.filter)
  /\ UNCHANGED written

-----------------------------------------------------------------------------
(* What the person does.                                                   *)
Shows(w) == window' = w /\ UNCHANGED <<text, written>>

Resize(width) ==
  width # window.width /\ \E w \in LaysOut(window, text, width, window.filter) : Shows(w)
FilterTyped == \E w \in LaysOut(window, text, window.width, ~window.filter) : Shows(w)
WrapLines == Shows(Inside([window EXCEPT !.wrap = ~@, !.shift = 0]))
ShowTimes == Shows(Refreshed([window EXCEPT !.times = ~@]))
Scroll(by) == Shows([Moved(window, by) EXCEPT !.following = FALSE])
SlideBy(direction) ==
  ~window.wrap /\ Shows(Slid(window, direction * Max({window.width \div 4, 1})))
Home == window.shift > 0 /\ Shows([window EXCEPT !.shift = 0])

ToggleAutoscroll ==
  LET w == [window EXCEPT !.following = ~@]
  IN  Shows(IF w.following THEN AtEnd(w) ELSE w)

(* findWord: a word no line has leaves the one found before.               *)
FindWord ==
  /\ Hits(window) # {}
  /\ Shows(Sought([window EXCEPT !.found = TRUE], window.top, FALSE))
DropWord == window.found /\ Shows([window EXCEPT !.found = FALSE])
GoToMatch(by) == window.found /\ Shows(NextMatch(window, by))

TextWindowNext ==
  \/ \E count \in 1 .. 2 : LinesArrive(count) \/ LinesBefore(count)
  \/ TextOpens
  \/ \E width \in Widths : Resize(width)
  \/ FilterTyped \/ WrapLines \/ ShowTimes \/ Home \/ ToggleAutoscroll \/ FindWord \/ DropWord
  \/ \E by \in {-1, 1} : Scroll(by) \/ SlideBy(by) \/ GoToMatch(by)

-----------------------------------------------------------------------------
(* The rows kept are those a window that draws everything afresh shows,    *)
(* and their widest is measured right: however lines arrived and left, and *)
(* whatever was changed between (refresh).                                 *)
DrawnAsAfresh ==
  Matches(window) =>
    /\ window.kept.rows = DrawnRows(window, text.lines)
    /\ window.kept.counts = DrawnCounts(window, text.lines)
    /\ window.kept.widest = WidestOf(window.kept.rows)

(* As lines arrive, leave or are put in front, a window that follows is at *)
(* the end.  Another one keeps the row at its top where it is, or in view  *)
(* at the end of the text, and the row of its match, as long as they are   *)
(* in the text (layout, refresh, keepPlace).                               *)
KeepsItsPlace ==
  [][LET old == Rows(window)
         new == Rows(window')
         end == Max({0, Len(new) - Height})
         Stays(before, places) ==
           before + 1 \in DOMAIN old /\ old[before + 1] \in ToSet(new) =>
             \E now \in places : now + 1 \in DOMAIN new /\ new[now + 1] = old[before + 1]
     IN  written' > written =>
           IF window.following THEN window'.top = end
           ELSE /\ Stays(window.at, {window'.at})
                /\ Stays(window.top, {window'.top} \cup IF window'.top = end THEN end .. end + Height - 1 ELSE {})]_textVars

(* The keys that go from match to match reach every one of them, in either *)
(* direction, from wherever the window is (goToMatch, seek).               *)
EveryMatchIsReached ==
  window.found => \A by \in {-1, 1} :
    LET presses == Cardinality(Hits(window))
        After(n) == FoldLeft(LAMBDA w, press : NextMatch(w, by), window, [i \in 1 .. n |-> i])
    IN  {After(n).at : n \in 1 .. presses} = Hits(window)
=============================================================================
