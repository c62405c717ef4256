------------------------------ MODULE MCScreen -------------------------------
(* Small instances of what a person sees and does: the pages and their      *)
(* keys, a list and a text. They share nothing, so a behaviour is one of    *)
(* one of them.                                                             *)
EXTENDS Browse, Lists, TextWindow

VARIABLE part   (* which of them                                            *)

SomeKinds == {[wide |-> 1, word |-> FALSE], [wide |-> 2, word |-> TRUE]}
MoreIsLater == [id \in Resources |-> Size + 1 - id]

(* A part that is not looked at rests in one first state.                   *)
PagesRest == namespace = Default /\ readOnly
ScreenInit ==
  /\ BrowseInit /\ ListsInit /\ TextWindowInit
  /\ part \in {"pages", "list", "text"}
  /\ part # "pages" => PagesRest
  /\ part # "text" => window.width = 1

(* On the topmost page there is room for, no list but the jobs opens; an    *)
(* answer that comes under a question has the row of another namespace, of  *)
(* the same facts. A list is narrowed in one way at a time, to what is in   *)
(* trouble in the order of the answer, and read while it is ordered by what *)
(* is read; the times of a text are shown while nothing is filtered or      *)
(* searched for.                                                            *)
BoundedPages == Len(pages) = MaxPages => OnTop.page \notin Views \ {"jobs"}
BoundedAnswers == over # NotOver /\ <<over, namespace>>' = <<over, namespace>> => row'.is = row.is
BoundedList == ~(list.filter /\ troubled) /\ (troubled => list.sort = NoSort) /\ (usage # {} => list.sort # NoSort)
BoundedText == window.times => ~window.filter /\ ~window.found

ScreenNext ==
  \/ part = "pages" /\ BrowseNext /\ BoundedPages' /\ BoundedAnswers
     /\ UNCHANGED <<part, listsVars, textVars>>
  \/ part = "list" /\ ListsNext /\ BoundedList' /\ UNCHANGED <<part, browseVars, textVars>>
  \/ part = "text" /\ TextWindowNext /\ BoundedText' /\ UNCHANGED <<part, browseVars, listsVars>>

ScreenSpec == ScreenInit /\ [][ScreenNext]_<<part, browseVars, listsVars, textVars>>
=============================================================================
