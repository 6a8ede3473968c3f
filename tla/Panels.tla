------------------------------- MODULE Panels -------------------------------
(***************************************************************************)
(* The panel drivers of internal/ui3270 as one administrator uses them: a  *)
(* paged list with line commands (RunList), a paged snapshot               *)
(* (RunSnapshotList) and the line editor (RunEditor), the documents they   *)
(* edit (internal/store/documents.go), and other administrators who change *)
(* the same rows and documents meanwhile.                                  *)
(*                                                                         *)
(* Abstractions.  A step is one transmission of the terminal (Press) or    *)
(* what the driver does with it, up to the next screen.  A row is its key, *)
(* and the rows come in the order of their keys.  A text is a model value  *)
(* and the empty text is Blank; content is a sequence of texts and newline *)
(* marks.  The documents panel is RunList over three fixed rows, so only   *)
(* its two commands are kept; forms and details opened from a panel are    *)
(* taken by their outcome (Admin.tla and Session.tla have their insides).  *)
(* The keys PA1 to PA3 and Clear present the same screen again.  No panel  *)
(* configures RunSnapshotList's ActCmd, and it is left out.                *)
(***************************************************************************)
EXTENDS Sorted, SequencesExt

CONSTANTS
  Items,      \* keys of the rows a panel may list
  Blocked,    \* rows whose deletion Confirm refuses
  PageSize,   \* listPageSize of the terminal
  Texts,      \* what can be typed on a line
  Wides,      \* lines wider than editorTextMax
  Blank, NL,  \* the empty line, the newline
  MaxDoc,     \* MaxDocumentBytes, in marks of content
  MaxLines,   \* bound on the lines in the editor
  Stored,     \* contents that others import or save
  Quiet       \* no transmission, no row

ASSUME PanelsAssumption ==
  /\ Items \subseteq Nat /\ IsFiniteSet(Items) /\ Blocked \subseteq Items
  /\ PageSize \in Nat \ {0} /\ MaxDoc \in Nat /\ MaxLines \in Nat \ {0}
  /\ Blank \notin Texts \cup Wides \cup {NL} /\ NL \notin Texts \cup Wides
  /\ Texts \cap Wides = {} /\ Quiet \notin Items
  /\ \A c \in Stored : /\ c \in Seq(Texts \cup Wides \cup {NL}) /\ Len(c) <= MaxDoc
                        /\ \A i \in 1 .. Len(c) - 1 : NL \in {c[i], c[i + 1]}

VARIABLES
  mode,      \* the panel on the terminal
  act,       \* the transmission the driver is about to handle
  data,      \* the rows of the table, or of the registry, that the panel lists
  rows,      \* the rows fetched for the panel
  page,      \* the page shown
  pending,   \* the row a confirm is pending on
  msg,       \* the message line
  doc,       \* content of the document last chosen in the documents panel
  lines      \* the editor's working copy

vars == <<mode, act, data, rows, page, pending, msg, doc, lines>>

Clear == [kind |-> "none", item |-> Quiet]
Error == [kind |-> "error", item |-> Quiet]
Prompt(x) == [kind |-> "prompt", item |-> x]

Lists == {"list", "sessions", "audit"}

-----------------------------------------------------------------------------
(* Paging *)

(* Mutant: the page is not clamped to the rows that are left. *)
pageBounds_NoClamp(p, total) ==
  LET q == IF p < 0 THEN 0 ELSE p
      start == q * PageSize
      stop == start + PageSize
  IN [page |-> q, start |-> start, end |-> IF stop < total THEN stop ELSE total]

(* The page nearest to p that has rows, and the rows it shows *)
pageBounds(p, total) ==
  LET maxPage == (total - 1) \div PageSize
      q == IF total = 0 \/ p < 0 THEN 0 ELSE IF p > maxPage THEN maxPage ELSE p
      start == q * PageSize
      stop == start + PageSize
  IN [page |-> q, start |-> start, end |-> IF stop < total THEN stop ELSE total]

Bounds == pageBounds(page, IF mode = "edit" THEN Len(lines) ELSE Len(rows))

Shown == SubSeq(rows, Bounds.start + 1, Bounds.end)

(* Mutant: PF8 asks for a whole page of further rows. *)
NextPage_WholePages(total) == IF Bounds.end + PageSize <= total THEN page + 1 ELSE page

(* PF8: there is no page after the one that shows the last row *)
NextPage(total) == IF Bounds.end < total THEN page + 1 ELSE page

-----------------------------------------------------------------------------
(* What the terminal sends *)

Commands == {"S", "D", "X"}     \* X stands for a letter no panel knows

(* listAction: a PF key as it is; with Enter the first command field that  *)
(* is not blank, one command for each transmission                         *)
listAction(aid, cmds) ==
  LET typed == {i \in DOMAIN cmds : cmds[i] # Blank}
      row == Min(typed)
  IN IF aid # "Enter" THEN [pf |-> aid, cmd |-> Blank, row |-> 0]
     ELSE IF typed = {} THEN [pf |-> "none", cmd |-> Blank, row |-> 0]
     ELSE [pf |-> "none", cmd |-> cmds[row], row |-> row]

PlainEnter == [pf |-> "none", cmd |-> Blank, row |-> 0]

ListTransmissions(keys) ==
  {listAction(aid, cmds) : aid \in {"Enter"} \cup keys,
                           cmds \in [1 .. Len(Shown) -> Commands \cup {Blank}]}

Visible == Bounds.start + 1 .. Bounds.end

(* editorAction: the key, the prefix commands and the texts of the lines   *)
(* on the screen; a wide line has no text field                            *)
EditorTransmissions ==
  [pf : {"none", "PF3", "PF7", "PF8", "PF12"},
   prefix : UNION {[S -> {"I", "D", "R", "X"}] : S \in SUBSET Visible},
   text : [{i \in Visible : lines[i] \notin Wides} -> Texts \cup {Blank}]]

-----------------------------------------------------------------------------
(* RunList *)

(* Fetch and the next screen.  A fetch that fails shows no rows, and the   *)
(* confirm is lost with them.                                              *)
ListScreen(p, pend, m) ==
  \E ok \in BOOLEAN :
    /\ rows' = IF ok THEN Ascending(data') ELSE <<>>
    /\ page' = pageBounds(p, Len(rows')).page
    /\ pending' = IF ok THEN pend ELSE Quiet
    /\ msg' = IF ok THEN m ELSE Error
    /\ mode' = "list"
    /\ act' = Quiet
    /\ doc' = <<>>
    /\ UNCHANGED lines

Leave ==
  /\ mode' = "menu" /\ act' = Quiet
  /\ data' = {} /\ rows' = <<>> /\ page' = 0 /\ pending' = Quiet /\ msg' = Clear
  /\ lines' = <<>>

OpenList ==
  /\ mode = "menu"
  /\ data' \in SUBSET Items
  /\ ListScreen(0, Quiet, Clear)

(* The very next action resolves a pending confirm: Enter commits it, and  *)
(* the commit may be refused or fail.                                      *)
ConfirmCommit ==
  /\ mode = "list" /\ pending # Quiet /\ act = PlainEnter
  /\ \E done \in BOOLEAN :
       /\ data' = IF done THEN data \ {pending} ELSE data
       /\ ListScreen(page, Quiet, IF done THEN Clear ELSE Error)

ConfirmCancel ==
  /\ mode = "list" /\ pending # Quiet /\ act # Quiet /\ act.pf = "PF3"
  /\ UNCHANGED data
  /\ ListScreen(page, Quiet, Clear)

(* Any other action drops the confirm and is handled as usual. *)
Unconfirmed == mode = "list" /\ act # Quiet /\ (pending = Quiet \/ (act # PlainEnter /\ act.pf # "PF3"))

ListEnd == Unconfirmed /\ act.pf = "PF3" /\ Leave /\ UNCHANGED doc

(* PF4: the form of the panel adds a row, or is left *)
ListAdd ==
  /\ Unconfirmed /\ act.pf = "PF4"
  /\ \E new \in {{}} \cup {{x} : x \in Items} : data' = data \cup new
  /\ ListScreen(page, Quiet, Clear)

ListPage ==
  /\ Unconfirmed /\ act.pf \in {"PF7", "PF8"}
  /\ UNCHANGED data
  /\ ListScreen(IF act.pf = "PF7" THEN page - 1 ELSE NextPage(Len(rows)), Quiet, Clear)

ListRefresh ==
  /\ Unconfirmed /\ act = PlainEnter
  /\ UNCHANGED data
  /\ ListScreen(page, Quiet, Clear)

(* Mutant: a command on another row leaves the confirm pending. *)
ListCommand_KeepsPending ==
  /\ mode = "list" /\ act # Quiet /\ act.cmd # Blank
  /\ LET item == Shown[act.row]
         asks == act.cmd = "D" /\ item \notin Blocked
     IN \E m \in (IF asks THEN {Prompt(item)} ELSE IF act.cmd = "S" THEN {Clear, Error} ELSE {Error}) :
          /\ UNCHANGED data
          /\ ListScreen(page, IF asks /\ pending = Quiet THEN item ELSE pending, m)

(* A command on a row of the page: S acts at once, D asks first. *)
ListCommand ==
  /\ Unconfirmed /\ act.cmd # Blank
  /\ LET item == Shown[act.row]
         asks == act.cmd = "D" /\ item \notin Blocked
     IN \E m \in (IF asks THEN {Prompt(item)} ELSE IF act.cmd = "S" THEN {Clear, Error} ELSE {Error}) :
          UNCHANGED data /\ ListScreen(page, IF asks THEN item ELSE Quiet, m)

RunList == \/ ConfirmCommit \/ ConfirmCancel \/ ListEnd \/ ListAdd \/ ListPage \/ ListRefresh \/ ListCommand

-----------------------------------------------------------------------------
(* RunSnapshotList: the active sessions and the audit log *)

(* The page the next screen starts from when a key has moved to page p.    *)
(* The loop body declares a page of its own, and the variable that lives   *)
(* across the loop is never assigned.                                      *)
CarriedPage(p) == 0

(* The next screen: the rows held, or new ones when a refresh is due.      *)
(* Reading the audit log can fail.                                         *)
SnapshotScreen(p, refresh) ==
  /\ \/ ~refresh /\ rows' = rows /\ msg' = Clear
     \/ refresh /\ rows' = Ascending(data') /\ msg' = Clear
     \/ refresh /\ mode' = "audit" /\ rows' = <<>> /\ msg' = Error
  /\ page' = pageBounds(CarriedPage(p), Len(rows')).page
  /\ act' = Quiet
  /\ doc' = <<>>
  /\ UNCHANGED <<pending, lines>>

OpenSnapshot ==
  /\ mode = "menu"
  /\ mode' \in {"sessions", "audit"}
  /\ data' \in SUBSET Items
  /\ SnapshotScreen(0, TRUE)

InSnapshot == mode \in {"sessions", "audit"} /\ act # Quiet

SnapshotEnd == InSnapshot /\ act.pf = "PF3" /\ Leave /\ UNCHANGED doc

SnapshotPage ==
  /\ InSnapshot /\ act.pf \in {"PF7", "PF8"}
  /\ UNCHANGED <<mode, data>>
  /\ SnapshotScreen(IF act.pf = "PF7" THEN page - 1 ELSE NextPage(Len(rows)), FALSE)

(* S opens the detail of a row; a session disconnected there is a reason   *)
(* to refresh, and it is gone from the registry once its connection ends.  *)
SnapshotSelect ==
  /\ InSnapshot /\ act.cmd = "S"
  /\ UNCHANGED <<mode, data>>
  /\ \E acted \in BOOLEAN :
       /\ acted => mode = "sessions" /\ Shown[act.row] \notin Blocked
       /\ SnapshotScreen(IF acted THEN 0 ELSE page, acted)

SnapshotRefresh ==
  /\ InSnapshot /\ act = PlainEnter
  /\ UNCHANGED <<mode, data>>
  /\ SnapshotScreen(0, TRUE)

SnapshotOther ==
  /\ InSnapshot /\ act.cmd \notin {"S", Blank}
  /\ UNCHANGED <<mode, data>>
  /\ SnapshotScreen(page, FALSE)

RunSnapshotList == \/ SnapshotEnd \/ SnapshotPage \/ SnapshotSelect \/ SnapshotRefresh \/ SnapshotOther

-----------------------------------------------------------------------------
(* Documents *)

(* strings.Join(lines, "\n") *)
JoinLines(ls) ==
  FlattenSeq([i \in 1 .. Len(ls) |->
    (IF i = 1 THEN <<>> ELSE <<NL>>) \o (IF ls[i] = Blank THEN <<>> ELSE <<ls[i]>>)])

(* A newline starts a line, a text is what its line holds.                 *)
Continue(ls, mark) == IF mark = NL THEN Append(ls, Blank) ELSE [ls EXCEPT ![Len(ls)] = mark]

(* strings.Split(content, "\n") *)
SplitLines(c) ==
  LET split[n \in 0 .. Len(c)] == IF n = 0 THEN <<Blank>> ELSE Continue(split[n - 1], c[n])
  IN split[Len(c)]

(* Document.Lines: none for no content; the newline at the end of a file   *)
(* starts no line.                                                         *)
DocumentLines(c) ==
  IF c = <<>> THEN <<>> ELSE SplitLines(IF c[Len(c)] = NL THEN SubSeq(c, 1, Len(c) - 1) ELSE c)

NeverEmpty(ls) == IF ls = <<>> THEN <<Blank>> ELSE ls

(* What one valid command does to the i-th line of l                       *)
Applied(l, i, command) ==
  CASE command = "I" -> InsertAt(l, i + 1, Blank)
    [] command = "D" -> RemoveAt(l, i)
    [] command = "R" -> InsertAt(l, i + 1, l[i])

(* Mutant: the commands are applied from the first line to the last. *)
applyPrefix_Ascending(ls, cmds) ==
  LET after[n \in 0 .. Len(ls)] ==
        IF n = 0 THEN ls
        ELSE IF n \notin DOMAIN cmds \/ n > Len(after[n - 1]) THEN after[n - 1]
        ELSE Applied(after[n - 1], n, cmds[n])
  IN IF \E i \in DOMAIN cmds : cmds[i] = "X" THEN ls ELSE NeverEmpty(after[Len(ls)])

(* One transmission's prefix commands: an invalid one vetoes them all, and *)
(* they are applied from the last line to the first; after[n] is what the  *)
(* commands on the last n lines leave.                                     *)
applyPrefix(ls, cmds) ==
  LET after[n \in 0 .. Len(ls)] ==
        IF n = 0 THEN ls
        ELSE LET i == Len(ls) + 1 - n
             IN IF i \in DOMAIN cmds THEN Applied(after[n - 1], i, cmds[i]) ELSE after[n - 1]
  IN IF \E i \in DOMAIN cmds : cmds[i] = "X" THEN ls ELSE NeverEmpty(after[Len(ls)])

Vetoed == \E i \in DOMAIN act.prefix : act.prefix[i] = "X"

(* The text fields come first, then the prefix commands. *)
Edited ==
  LET typed == [i \in 1 .. Len(lines) |-> IF i \in DOMAIN act.text THEN act.text[i] ELSE lines[i]]
  IN applyPrefix(typed, act.prefix)

(* documentEditor: RunEditor on the lines of the document *)
OpenEditor ==
  /\ mode = "menu"
  /\ mode' = "edit"
  /\ lines' = NeverEmpty(DocumentLines(doc))
  /\ UNCHANGED <<act, data, rows, page, pending, msg, doc>>

InEditor == mode = "edit" /\ act # Quiet

EditorScreen(p, m) ==
  /\ lines' = Edited
  /\ page' = pageBounds(p, Len(Edited)).page
  /\ msg' = m
  /\ act' = Quiet
  /\ UNCHANGED <<mode, data, rows, pending, doc>>

EditorApply ==
  /\ InEditor /\ act.pf \in {"none", "PF7", "PF8"}
  /\ EditorScreen(CASE act.pf = "none" -> page [] act.pf = "PF7" -> page - 1
                     [] act.pf = "PF8" -> NextPage(Len(Edited)),
                  IF Vetoed THEN Error ELSE Clear)

(* PF3 saves and ends, unless a command was refused, the content is too    *)
(* large, or the store fails.                                              *)
EditorSave ==
  /\ InEditor /\ act.pf = "PF3" /\ ~Vetoed
  /\ Len(JoinLines(Edited)) <= MaxDoc
  /\ doc' = JoinLines(Edited)
  /\ Leave

EditorSaveRefused ==
  /\ InEditor /\ act.pf = "PF3"
  /\ EditorScreen(page, Error)

EditorCancel == InEditor /\ act.pf = "PF12" /\ Leave /\ UNCHANGED doc

RunEditor == EditorApply \/ EditorSave \/ EditorSaveRefused \/ EditorCancel

(* Another document is chosen in the documents panel, or documentImport    *)
(* replaces the content by that of a file within the limit.                *)
Import ==
  /\ mode = "menu"
  /\ doc' \in Stored
  /\ UNCHANGED <<mode, act, data, rows, page, pending, msg, lines>>

-----------------------------------------------------------------------------
(* A transmission; the editor's leave at most MaxLines lines.              *)
Press ==
  /\ act = Quiet
  /\ act' \in CASE mode = "menu" -> {}
                [] mode = "list" -> ListTransmissions({"PF3", "PF4", "PF7", "PF8"})
                [] mode \in {"sessions", "audit"} -> ListTransmissions({"PF3", "PF7", "PF8"})
                [] mode = "edit" -> EditorTransmissions
  /\ UNCHANGED <<mode, data, rows, page, pending, msg, doc, lines>>
  /\ mode = "edit" => Len(Edited)' <= MaxLines

(* The terminal goes away in the middle of a panel: the driver returns the *)
(* error and the session ends; the next one starts at the menu.            *)
HangUp == mode # "menu" /\ act = Quiet /\ Leave /\ UNCHANGED doc

(* Other administrators, or sessions that come and go *)
Others ==
  /\ act = Quiet
  /\ \/ mode \in Lists /\ data' \in {data \cup {x} : x \in Items} \cup {data \ {x} : x \in Items} /\ UNCHANGED doc
     \/ mode = "edit" /\ doc' \in Stored /\ UNCHANGED data
  /\ UNCHANGED <<mode, act, rows, page, pending, msg, lines>>

Init ==
  /\ mode = "menu" /\ act = Quiet
  /\ data = {} /\ rows = <<>> /\ page = 0 /\ pending = Quiet /\ msg = Clear
  /\ doc = <<>> /\ lines = <<>>

Next ==
  \/ OpenList \/ OpenSnapshot \/ OpenEditor \/ Import
  \/ Press \/ RunList \/ RunSnapshotList \/ RunEditor
  \/ HangUp \/ Others

Spec == Init /\ [][Next]_vars

-----------------------------------------------------------------------------
(* Properties *)

Contents == Seq(Texts \cup Wides \cup {NL})

(* Every variable has its type, and the page shown has rows whenever the   *)
(* panel has any, whatever others deleted since (pageBounds).              *)
TypeOK ==
  /\ mode \in Lists \cup {"menu", "edit"}
  /\ data \subseteq Items /\ rows \in Seq(Items) /\ page \in Nat
  /\ pending \in Items \cup {Quiet}
  /\ msg \in [kind : {"none", "error", "prompt"}, item : Items \cup {Quiet}]
  /\ doc \in Contents /\ Len(doc) <= MaxDoc
  /\ lines \in Seq(Texts \cup Wides \cup {Blank})
  /\ mode = "edit" => Visible # {}
  /\ mode \in Lists /\ rows # <<>> => Shown # <<>>

(* RunList deletes a row only on the Enter that answers the prompt naming  *)
(* that very row, whatever keys were pressed, rows changed and fetches     *)
(* failed between the command and the Enter.                               *)
PromptedCommit ==
  [][mode = "list" /\ mode' = "list" /\ act # Quiet /\ act.pf # "PF4" /\ data' # data =>
       /\ act = PlainEnter
       /\ \E x \in Items : msg = Prompt(x) /\ data' = data \ {x}]_vars

Following(s) == SubSeq(s, Bounds.end + 1, IF Bounds.end + PageSize < Len(s) THEN Bounds.end + PageSize ELSE Len(s))
Preceding(s) == SubSeq(s, Bounds.start - PageSize + 1, Bounds.start)

Pages(modes) ==
  mode \in modes /\ mode' = mode /\ act # Quiet /\ act' = Quiet /\ rows' = rows =>
    /\ act.pf = "PF8" /\ Bounds.end < Len(rows) => Shown' = Following(rows)
    /\ act.pf = "PF7" /\ Bounds.start > 0 => Shown' = Preceding(rows)

(* In a list panel PF8 shows the rows that follow the page, and PF7 those  *)
(* before it, when the rows fetched are the same: no row is skipped, none  *)
(* is out of reach (RunList, pageBounds).                                  *)
ListPaging == [][Pages({"list"})]_vars

(* The same of the sessions and audit panels, as the comment of            *)
(* RunSnapshotList and the administrator's guide say: "PF7/PF8 page".      *)
SnapshotPaging == [][Pages({"sessions", "audit"})]_vars

(* What the editor's prefix commands mean, line by line *)
Meaning(ls) ==
  LET Image(i) == LET l == IF i \in DOMAIN act.text THEN act.text[i] ELSE ls[i]
                      c == IF Vetoed \/ i \notin DOMAIN act.prefix THEN "none" ELSE act.prefix[i]
                  IN CASE c = "none" -> <<l>>
                       [] c = "I" -> <<l, Blank>>
                       [] c = "D" -> <<>>
                       [] c = "R" -> <<l, l>>
      all == FlattenSeq([i \in 1 .. Len(ls) |-> Image(i)])
  IN IF all = <<>> THEN <<Blank>> ELSE all

(* A transmission of the editor does to every line what was typed on it,   *)
(* for all commands at once and none moving the target of another, and     *)
(* wide lines keep their text; PF3 saves content that reads back as those  *)
(* lines but for one blank line at the end, and nothing else changes the   *)
(* document (RunEditor, applyPrefix, Document.Lines).                      *)
EditExact ==
  [][mode = "edit" /\ act # Quiet /\ act' = Quiet =>
       \/ mode' = "edit" /\ lines' = Meaning(lines) /\ doc' = doc
       \/ mode' = "menu" /\ act.pf = "PF12" /\ doc' = doc
       \/ /\ mode' = "menu" /\ act.pf = "PF3" /\ ~Vetoed
          /\ LET m == Meaning(lines)
             IN NeverEmpty(DocumentLines(doc')) =
                  IF Len(m) > 1 /\ Last(m) = Blank THEN Front(m) ELSE m]_vars
=============================================================================
