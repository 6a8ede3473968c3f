-------------------------------- MODULE Menu --------------------------------
(***************************************************************************)
(* What a user sees between login and logoff: the MOTD, the service menu   *)
(* with its help, and the screens opened from it (go3270Presenter of       *)
(* internal/server/presenter.go, called by the menu loop and maybeShowNews *)
(* of session.go), laid out by Screens.tla on a terminal of any size,      *)
(* while administrators change which services the user's groups have.      *)
(*                                                                         *)
(* Abstractions.  A step is one transmission, up to the next screen.  A    *)
(* service is its place in the order of all names.  Groups are those found *)
(* at login (identity.Groups); documents may differ at each read.  The     *)
(* panels, forms and details behind 0 and A appear with their layout only: *)
(* Panels.tla, Forms.tla, Session.tla and Auth.tla have what they do.      *)
(***************************************************************************)
EXTENDS Screens, Sorted, FiniteSetsExt

CONSTANTS
  Terminals,   \* sizes terminals report
  Groups,      \* groups with services; "ADMIN" is another
  Catalogues,  \* sets of services a group may have
  Documents,   \* texts of the MOTD and the help, and of branding: sequences
               \* of lines, each "text" or "blank"
  CompactForms, \* compact forms of the panels: whether there is an intro,
               \* and the fields
  FormSizes,    \* numbers of fields of the other forms
  Details,     \* details: the number of fields, whether there is a label,
               \* and the lines of text below it
  PanelRows    \* numbers of rows on a page of a panel

ASSUME MenuAssumption ==
  /\ Terminals \subseteq Nat \X Nat
  /\ IsFiniteSet(Groups) /\ "ADMIN" \notin Groups
  /\ \A c \in Catalogues : IsFiniteSet(c) /\ c \subseteq Nat \ {0}
  /\ \A d \in Documents : d \in Seq({"text", "blank"})
  /\ PanelRows \subseteq Nat

(* Every form and detail in internal/server has room on a terminal of 24   *)
(* rows, none has two fields in a row on the right, and none begins there. *)
ASSUME LayoutAssumption ==
  /\ FormSizes \subseteq 0 .. 9
  /\ Details \subseteq (0 .. 8) \X BOOLEAN \X Nat
  /\ \A f \in CompactForms :
       /\ f.intro \in BOOLEAN /\ f.fields \in Seq({"primary", "second", "gap", "section"})
       /\ \A i \in DOMAIN f.fields :
            /\ f.fields[i] = "second" => i > 1 /\ f.fields[i - 1] # "second"
            /\ CompactRow(f.intro, f.fields, i) <= 21

VARIABLES
  term,      \* the terminal's size
  grants,    \* the services each group has now
  groups,    \* identity.Groups
  locked,    \* settingsLocked, captured before the menu
  screen,    \* the screen on the terminal
  list,      \* the services as the menu was given them
  menuPage,  \* page of the menu
  text,      \* the document being read
  docPage,   \* page of it
  typed,     \* history: the last selection
  target,    \* the service of the bridge, 0 for none
  granted,   \* history: what the groups had when the list was read
  read       \* history: lines of the document shown so far

menuVars == <<term, grants, groups, locked, screen, list, menuPage, text, docPage, typed, target, granted, read>>
access == <<term, grants, groups, locked>>
menu == <<list, menuPage, typed, target, granted>>
viewer == <<text, docPage, read>>

On(kind) == screen.kind = kind
AtLogin(n) == [kind |-> "login", n |-> n]
NoLines == <<>>

isAdmin == "ADMIN" \in groups

NoMenu == list' = <<>> /\ menuPage' = 0 /\ typed' = 0 /\ target' = 0 /\ granted' = {}
NoText == text' = NoLines /\ docPage' = 0 /\ read' = {}

(* SplitBranding and PaginateNews drop the blank lines at the end of a     *)
(* document.                                                               *)
Trimmed(d) ==
  IF \A i \in DOMAIN d : d[i] = "blank" THEN NoLines
  ELSE SubSeq(d, 1, CHOOSE n \in DOMAIN d : d[n] # "blank" /\ \A i \in n + 1 .. Len(d) : d[i] = "blank")

MenuInit ==
  /\ term \in Terminals
  /\ grants \in [Groups -> Catalogues]
  /\ groups = {} /\ locked = FALSE
  /\ screen = AtLogin(0)
  /\ list = <<>> /\ menuPage = 0 /\ typed = 0 /\ target = 0 /\ granted = {}
  /\ text = NoLines /\ docPage = 0 /\ read = {}

-----------------------------------------------------------------------------
(* The service list *)

Granted(G) == UNION {grants[g] : g \in G \cap Groups}

(* The top of the menu loop: ListServicesForGroups, in the order of the    *)
(* names, which may fail; and the menu on its first page                   *)
EnterMenu ==
  /\ screen' = [kind |-> "menu", n |-> 0]
  /\ \E ok \in BOOLEAN :
       /\ granted' = IF ok THEN Granted(groups') ELSE {}
       /\ list' = Ascending(granted')
  /\ menuPage' = 0 /\ typed' = 0 /\ target' = 0

(* Mutant: the numbers on a page start at 1. *)
Mapping_PerPage ==
  LET b == PageBounds(MenuCapacity(term, isAdmin), Len(list), menuPage)
  IN [i \in 1 .. b.end - b.start |-> list[b.start + i]]

(* MenuScreen's mapping: every service by its number in the whole list     *)
Mapping == [i \in 1 .. Len(list) |-> list[i]]

MenuBounds(page) == PageBounds(MenuCapacity(term, isAdmin), Len(list), page)

-----------------------------------------------------------------------------
(* Login and news *)

LinesOf(first, n) == first .. first + n - 1

NewsPage(i, total) ==
  LET per == NewsLinesPerPage(term)
  IN [first |-> i * per + 1, n |-> Smaller(per, total - i * per)]

(* Page i of the document is on the terminal. *)
ShowNews(i, lines) ==
  LET p == NewsPage(i, Len(lines))
  IN /\ screen' = [kind |-> "news", n |-> p.n]
     /\ text' = lines /\ docPage' = i
     /\ read' = (IF i = 0 THEN {} ELSE read) \cup LinesOf(p.first, p.n)

(* To the menu for the first time: the settings lock is looked up, and     *)
(* open when that fails.                                                   *)
Arrive ==
  /\ EnterMenu
  /\ locked' \in BOOLEAN
  /\ NoText

(* Past login and the MFA gate: the MOTD, when there is one *)
SignOn ==
  /\ On("login")
  /\ groups' \in SUBSET (Groups \cup {"ADMIN"})
  /\ \/ \E d \in Documents :
          Trimmed(d) # NoLines /\ ShowNews(0, Trimmed(d)) /\ NoMenu /\ UNCHANGED locked
     \/ Arrive
  /\ UNCHANGED <<term, grants>>

(* Mutant: a last page that is not full is not counted. *)
NewsPages_Floor == Len(text) \div NewsLinesPerPage(term)

NewsPages == (Len(text) + NewsLinesPerPage(term) - 1) \div NewsLinesPerPage(term)

(* Enter shows the next page, and after the last one the menu. *)
NewsEnter ==
  /\ On("news")
  /\ \/ docPage + 1 < NewsPages /\ ShowNews(docPage + 1, text) /\ UNCHANGED <<groups, locked, menu>>
     \/ docPage + 1 >= NewsPages /\ UNCHANGED groups /\ Arrive
  /\ UNCHANGED <<term, grants>>

-----------------------------------------------------------------------------
(* The menu *)

(* PF7 and PF8 *)
MenuPaging ==
  /\ On("menu")
  /\ \E p \in {menuPage - 1, menuPage + 1} : menuPage' = MenuBounds(p).page
  /\ UNCHANGED <<access, screen, list, typed, target, granted, viewer>>

(* Enter with a number that is in the mapping: the service is bridged. *)
MenuService ==
  /\ On("menu")
  /\ \E n \in DOMAIN Mapping : typed' = n /\ target' = Mapping[n]
  /\ screen' = [kind |-> "bridge", n |-> 0]
  /\ UNCHANGED <<access, list, menuPage, granted, viewer>>

(* Enter with something else: an error on the same page, or with an empty  *)
(* list a new one                                                          *)
MenuInvalid ==
  /\ On("menu")
  /\ \/ list # <<>> /\ UNCHANGED <<screen, menu>>
     \/ list = <<>> /\ UNCHANGED groups /\ EnterMenu
  /\ UNCHANGED <<access, viewer>>

(* PF1: the help document, if there is one; Document.Lines drops no line.  *)
MenuHelp ==
  /\ On("menu")
  /\ \E d \in Documents \ {NoLines} :
       /\ text' = d /\ docPage' = 0 /\ read' = {}
       /\ screen' = [kind |-> "help", n |-> Len(d)]
  /\ UNCHANGED <<access, menu>>

(* runHelpViewer *)
HelpBounds(page) == PageBounds(HelpPageSize(term), Len(text), page)

HelpPaging ==
  /\ On("help")
  /\ \E p \in {docPage - 1, docPage + 1} : docPage' = HelpBounds(p).page
  /\ UNCHANGED <<access, screen, menu, text, read>>

(* Enter or PF3: the menu as it was left *)
HelpEnd ==
  /\ On("help")
  /\ screen' = [kind |-> "menu", n |-> 0]
  /\ NoText
  /\ UNCHANGED <<access, menu>>

(* A, 0, and what they open; the menu is read anew on the way back. *)
OpenScreen(s) ==
  /\ screen' = s
  /\ NoMenu
  /\ UNCHANGED <<access, viewer>>

OpenFlow ==
  /\ On("menu")
  /\ \/ isAdmin /\ OpenScreen([kind |-> "admin", n |-> 0])
     \/ ~locked /\ \E n \in 1 .. 3 : OpenScreen([kind |-> "settings", n |-> n])

(* A panel, a form or a detail of those *)
Open(kind, S) == \E x \in S : OpenScreen([kind |-> kind, n |-> x])

OpenPicture ==
  /\ On("admin") \/ On("settings")
  /\ \/ \E kind \in {"list", "snapshot", "editor"} : Open(kind, PanelRows)
     \/ Open("detail", Details)
     \/ Open("form", FormSizes) \/ Open("compact", CompactForms)

BackToOptions ==
  /\ screen.kind \in {"list", "snapshot", "editor", "detail", "form", "compact"}
  /\ \/ isAdmin /\ OpenScreen([kind |-> "admin", n |-> 0])
     \/ ~locked /\ \E n \in 1 .. 3 : OpenScreen([kind |-> "settings", n |-> n])

(* PF3, or the bridge is over *)
BackToMenu ==
  /\ screen.kind \in {"admin", "settings", "bridge"}
  /\ UNCHANGED <<access, viewer>>
  /\ EnterMenu

(* PF3 at the menu, or an idle user: the login screen, with branding of    *)
(* some length; or the terminal goes away and another one connects.        *)
Logoff ==
  /\ ~On("login")
  /\ screen' \in {AtLogin(Len(Trimmed(d))) : d \in Documents}
  /\ NoMenu /\ NoText
  /\ groups' = {} /\ locked' = FALSE
  /\ term' \in {term} \cup Terminals
  /\ UNCHANGED grants

(* An administrator changes what a group has. *)
Regrant ==
  /\ \E g \in Groups, c \in Catalogues : grants' = [grants EXCEPT ![g] = c]
  /\ UNCHANGED <<term, groups, locked, screen, menu, viewer>>

MenuNext ==
  \/ SignOn \/ NewsEnter
  \/ MenuPaging \/ MenuService \/ MenuInvalid \/ MenuHelp \/ HelpPaging \/ HelpEnd
  \/ OpenFlow \/ OpenPicture \/ BackToOptions \/ BackToMenu
  \/ Logoff \/ Regrant

MenuSpec == MenuInit /\ [][MenuNext]_menuVars

-----------------------------------------------------------------------------
(* Properties *)

(* What is on the terminal *)
Lines ==
  CASE On("login") -> LoginScreen(term, screen.n)
    [] On("news") -> NewsScreen(NewsPage(docPage, Len(text)).first, screen.n)
    [] On("menu") -> MenuScreen(term, Len(list), isAdmin, locked, menuPage)
    [] On("help") -> HelpScreen(term, Len(text), docPage)
    [] On("admin") -> AdminMenuScreen(term)
    [] On("settings") -> UserSettingsScreen(term, screen.n)
    [] On("list") -> buildListScreen(term, screen.n)
    [] On("snapshot") -> buildSnapshotScreen(term, screen.n)
    [] On("editor") -> buildEditorScreen(term, screen.n)
    [] On("form") -> FormScreen(term, screen.n)
    [] On("compact") -> CompactFormScreen(term, screen.n.intro, screen.n.fields)
    [] On("detail") -> DetailScreen(term, screen.n[1], screen.n[2], screen.n[3])
    [] On("bridge") -> {}

FieldsOf(s) == IF s.kind = "form" THEN s.n ELSE Len(s.n.fields)

(* ScreenFits: on a terminal of any size every screen keeps within it, no  *)
(* line is written over another, the last page of the menu with its        *)
(* administration entry and a full page of news with its gate included,    *)
(* and no field of a form is left out (geometry.go, buildFormScreen).      *)
ScreenFits ==
  /\ \A l \in Lines : l.row \in 0 .. Rows(term) - 1
  /\ \A l, m \in Lines : l.row = m.row /\ l.col = m.col => l = m
  /\ screen.kind \in {"form", "compact"} =>
       \A i \in 1 .. FieldsOf(screen) : \E l \in Lines : l.what = "field" /\ l.no = i

NumbersOn(page) ==
  {l.no : l \in {m \in MenuScreen(term, Len(list), isAdmin, locked, page) : m.what = "service"}}

(* PickExact: the bridge goes to the service that stands beside the number *)
(* typed, whatever page was shown, and it is one that a group of the user  *)
(* had when the menu was last read; and paging with PF8 from the first     *)
(* page shows every service of the list once (MenuScreen, Menu).           *)
PickExact ==
  /\ On("bridge") =>
       /\ target \in granted
       /\ Cardinality({v \in granted : v < target}) = typed - 1
       /\ \E p \in 0 .. Len(list) : typed \in NumbersOn(p)
  /\ On("menu") /\ list # <<>> =>
       LET next == MenuBounds(menuPage + 1).page
       IN IF next = menuPage THEN Len(list) \in NumbersOn(menuPage)
          ELSE Min(NumbersOn(next)) = Max(NumbersOn(menuPage)) + 1

(* NewsRead: the menu comes up only when every line of the MOTD has been   *)
(* on the terminal (PaginateNews, News).                                   *)
NewsRead == [][On("news") /\ screen'.kind = "menu" => read = DOMAIN text]_menuVars
=============================================================================
