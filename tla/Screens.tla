------------------------------ MODULE Screens ------------------------------
(***************************************************************************)
(* Where the lines of a screen go: the layout arithmetic of                *)
(* internal/screens/geometry.go and internal/ui3270/layout.go, and the     *)
(* builders that use it (menu.go, news.go, help.go, login.go,              *)
(* usersettings.go, mfa.go, admin.go of internal/screens; screen.go,       *)
(* snapshotscreen.go, editorscreen.go of internal/ui3270).                 *)
(*                                                                         *)
(* Abstractions.  A screen is the set of its lines; a line has a row, the  *)
(* left or the right half of it (column 1 or 2), what it is, and which one *)
(* of its kind.  Wording, colours and columns within a half are left out.  *)
(* A terminal t is <<rows, columns>> as it reports them.                   *)
(***************************************************************************)
EXTENDS Integers, SequencesExt

(* normalizeTerm, norm and normRows: an unknown or small size is MOD 2.    *)
Rows(t) == IF t[1] < 24 \/ t[2] < 80 THEN 24 ELSE t[1]

HelpRow(t) == Rows(t) - 1
LegendRow(t) == Rows(t) - 4
MessageRow == 2
BodyTopRow == 3
BodyBottomRow(t) == Rows(t) - 2
CompactMessageRow(t) == HelpRow(t) - 1

(* Mutant: no row is kept for the A entry. *)
MenuCapacity_NoBand(t, admin) == BodyBottomRow(t) - 1 - BodyTopRow + 1 - 1

(* The body less the blank row, the row of 0 and, for administrators, that *)
(* of A                                                                    *)
MenuCapacity(t, admin) ==
  BodyBottomRow(t) - 1 - BodyTopRow + 1 - 1 - (IF admin THEN 1 ELSE 0)

NewsLinesPerPage(t) == Rows(t) - 2
HelpPageSize(t) == BodyBottomRow(t) - BodyTopRow + 1
ListPageSize(t) == Rows(t) - 10

FormMaxFields(t) == (Rows(t) - 8) \div 2 + 1

LoginBrandingTop == 4
LoginBrandingHeight(t) == BodyBottomRow(t) - LoginBrandingTop

Smaller(a, b) == IF a < b THEN a ELSE b

(* MenuPageBounds and HelpPageBounds: the page nearest to the one asked    *)
(* for that has anything on it, and what it shows, end not included        *)
PageBounds(size, total, page) ==
  LET maxPage == (total - 1) \div size
      p == IF total = 0 \/ page < 0 THEN 0 ELSE Smaller(page, maxPage)
  IN [page |-> p, start |-> p * size, end |-> Smaller(p * size + size, total)]

-----------------------------------------------------------------------------
Line(row, col, what, no) == [row |-> row, col |-> col, what |-> what, no |-> no]

(* n lines from a row down, the first of which is number first *)
Block(row, col, what, first, n) == {Line(row + i - 1, col, what, first + i - 1) : i \in 1 .. n}

Title == {Line(0, 1, "title", 0)}
CommandLine == {Line(1, 1, "command", 0)}
Message == {Line(MessageRow, 1, "message", 0)}
KeyLine(t) == {Line(HelpRow(t), 1, "keys", 0)}

(* n services, the first of the page numbered start + 1 *)
MenuScreen(t, n, admin, locked, page) ==
  LET b == PageBounds(MenuCapacity(t, admin), n, page)
      settings == IF b.page = 0 /\ ~locked THEN 1 ELSE 0
      row == BodyTopRow + settings
      next == row + b.end - b.start
  IN Title \cup {Line(0, 2, "items", 0)} \cup CommandLine \cup Message \cup KeyLine(t)
     \cup Block(BodyTopRow, 1, "settings", 0, settings)
     \cup Block(row, 1, "service", b.start + 1, b.end - b.start)
     \cup Block(next, 1, "none", 0, IF n = 0 THEN 1 ELSE 0)
     \cup Block(next + 1, 1, "admin", 0, IF admin THEN 1 ELSE 0)
     \cup Block(BodyTopRow, 2, "status", 1, 6)

(* A page of news, its lines first .. first + n - 1, and the gate; there   *)
(* is no title and no key line.                                            *)
NewsScreen(first, n) == Block(0, 1, "text", first, n) \cup {Line(n + 1, 1, "gate", 0)}

HelpScreen(t, n, page) ==
  LET b == PageBounds(HelpPageSize(t), n, page)
  IN Title \cup {Line(0, 2, "page", 0)} \cup KeyLine(t)
     \cup Block(BodyTopRow, 1, "text", b.start + 1, b.end - b.start)

(* n lines of branding, centered, or cut off at the bottom *)
LoginScreen(t, n) ==
  LET h == LoginBrandingHeight(t)
      m == Smaller(n, h)
  IN Title \cup {Line(1, 1, "message", 0)} \cup KeyLine(t)
     \cup Block(0, 2, "status", 1, 4)
     \cup Block(LoginBrandingTop + (h - m) \div 2, 1, "text", 1, m)
     \cup {Line(BodyBottomRow(t), 1, "user", 0), Line(BodyBottomRow(t), 2, "password", 0)}

(* n options below row top *)
OptionScreen(t, top, n) ==
  Title \cup CommandLine \cup Message \cup KeyLine(t) \cup Block(top, 1, "option", 1, n)

AdminMenuScreen(t) == OptionScreen(t, BodyTopRow, 8)

UserSettingsScreen(t, n) ==
  OptionScreen(t, BodyTopRow + 2, n) \cup {Line(BodyTopRow, 1, "user", 0)}

(* A page of a panel, with n data rows; more than fit are left out. *)
Panel(t, n) ==
  Title \cup {Line(0, 2, "rows", 0)} \cup Message \cup KeyLine(t)
    \cup {Line(BodyTopRow, 1, "heading", 0), Line(LegendRow(t), 1, "legend", 0)}
    \cup Block(4, 1, "row", 1, n)

NoRows(n) == Block(4, 1, "none", 0, IF n = 0 THEN 1 ELSE 0)

buildListScreen(t, n) ==
  LET m == Smaller(n, ListPageSize(t)) IN Panel(t, m) \cup NoRows(m)

buildSnapshotScreen(t, n) ==
  LET m == Smaller(n, ListPageSize(t)) IN Panel(t, m) \cup NoRows(m) \cup {Line(1, 1, "asOf", 0)}

(* The editor gives its screen a page of lines and ends the last of them   *)
(* with a field in the row below.                                          *)
buildEditorScreen(t, n) ==
  LET m == Smaller(n, ListPageSize(t))
  IN Panel(t, m) \cup {Line(IF m = 0 THEN 5 ELSE 4 + m, 1, "stop", 0)}

(* buildFormScreen: n fields two rows apart; those that do not fit are     *)
(* left out.                                                               *)
FormScreen(t, n) ==
  Title \cup Message \cup KeyLine(t)
    \cup {Line(BodyTopRow + 2 * (i - 1), 1, "field", i) : i \in 1 .. Smaller(n, FormMaxFields(t))}

(* buildCompactFormScreen.  A field is primary, second (SameRow, on the    *)
(* right of the row before), after a gap (GapBefore), or the first of a    *)
(* section, below a banner.  The row of field i is the first one and a row *)
(* for each field on the left up to it, each gap or gutter (none above the *)
(* first field), and each banner.                                          *)
FieldsOnLeft(fields, i) == {j \in 1 .. i : fields[j] # "second"}
Gutters(fields, i) ==
  {j \in FieldsOnLeft(fields, i) : fields[j] \in {"gap", "section"} /\ \E h \in FieldsOnLeft(fields, i) : h < j}
Banners(fields, i) == {j \in FieldsOnLeft(fields, i) : fields[j] = "section"}

CompactRow(intro, fields, i) ==
  (IF intro THEN 4 ELSE 2) - 1
    + Cardinality(FieldsOnLeft(fields, i)) + Cardinality(Gutters(fields, i)) + Cardinality(Banners(fields, i))

(* The rows grow from field to field, so all that comes after a field or a *)
(* banner below the limit is left out, as is a second with no field on its *)
(* left.                                                                   *)
CompactForm(t, intro, fields) ==
  LET limit == CompactMessageRow(t) - 1
      At(i) == CompactRow(intro, fields, i)
      led == {i \in DOMAIN fields : FieldsOnLeft(fields, i) # {}}
  IN {Line(At(i), IF fields[i] = "second" THEN 2 ELSE 1, "field", i) : i \in {j \in led : At(j) <= limit}}
     \cup {Line(At(i) - 1, 1, "banner", i) : i \in {j \in led : fields[j] = "section" /\ At(j) - 1 <= limit}}

CompactFormScreen(t, intro, fields) ==
  Title \cup KeyLine(t) \cup {Line(CompactMessageRow(t), 1, "message", 0)}
    \cup Block(2, 1, "intro", 0, IF intro THEN 1 ELSE 0)
    \cup CompactForm(t, intro, fields)

(* buildDetailScreen: n fields, a blank row, and below a label, if there   *)
(* is one, the text wrapped to k lines, cut off above the key line         *)
DetailScreen(t, n, label, k) ==
  LET top == BodyTopRow + n + 1
      below == top + (IF label THEN 1 ELSE 0)
  IN Title \cup Message \cup KeyLine(t)
     \cup Block(BodyTopRow, 1, "field", 1, n)
     \cup Block(top, 1, "label", 0, below - top)
     \cup Block(below, 1, "text", 1, Smaller(k, HelpRow(t) - below))
=============================================================================
