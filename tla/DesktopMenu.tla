------------------------------ MODULE DesktopMenu ------------------------------
(***************************************************************************)
(* The menu of the desktop profile (src/im-desktop-menu.c on top of        *)
(* src/im-menu.c): the chat status entries once a chat application is      *)
(* there, the places of the default chat and mail clients, one section for *)
(* every other application, sorted by name, and "Clear".                   *)
(*                                                                         *)
(* The section of an application ends with its source section, which the   *)
(* menu finds through the table source_sections; launcher and shortcut     *)
(* entries are left out.                                                   *)
(***************************************************************************)
EXTENDS Integers, SequencesExt, FiniteSetsExt

CONSTANTS App, Source,
          SortName,   \* SortName[a]: the rank of the name of a, as collated
          ChatApp,    \* applications with X-MessagingMenu-UsesChatSection
          Empathy     \* the hard-coded default chat client, if it exists

VARIABLE desktop   \* sections: the toplevel menu; status: chat entries shown;
                   \* chat, mail: content of the default client sections;
                   \* entries: the table source_sections

Nobody == "nobody"
Fixed == {"status", "chat", "mail", "clear"}

EmptyDesktop == [sections |-> <<"chat", "mail", "clear">>,
                 status   |-> FALSE,
                 chat     |-> Nobody,
                 mail     |-> Nobody,
                 entries  |-> << >>]

DesktopTypeOK ==
  /\ DOMAIN desktop = {"sections", "status", "chat", "mail", "entries"}
  /\ desktop.sections \in Seq(App \cup Fixed)
  /\ desktop.status \in BOOLEAN
  /\ desktop.chat \in App \cup {Nobody} /\ desktop.mail \in App \cup {Nobody}
  /\ DOMAIN desktop.entries \subseteq App
  /\ \A a \in DOMAIN desktop.entries : desktop.entries[a] \in Seq(Source)

-----------------------------------------------------------------------------
\* im_menu_insert_item_sorted: positions are counted from 0, a negative last
\* from the end.
InsertSorted(sections, a, first, last) ==
  LET greater == {p \in first..(last - 1) : /\ sections[p + 1] \in App
                                            /\ SortName[a] < SortName[sections[p + 1]]}
  IN InsertAt(sections, Min(greater \cup {last}) + 1, a)

\* Mutant: as if the status entries were always shown.
FirstSectionFixed(status) == 3

\* Where the sections of applications start.
FirstSection(status) == IF status THEN 3 ELSE 2

\* The section of a: in a default section, whose content it replaces, or sorted.
AddSection(d, a, mailer) ==
  IF a \in Empathy THEN [d EXCEPT !.chat = a]
  ELSE IF mailer THEN [d EXCEPT !.mail = a]
  ELSE [d EXCEPT !.sections =
          InsertSorted(@, a, FirstSection(d.status), Len(@) - 1)]

ShowChatSection(d) ==
  IF d.status THEN d
  ELSE [d EXCEPT !.sections = <<"status">> \o @, !.status = TRUE]

\* app-added: mailer says whether a is the default for mailto links now.
AppAdded(d, a, mailer) ==
  LET shown == IF a \in ChatApp THEN ShowChatSection(d) ELSE d
      with  == AddSection(shown, a, mailer)
  IN [with EXCEPT !.entries = [b \in DOMAIN @ \cup {a} |-> IF b = a THEN << >> ELSE @[b]]]

\* A new menu adds the applications that are listed, in the table's order.
Constructed(order, mailers) ==
  FoldLeft(LAMBDA d, a : AppAdded(d, a, a \in mailers), EmptyDesktop, order)

-----------------------------------------------------------------------------
(* The source section of one application.                                  *)

\* Positions from 1, 0 when there is no such entry.
FindSource(section, s) == SelectInSeq(section, LAMBDA t : t = s)

WithoutFirst(section, s) ==
  IF FindSource(section, s) = 0 THEN section
  ELSE RemoveAt(section, FindSource(section, s))

\* Mutant: a source that changes is not put back.
ChangeRemoves(section, s, visible) == WithoutFirst(section, s)

InsertSource(section, s, pos) ==
  IF pos = 0 THEN Append(section, s) ELSE InsertAt(section, pos, s)

\* An entry stays where it was; a source without one gets it at the end.
Change(section, s, visible) ==
  LET without == WithoutFirst(section, s) IN
  IF visible THEN InsertSource(without, s, FindSource(section, s)) ELSE without

-----------------------------------------------------------------------------
(* Handlers of the signals of the application list.                        *)

DesktopAppAdded(a, mailer) == desktop' = AppAdded(desktop, a, mailer)

\* The visible ones of the sources that were added, in their order.
SourcesAdded(a, visible) ==
  desktop' = [desktop EXCEPT !.entries[a] = @ \o visible]

SourceRemoved(a, s) ==
  desktop' = [desktop EXCEPT !.entries[a] = WithoutFirst(@, s)]

SourceChanged(a, s, visible) ==
  desktop' = [desktop EXCEPT !.entries[a] = Change(@, s, visible)]

AppStopped(a) == desktop' = [desktop EXCEPT !.entries[a] = << >>]

ClearDesktop ==
  desktop' = [desktop EXCEPT !.entries = [a \in DOMAIN @ |-> << >>]]

-----------------------------------------------------------------------------
(***************************************************************************)
(* The sections are where they belong: status entries first, then the      *)
(* default clients, the applications in the order of their names, none     *)
(* twice, and "Clear" at the end, in whatever order applications and the   *)
(* status entries came.                                                    *)
(***************************************************************************)
SectionsInOrder ==
  LET sections == desktop.sections
      fixed    == IF desktop.status THEN <<"status", "chat", "mail">> ELSE <<"chat", "mail">>
      sorted   == (Len(fixed) + 1)..(Len(sections) - 1)
  IN /\ \A p \in DOMAIN fixed : sections[p] = fixed[p]
     /\ \A p \in sorted : sections[p] \in App
     /\ sections[Len(sections)] = "clear"
     /\ \A p, q \in sorted :
          p < q => /\ sections[p] # sections[q]
                   /\ SortName[sections[p]] <= SortName[sections[q]]

=============================================================================
