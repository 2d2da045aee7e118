------------------------------- MODULE PhoneMenu -------------------------------
(***************************************************************************)
(* The menu of the phone profile (src/im-phone-menu.c): one section with   *)
(* the messages of all applications, newest first, and a "Clear All" entry *)
(* that is there while the section has entries.  The handlers below are    *)
(* those that im_phone_menu_constructed connects to the application list;  *)
(* nothing connects or calls add_source and remove_source, so the section  *)
(* for sources is always empty and left out.                               *)
(*                                                                         *)
(* An entry keeps the application, the message it activates and its time.  *)
(***************************************************************************)
EXTENDS Naturals, SequencesExt, FiniteSetsExt

CONSTANTS App, Message, Time

VARIABLE phone   \* messages: the section; clear: "Clear All" is there;
                 \* dead: the process died of a freed entry

Entry == [app : App, id : Message, time : Time]

PhoneTypeOK == phone \in [messages : Seq(Entry), clear : BOOLEAN, dead : BOOLEAN]

EmptyPhone == [messages |-> << >>, clear |-> FALSE, dead |-> FALSE]

PhoneInit == phone = EmptyPhone

\* The section has become `messages'; im_phone_menu_update_clear_section.
UpdateClear(messages) ==
  [phone EXCEPT !.messages = messages, !.clear = (messages # << >>)]

\* Mutant: stops in front of the first message that is not older.
InsertOldestFirst(messages, e) ==
  LET older == {p \in DOMAIN messages : \A q \in 1..p : e.time > messages[q].time}
  IN InsertAt(messages, Cardinality(older) + 1, e)

\* In front of the first message that is not newer.
Insert(messages, e) ==
  LET newer == {p \in DOMAIN messages : \A q \in 1..p : e.time < messages[q].time}
  IN InsertAt(messages, Cardinality(newer) + 1, e)

\* Messages of an application, one after the other.
AddMessages(a, added) ==
  phone' = UpdateClear(
             FoldLeft(LAMBDA ms, x : Insert(ms, [app |-> a, id |-> x.id, time |-> x.time]),
                      phone.messages, added))

-----------------------------------------------------------------------------
(***************************************************************************)
(* Removing the entries of a message walks over the positions that the     *)
(* section had before the first removal.  Each removal moves the rest up,  *)
(* so the entry after a removed one is not looked at: of a run of matching *)
(* entries every second one stays.                                         *)
(***************************************************************************)
Matches(e, a, m) == e.app = a /\ e.id = m

Removed(messages, a, m) ==
  {p \in DOMAIN messages :
     LET before == {q \in 1..(p - 1) : ~Matches(messages[q], a, m)}
     IN Matches(messages[p], a, m) /\ (p - 1 - Max({0} \cup before)) % 2 = 0}

\* The entries at some positions, in their order.
Keep(messages, positions) ==
  LET nth(i) == CHOOSE p \in positions : Cardinality({q \in positions : q <= p}) = i
  IN [i \in 1..Cardinality(positions) |-> messages[nth(i)]]

(***************************************************************************)
(* The walk goes on behind the end of the shortened section.  What it      *)
(* finds there is a copy of the entry that was last; it is freed already   *)
(* when that one has been removed before the walk is there.                *)
(***************************************************************************)
ReadsFreed(messages, removed) ==
  Cardinality(removed) >= 2 /\ Len(messages) \in removed

RemoveMessage(a, m) ==
  LET gone == Removed(phone.messages, a, m)
      rest == UpdateClear(Keep(phone.messages, DOMAIN phone.messages \ gone))
  IN \/ phone' = rest
     \/ ReadsFreed(phone.messages, gone) /\ phone' = [rest EXCEPT !.dead = TRUE]

\* An application has stopped: its entries go, all of them.
RemoveApplication(a) ==
  phone' = UpdateClear(Keep(phone.messages,
                            {p \in DOMAIN phone.messages : phone.messages[p].app # a}))

ClearPhone == phone' = UpdateClear(<< >>)

-----------------------------------------------------------------------------
\* The newest message is on top, whatever the order in which they arrived.
NewestFirst == \A p, q \in DOMAIN phone.messages :
                 p < q => phone.messages[p].time >= phone.messages[q].time

=============================================================================
