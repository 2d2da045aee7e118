---------------------------- MODULE MessagingMenu ----------------------------
(***************************************************************************)
(* What the messaging menu promises to applications and to the user        *)
(* ("section", "running", "attention" as the documentation of              *)
(* MessagingMenuApp uses the words).  No connection, proxy, reply or        *)
(* callback occurs here.  ApplicationList implements this specification,   *)
(* but for one step: see ImplementsMenu there.                             *)
(*                                                                         *)
(* The promises are in the form of the steps.  A step of one application   *)
(* leaves the items of every other one alone; stopping takes all items of  *)
(* the application with it; a section stays in the menu, also under the    *)
(* next process, until its application unregisters; and at every moment    *)
(* the icon asks for attention if some item does, and never over an empty  *)
(* menu.                                                                   *)
(***************************************************************************)
CONSTANTS App,   \* applications
          Item   \* what a section can hold

VARIABLES
  section,    \* applications that have a section in the menu
  durable,    \* applications whose section survives the process
  running,    \* applications that are marked as running
  items,      \* items[a]: what the section of a shows
  drawing,    \* drawing[a]: those that ask for attention
  attention   \* the icon asks for attention

menuVars == <<section, durable, running, items, drawing, attention>>

None == [a \in App |-> {}]

\* The icon after a step: raised for every item that asks for it, and calm
\* over an empty menu; in between it may lag behind the items.
IconFollows == /\ (\E a \in App : drawing'[a] # {}) => attention'
               /\ attention' => \E a \in section' : items'[a] # {}

Init == /\ section \in SUBSET App
        /\ durable = section
        /\ running = {}
        /\ items = None /\ drawing = None
        /\ attention = FALSE

-----------------------------------------------------------------------------
\* The application a is at rest: its launcher stays, its items are gone.
Rests(a) == /\ running' = running \ {a}
            /\ items' = [items EXCEPT ![a] = {}]
            /\ drawing' = [drawing EXCEPT ![a] = {}]
            /\ IconFollows

\* A registration takes over from an earlier one, or joins it.
Register(a) == /\ section' = section \cup {a}
               /\ durable' = durable \cup {a}
               /\ Rests(a) \/ UNCHANGED <<running, items, drawing, attention>>

\* The application is removed from the menu, with all that it showed.
Unregister(a) == /\ section' = section \ {a}
                 /\ durable' = durable \ {a}
                 /\ Rests(a)

Start(a) == /\ a \in section
            /\ running' = running \cup {a}
            /\ UNCHANGED <<section, durable, items, drawing, attention>>

Stop(a) == /\ a \in section
           /\ Rests(a)
           /\ UNCHANGED <<section, durable>>

\* The application, or the user by activating an item, edits the section.
Edit(a) == /\ a \in section
           /\ \E shown \in SUBSET Item : \E d \in SUBSET shown :
                /\ items' = [items EXCEPT ![a] = shown]
                /\ drawing' = [drawing EXCEPT ![a] = d]
           /\ IconFollows
           /\ UNCHANGED <<section, durable, running>>

\* Clearing takes every item of every application, and nothing else.
ClearAll == /\ items' = None /\ drawing' = None /\ attention' = FALSE
            /\ UNCHANGED <<section, durable, running>>

Restart == /\ section' = durable
           /\ running' = {}
           /\ items' = None /\ drawing' = None /\ attention' = FALSE
           /\ UNCHANGED durable

Next == \/ \E a \in App : \/ Register(a) \/ Unregister(a)
                          \/ Start(a) \/ Stop(a) \/ Edit(a)
        \/ ClearAll \/ Restart

Spec == Init /\ [][Next]_menuVars

=============================================================================
