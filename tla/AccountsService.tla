---------------------------- MODULE AccountsService ----------------------------
(***************************************************************************)
(* The connection to the accounts service on the system bus                *)
(* (src/im-accounts-service.c), through which the greeter learns whether   *)
(* there are messages.  ImAccountsService keeps a proxy for the current    *)
(* user's settings, touch_settings, and makes a new one whenever the user  *)
(* manager reports a change of that user; changes of other users return    *)
(* at once and are left out.                                               *)
(*                                                                         *)
(* A change is known by its number, which also numbers the cancellable and *)
(* the proxy made for it; 0 is NULL, and the cancellable of _init.         *)
(***************************************************************************)
EXTENDS Naturals, SequencesExt

CONSTANTS MaxChange,   \* bound: changes of the user in one behaviour
          MaxWire      \* bound: SetXHasMessages calls under way

ASSUME BoundsAssumption == MaxChange \in Nat /\ MaxWire \in Nat

Change == 1..MaxChange

VARIABLES
  loaded,          \* the user manager has announced is-loaded
  touch_settings,  \* the change whose proxy is in use, 0 is NULL
  cancel,          \* the cancellable in use
  changes,         \* changes of the user so far
  pending,         \* creations of proxies whose callback has not run
  cancelled,       \* cancelled cancellables
  wire,            \* SetXHasMessages calls the daemon has not handled
  has,             \* the daemon's HasMessages, what the greeter shows
  draws,           \* the last value given to set_draws_attention
  told,            \* history: that call was not dropped
  failed           \* history: changes whose proxy could not be made

vars == <<loaded, touch_settings, cancel, changes, pending, cancelled, wire, has,
          draws, told, failed>>

Init == /\ loaded = FALSE
        /\ touch_settings = 0 /\ cancel = 0 /\ changes = 0
        /\ pending = {} /\ cancelled = {} /\ failed = {}
        /\ wire = << >> /\ has \in BOOLEAN
        /\ draws = FALSE /\ told = FALSE

-----------------------------------------------------------------------------
\* Mutant: the creation for an earlier change is not cancelled.
NewProxyBeside(n) ==
  /\ touch_settings' = 0
  /\ cancel' = n
  /\ pending' = pending \cup {n}
  /\ UNCHANGED cancelled

\* Mutant: while a creation is under way no other one is started.
NewProxyOnce(n) ==
  /\ touch_settings' = 0
  /\ cancelled' = cancelled \cup {cancel}
  /\ cancel' = n
  /\ pending' = IF pending = {} THEN {n} ELSE pending

\* The old proxy goes, whatever is under way is cancelled, a new one is made.
NewProxy(n) ==
  /\ touch_settings' = 0
  /\ cancelled' = cancelled \cup {cancel}
  /\ cancel' = n
  /\ pending' = pending \cup {n}

UserChanged ==
  /\ changes < MaxChange
  /\ changes' = changes + 1
  /\ NewProxy(changes')
  /\ UNCHANGED <<wire, has, draws, told, failed>>

\* "user-added" or "user-changed" for our user.
UserSignal == UserChanged /\ UNCHANGED loaded

\* The user manager knows its users now; ours may not be among them.
on_user_manager_loaded ==
  /\ ~loaded /\ loaded' = TRUE
  /\ UserChanged \/ UNCHANGED <<touch_settings, cancel, changes, pending, cancelled,
                                wire, has, draws, told, failed>>

-----------------------------------------------------------------------------
(***************************************************************************)
(* security_privacy_ready for change n.  A creation that was cancelled     *)
(* reports so even when it had completed, and leaves the object alone.     *)
(***************************************************************************)
ReadyCancelled(n) == n \in cancelled /\ UNCHANGED <<touch_settings, failed>>

ReadyFailed(n) == /\ n \notin cancelled
                  /\ failed' = failed \cup {n}
                  /\ UNCHANGED touch_settings

ReadyConnected(n) == /\ n \notin cancelled
                     /\ touch_settings' = n
                     /\ UNCHANGED failed

security_privacy_ready(n) ==
  /\ n \in pending
  /\ pending' = pending \ {n}
  /\ ReadyCancelled(n) \/ ReadyFailed(n) \/ ReadyConnected(n)
  /\ UNCHANGED <<loaded, cancel, changes, cancelled, wire, has, draws, told>>

\* Mutant: only tells that there are messages.
TellRaised(d) == IF touch_settings # 0 /\ d THEN Append(wire, d) ELSE wire

\* Nothing is sent, or kept for later, while there is no proxy.
Tell(d) == IF touch_settings # 0 THEN Append(wire, d) ELSE wire

\* Every refresh of the root action calls this, changed or not.
set_draws_attention(d) ==
  /\ Len(wire) < MaxWire
  /\ wire' = Tell(d)
  /\ draws' = d
  /\ told' = (touch_settings # 0)
  /\ UNCHANGED <<loaded, touch_settings, cancel, changes, pending, cancelled, has, failed>>

\* The daemon handles calls in their order.
SetXHasMessages ==
  /\ wire # << >>
  /\ has' = Head(wire) /\ wire' = Tail(wire)
  /\ UNCHANGED <<loaded, touch_settings, cancel, changes, pending, cancelled,
                 draws, told, failed>>

-----------------------------------------------------------------------------
Next == \/ UserSignal \/ on_user_manager_loaded
        \/ \E n \in Change : security_privacy_ready(n)
        \/ \E d \in BOOLEAN : set_draws_attention(d)
        \/ SetXHasMessages

\* The main loop runs a callback once the call has an answer, and it gets one.
Spec == /\ Init /\ [][Next]_vars
        /\ \A n \in Change : WF_vars(security_privacy_ready(n))

-----------------------------------------------------------------------------
TypeOK == /\ loaded \in BOOLEAN
          /\ touch_settings \in 0..MaxChange /\ cancel \in 0..MaxChange
          /\ changes \in 0..MaxChange
          /\ pending \subseteq Change /\ failed \subseteq Change
          /\ cancelled \subseteq 0..MaxChange
          /\ wire \in Seq(BOOLEAN) /\ Len(wire) <= MaxWire
          /\ has \in BOOLEAN /\ draws \in BOOLEAN /\ told \in BOOLEAN

(***************************************************************************)
(* The proxy in use is the one for the latest change of the user, however  *)
(* late the callback of an earlier creation runs; and so the privacy       *)
(* setting that get_show_on_greeter reads from it is not that of an        *)
(* account object that has been replaced.                                  *)
(***************************************************************************)
LatestUser == touch_settings \in {0, changes}

\* What makes it so: only the creation for the latest change can succeed.
OneCreation == /\ cancel = changes
               /\ cancelled = 0..(changes - 1)
               /\ pending \subseteq 1..changes

AccountsInv == TypeOK /\ LatestUser /\ OneCreation

(***************************************************************************)
(* A value that was not dropped for want of a proxy reaches the greeter:   *)
(* it is what the daemon has, once the calls under way are handled.        *)
(***************************************************************************)
FlagOnItsWay == told => draws = Last(<<has>> \o wire)

(***************************************************************************)
(* A change of the user leads to a proxy again, or to an error, unless the *)
(* user changes once more: changes in quick succession do not leave the    *)
(* service without one for good.                                           *)
(***************************************************************************)
ProxyReturns ==
  \A n \in Change : (changes = n) ~> (touch_settings = n \/ n \in failed \/ changes # n)

=============================================================================
