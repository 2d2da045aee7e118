----------------------------- MODULE ChatStatus -----------------------------
(***************************************************************************)
(* The global chat status (src/im-application-list.c and                   *)
(* src/messages-service.c) and the clients that keep to it                 *)
(* (libmessaging-menu/messaging-menu-app.c).                               *)
(*                                                                         *)
(* Applications report their status; the panel shows the most available    *)
(* one.  When the user chooses a status, that of every application is      *)
(* overwritten and the clients are told, which then report it themselves.  *)
(* Reports and news are under way at the same time, each client's in order.*)
(* The table of statuses is lost with the process; a client reports its    *)
(* status again as soon as it has a proxy of the new service.              *)
(*                                                                         *)
(* A status is its index in status_ids, from available (0) to offline (4). *)
(* The bus tells a client in the same order that the service is gone and   *)
(* that there is one again.                                                *)
(***************************************************************************)
EXTENDS Integers, SequencesExt

CONSTANTS App,         \* applications with a chat status
          Status,      \* statuses that are used
          MaxInFlight, \* bound: nobody starts anything while that much is under way
          MaxRestart   \* bound: restarts of the service

Offline == 4
Gone == 5
Back == 6

ASSUME StatusAssumption == Status \subseteq 0..Offline
ASSUME MaxRestartAssumption == MaxRestart \in Nat

NoChoice == -1

VARIABLES
  appStatus,  \* list->app_status: statuses of those that reported one
  panel,      \* the state of the exported "status" action
  mine,       \* the client's app->status; NoChoice: not status_set
  proxy,      \* the client's app->messages_service is set
  connecting, \* proxies of the service that the client is creating
  heard,      \* proxies whose StatusChanged the client hears
  up,         \* SetStatus calls under way from each client
  down,       \* StatusChanged signals, Gone and Back, under way to each client
  choice,     \* what the user chose last while all clients were linked, unless
              \* a program chose or the service was restarted since
  restarts

chatVars == <<appStatus, panel, mine, proxy, connecting, heard, up, down, choice, restarts>>

links == <<proxy, connecting, heard>>

MostAvailable(f) == Min({f[a] : a \in DOMAIN f} \cup {Offline})

\* A new process knows no status.
NoStatus == [a \in {} |-> Offline]

Init == /\ appStatus = NoStatus /\ panel = Offline
        /\ mine = [a \in App |-> NoChoice]
        /\ proxy = [a \in App |-> FALSE]
        /\ connecting = [a \in App |-> 1]
        /\ heard = [a \in App |-> 0]
        /\ up = [a \in App |-> << >>]
        /\ down = [a \in App |-> << >>]
        /\ choice = NoChoice
        /\ restarts = 0

-----------------------------------------------------------------------------
(* A client.                                                               *)

\* What a client is told and has not answered counts as well.
MayStart(a) == Len(up[a]) + Len(down[a]) < MaxInFlight

(***************************************************************************)
(* A call is made on the owner that the proxy knows: once the service is   *)
(* gone it may be lost, or reach the new owner of the name.                *)
(***************************************************************************)
Send(a, x, n) == \/ up' = [up EXCEPT ![a] = @ \o [i \in 1..n |-> x]]
                 \/ Contains(down[a], Gone) /\ UNCHANGED up

\* messaging_menu_app_set_status, called n times: kept, and sent if there is
\* a proxy.
SetMine(a, x, n) ==
  /\ mine' = [mine EXCEPT ![a] = x]
  /\ IF proxy[a] THEN Send(a, x, n) ELSE UNCHANGED up

\* Mutant: statuses are counted from one.
SetStatusFromOne(a, x) ==
  /\ MayStart(a)
  /\ SetMine(a, x + 1, 1)
  /\ choice' = NoChoice
  /\ UNCHANGED <<appStatus, panel, links, down, restarts>>

\* A program chooses a status of its own accord.
SetStatus(a, x) ==
  /\ MayStart(a)
  /\ SetMine(a, x, 1)
  /\ choice' = NoChoice
  /\ UNCHANGED <<appStatus, panel, links, down, restarts>>

Taken(a) == down' = [down EXCEPT ![a] = Tail(@)]

\* global_status_changed, in a program that reports the user's choice as its
\* status from each signal it gets (an older report of its own would prevail
\* if it did not).
GlobalStatusChanged(a) ==
  /\ down[a] # << >> /\ Head(down[a]) \in 0..Offline
  /\ Taken(a)
  /\ IF heard[a] > 0 THEN SetMine(a, Head(down[a]), heard[a]) ELSE UNCHANGED <<mine, up>>
  /\ UNCHANGED <<appStatus, panel, links, choice, restarts>>

Vanished(a) ==
  /\ down[a] # << >> /\ Head(down[a]) = Gone
  /\ Taken(a)
  /\ proxy' = [proxy EXCEPT ![a] = FALSE]
  /\ heard' = [heard EXCEPT ![a] = IF proxy[a] THEN @ - 1 ELSE @]
  /\ UNCHANGED <<appStatus, panel, mine, connecting, up, choice, restarts>>

Appeared(a) ==
  /\ down[a] # << >> /\ Head(down[a]) = Back
  /\ Taken(a)
  /\ connecting' = [connecting EXCEPT ![a] = @ + 1]
  /\ UNCHANGED <<appStatus, panel, mine, proxy, heard, up, choice, restarts>>

\* Mutant: the status is not sent again.
SyncNothing(a) == UNCHANGED up

SyncStatus(a) == IF mine[a] # NoChoice THEN Send(a, mine[a], 1) ELSE UNCHANGED up

\* created_messages_service, of a service that may be gone.  A proxy that is
\* replaced is neither unreferenced nor disconnected.
CreatedMessagesService(a) ==
  /\ connecting[a] > 0
  /\ connecting' = [connecting EXCEPT ![a] = @ - 1]
  /\ proxy' = [proxy EXCEPT ![a] = TRUE]
  /\ heard' = [heard EXCEPT ![a] = @ + 1]
  /\ SyncStatus(a)
  /\ UNCHANGED <<appStatus, panel, mine, down, choice, restarts>>

-----------------------------------------------------------------------------
(* The service.                                                            *)

\* Mutant: the other applications are forgotten.
StatusReportedAlone(a) ==
  /\ up[a] # << >>
  /\ appStatus' = [b \in DOMAIN appStatus \cup {a} |->
                     IF b = a THEN Head(up[a]) ELSE appStatus[b]]
  /\ panel' = Head(up[a])
  /\ up' = [up EXCEPT ![a] = Tail(@)]
  /\ UNCHANGED <<mine, links, down, choice, restarts>>

\* The handler of SetStatus, with im_application_list_set_status.
StatusReported(a) ==
  /\ up[a] # << >>
  /\ appStatus' = [b \in DOMAIN appStatus \cup {a} |->
                     IF b = a THEN Head(up[a]) ELSE appStatus[b]]
  /\ panel' = MostAvailable(appStatus')
  /\ up' = [up EXCEPT ![a] = Tail(@)]
  /\ UNCHANGED <<mine, links, down, choice, restarts>>

\* Every client has a proxy and is not about to lose it.
AllLinked == \A a \in App : proxy[a] /\ ~Contains(down[a], Gone)

\* Mutant: the clients are not told.
StatusActivatedSilently(x) ==
  /\ \A a \in App : MayStart(a)
  /\ panel' = x
  /\ appStatus' = [a \in DOMAIN appStatus |-> x]
  /\ choice' = IF AllLinked THEN x ELSE NoChoice
  /\ UNCHANGED <<mine, proxy, connecting, heard, up, down, restarts>>

\* The user chooses a status in the menu.
StatusActivated(x) ==
  /\ \A a \in App : MayStart(a)
  /\ panel' = x
  /\ appStatus' = [a \in DOMAIN appStatus |-> x]
  /\ down' = [a \in App |-> Append(down[a], x)]
  /\ choice' = IF AllLinked THEN x ELSE NoChoice
  /\ UNCHANGED <<mine, links, up, restarts>>

(***************************************************************************)
(* A new process.  Calls that the old one has not taken are lost, or reach *)
(* the new one.                                                            *)
(***************************************************************************)
Restart ==
  /\ restarts < MaxRestart /\ restarts' = restarts + 1
  /\ appStatus' = NoStatus /\ panel' = Offline
  /\ down' = [a \in App |-> down[a] \o <<Gone, Back>>]
  /\ \E lost \in [App -> 0..MaxInFlight] :
       up' = [a \in App |-> SubSeq(up[a], lost[a] + 1, Len(up[a]))]
  /\ choice' = NoChoice
  /\ UNCHANGED <<mine, links>>

ChatNext == \/ \E a \in App : \/ \E x \in Status : SetStatus(a, x)
                              \/ GlobalStatusChanged(a)
                              \/ Vanished(a) \/ Appeared(a)
                              \/ CreatedMessagesService(a)
                              \/ StatusReported(a)
            \/ \E x \in Status : StatusActivated(x)
            \/ Restart

ChatSpec == Init /\ [][ChatNext]_chatVars

-----------------------------------------------------------------------------
(* Properties.                                                             *)

\* The state is well-formed.
ChatTypeOK ==
  /\ appStatus \in UNION {[S -> 0..Offline] : S \in SUBSET App}
  /\ panel \in 0..Offline
  /\ mine \in [App -> 0..Offline \cup {NoChoice}]
  /\ proxy \in [App -> BOOLEAN]
  /\ connecting \in [App -> Nat]
  /\ heard \in [App -> Nat]
  /\ \A a \in App : proxy[a] => heard[a] > 0
  /\ up \in [App -> Seq(0..Offline)]
  /\ down \in [App -> Seq(0..Back)]
  /\ choice \in Status \cup {NoChoice}
  /\ restarts \in 0..MaxRestart

(***************************************************************************)
(* "Setting the status of the menu based on the aggregate application      *)
(* status": as soon as an application has reported one, the panel shows    *)
(* the most available, also after the user overwrote them.                 *)
(***************************************************************************)
PanelIsMostAvailable == DOMAIN appStatus # {} => panel = MostAvailable(appStatus)

(***************************************************************************)
(* The user has the last word: when everything is settled and no program   *)
(* chose a status of its own since, the panel shows the user's choice,     *)
(* also if reports of an older status were under way when it was made.     *)
(***************************************************************************)
UserChoiceWins ==
  (choice # NoChoice /\ \A a \in App : up[a] = << >> /\ down[a] = << >>) =>
    panel = choice

(***************************************************************************)
(* "state will be synced right after connecting to the service": the       *)
(* status of a client that has nothing more to be told is the last one it  *)
(* reported, and in the end the one the service has, whichever of its      *)
(* reports were lost with an earlier service.                              *)
(***************************************************************************)
Reported(a) == IF a \in DOMAIN appStatus THEN <<appStatus[a]>> \o up[a] ELSE up[a]
StatusArrives ==
  \A a \in App : proxy[a] /\ down[a] = << >> /\ mine[a] # NoChoice =>
    Reported(a) # << >> /\ Last(Reported(a)) = mine[a]

=============================================================================
