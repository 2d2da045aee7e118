------------------------------- MODULE Session -------------------------------
(***************************************************************************)
(* One client and the service, connected by the bus: the environment of    *)
(* ApplicationList is closed by the client that libmessaging-menu is.      *)
(*                                                                         *)
(* A message of `up' is delivered to the handler of the service that takes *)
(* it; the calls that handler makes on the client go to `down'.  A signal  *)
(* reaches every proxy that is connected; the handlers of the application  *)
(* list are idempotent, so one of them stands for all.                     *)
(***************************************************************************)
EXTENDS ApplicationList

CONSTANTS Self,          \* the client's application
          Bus,           \* the client's connection
          Status,        \* chat statuses the client uses
          MaxInFlight,   \* bound: see MessagingMenuApp
          MaxConnecting, \* bound: see MessagingMenuApp
          MaxRestart     \* bound: restarts of the service

ASSUME SelfAssumption == Self \in App /\ Bus \in Conn
ASSUME SessionBoundsAssumption == MaxConnecting \in Nat /\ MaxRestart \in Nat

\* The messages that are no chat status.
MessageType == {"register", "unregister", "stopped", "proxy",
                "sources", "sources-failed", "messages", "messages-failed",
                "source-added", "source-changed", "source-removed",
                "message-added", "message-removed"}

ASSUME StatusAssumption == Status \cap MessageType = {}

VARIABLES registered, status, service, connecting, disposed, sources, messages,
          up, down,
          notice,
          restarts   \* restarts so far

Client == INSTANCE MessagingMenuApp

client == <<registered, status, service, connecting, disposed, sources, messages>>
bus == <<up, down, notice, restarts>>
sessionVars == <<vars, client, bus>>

SessionInit == /\ Init /\ Client!Init
               /\ notice = <<"appeared">> /\ restarts = 0

-----------------------------------------------------------------------------
(* The client's steps.                                                     *)

ClientStep == (Client!Program \/ Client!Handlers) /\ UNCHANGED <<vars, notice, restarts>>

NameVanished == /\ notice # << >> /\ Head(notice) = "vanished"
                /\ notice' = Tail(notice)
                /\ Client!Vanished
                /\ UNCHANGED <<vars, restarts>>

NameAppeared == /\ notice # << >> /\ Head(notice) = "appeared"
                /\ notice' = Tail(notice)
                /\ Client!Appeared
                /\ UNCHANGED <<vars, restarts>>

ServiceProxy == /\ Client!CreatedMessagesService
                /\ UNCHANGED <<vars, notice, restarts>>

-----------------------------------------------------------------------------
(* Messages the service receives.                                          *)

Take(type) == /\ ~crashed /\ up # << >> /\ Head(up).type = type
              /\ up' = Tail(up)
              /\ UNCHANGED <<client, notice, restarts>>

Ask(asked) == down' = down \o asked
AskNothing == UNCHANGED down

TakeRegister ==
  /\ Take("register") /\ Register(Self, Bus)
  /\ Ask(<<Client!Down("get-all", Len(request'), {}, {})>>)

TakeUnregister == Take("unregister") /\ Unregister(Self) /\ AskNothing

TakeStopped ==
  /\ Take("stopped") /\ AskNothing
  /\ ApplicationStopped(Self) \/ (Self \notin listed /\ UNCHANGED vars)

\* The chat status is no part of the application list.
TakeStatus == (\E x \in Status : Take(x)) /\ AskNothing /\ UNCHANGED vars

Connections == {k \in Requests : Live(k)}

ItemSignal(type, k, x, v) ==
  \/ type = "source-added" /\ SourceAdded(k, x, v)
  \/ type = "source-changed" /\ SourceChanged(k, x, v)
  \/ type = "source-removed" /\ SourceRemoved(k, x)
  \/ type = "message-added" /\ MessageAdded(k, x, v)
  \/ type = "message-removed" /\ MessageRemoved(k, x)

TakeItemSignal ==
  \E type \in {"source-added", "source-changed", "source-removed",
              "message-added", "message-removed"} :
    /\ Take(type) /\ AskNothing
    /\ \/ Connections = {} /\ UNCHANGED vars
       \/ \E k \in Connections, x \in DOMAIN Head(up).items :
            ItemSignal(type, k, x, Head(up).items[x])

\* The call a reply answers is still waited for.
Awaited(kind, k) == \E i \in DOMAIN pending : /\ pending[i].kind = kind
                                              /\ pending[i].req = k
                                              /\ pending[i].canc \notin cancelled

TakeProxy ==
  LET k == Head(up).req IN
  /\ Take("proxy")
  /\ \/ /\ Awaited("create", k) /\ ProxyCreated(k)
        /\ Ask(<<Client!Down("list-sources", k, {}, {}),
                 Client!Down("list-messages", k, {}, {})>>)
     \/ ~Awaited("create", k) /\ AskNothing /\ UNCHANGED vars

TakeSources ==
  LET k == Head(up).req IN
  /\ AskNothing
  /\ \/ /\ Take("sources") /\ Awaited("sources", k)
        /\ SourcesListed(k, Head(up).items) \/ ListCrashed("sources", k)
     \/ /\ Take("sources-failed") /\ Awaited("sources", k)
        /\ ListFailed("sources", k) \/ ListCrashed("sources", k)
     \/ /\ Take("sources") \/ Take("sources-failed")
        /\ ~Awaited("sources", k) /\ UNCHANGED vars

TakeMessages ==
  LET k == Head(up).req IN
  /\ AskNothing
  /\ \/ /\ Take("messages") /\ Awaited("messages", k)
        /\ MessagesListed(k, Head(up).items) \/ ListCrashed("messages", k)
     \/ /\ Take("messages-failed") /\ Awaited("messages", k)
        /\ ListFailed("messages", k) \/ ListCrashed("messages", k)
     \/ /\ Take("messages") \/ Take("messages-failed")
        /\ ~Awaited("messages", k) /\ UNCHANGED vars

\* A cancelled call completes without its reply.
CancelledCallback ==
  /\ \E k \in Requests :
       \/ k \in cancelled /\ ProxyCreated(k)
       \/ \E kind \in {"sources", "messages"} :
            /\ \E i \in Due(kind, k) : pending[i].canc \in cancelled
            /\ ListFailed(kind, k) \/ ListCrashed(kind, k)
  /\ UNCHANGED <<client, bus>>

-----------------------------------------------------------------------------
(* The user, and the service's process.                                    *)

\* The application is told of an activation while it has a remote.
Tell(S, M) == /\ Len(down) < MaxInFlight
              /\ Ask(IF app[Self].proxy = 0 THEN << >>
                     ELSE <<Client!Down("dismiss", 0, S, M)>>)

UserStep ==
  /\ \/ \E s \in Source : SourceActivated(Self, s) /\ Tell({s}, {})
     \/ \E m \in Message : MessageActivated(Self, m) /\ Tell({}, {m})
     \/ /\ RemoveAll
        /\ Tell({s \in Source : app[Self].sources[s] # "absent"},
                {m \in Message : app[Self].messages[m] # "absent"})
  /\ UNCHANGED <<client, up, notice, restarts>>

(***************************************************************************)
(* What is on the way to the old process may be lost with it, up to any    *)
(* point; what is called on it later may be, too, until the client hears   *)
(* that it has gone (SendCalls).                                           *)
(***************************************************************************)
ServiceRestart ==
  /\ restarts < MaxRestart
  /\ Restart
  /\ restarts' = restarts + 1
  /\ notice' = notice \o <<"vanished", "appeared">>
  /\ \E n \in 0..Len(up) : up' = SubSeq(up, n + 1, Len(up))
  /\ UNCHANGED <<client, down>>

-----------------------------------------------------------------------------

Service == \/ TakeRegister \/ TakeUnregister \/ TakeStopped \/ TakeStatus
           \/ TakeItemSignal \/ TakeProxy \/ TakeSources \/ TakeMessages
           \/ CancelledCallback

Undisturbed == \/ ClientStep \/ NameVanished \/ NameAppeared \/ ServiceProxy
               \/ Service \/ ServiceRestart

SessionSpec == SessionInit /\ [][Undisturbed \/ UserStep]_sessionVars

\* The same without a user.
UndisturbedSpec == SessionInit /\ [][Undisturbed]_sessionVars

-----------------------------------------------------------------------------
(* Properties.                                                             *)

\* Everything that was sent or called was taken; a disposed client is told nothing.
Quiet == /\ up = << >> /\ down = << >> /\ pending = << >>
         /\ disposed \/ notice = << >>
         /\ connecting = 0 /\ ~crashed

\* The state of the client and of the bus is well-formed.
SessionTypeOK ==
  /\ TypeOK
  /\ registered \in {"unknown", "yes", "no"}
  /\ status \in Status \cup {"unset"}
  /\ service \in BOOLEAN /\ disposed \in BOOLEAN
  /\ connecting \in 0..MaxConnecting
  /\ sources \in [Source -> [present : BOOLEAN, shown : BOOLEAN, draws : BOOLEAN]]
  /\ \A s \in Source : sources[s].present \/ sources[s] = Client!NoSource
  /\ messages \in [Message -> MessageState]
  /\ \A i \in DOMAIN up : /\ up[i].req \in 0..Len(request)
                         /\ DOMAIN up[i].items \subseteq Source \cup Message
  /\ \A i \in DOMAIN down : down[i].req \in 0..Len(request)
  /\ restarts \in 0..MaxRestart

(***************************************************************************)
(* The menu loses nothing: when everything that was sent has been taken, a *)
(* running application's sources and messages are all in the menu, in the  *)
(* state the application gave them, whatever was activated, re-registered  *)
(* or restarted on the way.                                                *)
(***************************************************************************)
NothingLost ==
  Quiet /\ app[Self].proxy # 0 =>
    /\ \A s \in Source : sources[s].present =>
         app[Self].sources[s] = Client!SourceToVariant(sources[s])
    /\ \A m \in Message : messages[m] # "absent" => app[Self].messages[m] = messages[m]

(***************************************************************************)
(* The menu converges to what the application holds, when nobody activates *)
(* items: signals that overlap with list replies, re-registrations or a    *)
(* new service are neither undone by an older reply nor lost.              *)
(***************************************************************************)
Converged ==
  Quiet /\ ~disposed /\ app[Self].proxy # 0 =>
    /\ \A s \in Source : app[Self].sources[s] = Client!SourceToVariant(sources[s])
    /\ \A m \in Message : app[Self].messages[m] = messages[m]

(***************************************************************************)
(* An application that is registered is running in the menu as soon as     *)
(* everything is taken, also after the service was restarted between any   *)
(* two steps.                                                              *)
(***************************************************************************)
RegisteredRuns == Quiet /\ ~disposed /\ registered = "yes" =>
                    app[Self].proxy # 0 /\ app[Self].launch

=============================================================================
