-------------------------- MODULE MessagingMenuApp --------------------------
(***************************************************************************)
(* A client of the messaging menu: one MessagingMenuApp object of          *)
(* libmessaging-menu (messaging-menu-app.c), after its bus connection was  *)
(* made and its D-Bus object exported.                                     *)
(*                                                                         *)
(* `up' and `down' are what is on the way to the service and back.  The    *)
(* bus keeps the order of each.  Up go method calls on the service,        *)
(* signals of the exported object and replies to the service's calls; down *)
(* go those calls.  An action is one call of the library's API by the      *)
(* program, one callback or one method handler: all run on one main loop.  *)
(*                                                                         *)
(* Of a source the model keeps whether it has something to show (a count,  *)
(* a time or a string) and its draws_attention flag; of a message, the     *)
(* flag.                                                                   *)
(***************************************************************************)
EXTENDS Naturals, Sequences

CONSTANTS Source,       \* ids of message sources
          Message,      \* ids of messages
          Status,       \* chat statuses the program uses
          MaxInFlight,  \* bound: the program waits while that much is under way
          MaxConnecting \* bound: proxies of the service being created at once

VARIABLES
  registered,  \* app->registered: "unknown" (-1), "yes" or "no"
  status,      \* app->status, or "unset" while status_set is FALSE
  service,     \* app->messages_service is not NULL
  connecting,  \* creations of a proxy of the service under way
  disposed,    \* the object was disposed
  sources,     \* app->sources
  messages,    \* app->messages
  up, down,    \* messages on the bus
  notice       \* name-owner changes the client has not been told of

clientVars == <<registered, status, service, connecting, disposed, sources, messages>>

NoSource == [present |-> FALSE, shown |-> FALSE, draws |-> FALSE]

\* source_to_variant, as the service reads it.
SourceToVariant(x) == IF ~x.present THEN "absent"
                      ELSE IF ~x.shown THEN "hidden"
                      ELSE IF x.draws THEN "drawing" ELSE "quiet"

-----------------------------------------------------------------------------
(* Messages.                                                               *)

NoItems == << >>

Up(type, req, items) == [type |-> type, req |-> req, items |-> items]
MethodCall(name) == Up(name, 0, NoItems)
SourceSignal(name, s, x) == Up(name, 0, [t \in {s} |-> SourceToVariant(x)])
MessageSignal(name, m, v) == Up(name, 0, [n \in {m} |-> v])

Send(sent) == up' = up \o sent

(***************************************************************************)
(* A proxy calls the owner of the service's name that it knows.  What it   *)
(* calls after that process has gone, and before the client is told, is    *)
(* lost.                                                                   *)
(***************************************************************************)
Unheard == \E i \in DOMAIN notice : notice[i] = "vanished"

SendCalls(made) == Send(made) \/ (Unheard /\ Send(<< >>))

Down(type, req, S, M) == [type |-> type, req |-> req, sources |-> S, messages |-> M]

-----------------------------------------------------------------------------

Init == /\ registered = "unknown" /\ status = "unset"
        /\ service = FALSE /\ connecting = 0 /\ disposed = FALSE
        /\ sources = [s \in Source |-> NoSource]
        /\ messages = [m \in Message |-> "absent"]
        /\ up = << >> /\ down = << >>

-----------------------------------------------------------------------------
(* The connection to the service.                                          *)

\* Mutant: the registration is not repeated for a new service.
SyncNothing == << >>

\* What was asked for while there was no proxy of the service.
SyncRegistration ==
  IF registered = "yes" THEN <<MethodCall("register")>>
  ELSE IF registered = "no" THEN <<MethodCall("unregister")>>
  ELSE << >>

SyncStatus == IF status = "unset" THEN << >> ELSE <<MethodCall(status)>>

Appeared == /\ ~disposed /\ connecting < MaxConnecting
            /\ connecting' = connecting + 1
            /\ UNCHANGED <<registered, status, service, disposed, sources, messages, up, down>>

\* A proxy that is replaced is not unreferenced.
CreatedMessagesService ==
  /\ ~disposed /\ connecting > 0
  /\ connecting' = connecting - 1
  /\ service' = TRUE
  /\ SendCalls(SyncRegistration \o SyncStatus)
  /\ UNCHANGED <<registered, status, disposed, sources, messages, down>>

Vanished == /\ ~disposed
            /\ service' = FALSE
            /\ UNCHANGED <<registered, status, connecting, disposed, sources, messages, up, down>>

-----------------------------------------------------------------------------
(* The API.                                                                *)

Api == ~disposed /\ Len(up) < MaxInFlight

\* A call on the service is only made while there is a proxy for it.
CallService(name) == SendCalls(IF service THEN <<MethodCall(name)>> ELSE << >>)

Register ==
  /\ Api
  /\ registered' = "yes"
  /\ CallService("register")
  /\ UNCHANGED <<status, service, connecting, disposed, sources, messages, down>>

Unregister ==
  /\ Api
  /\ registered' = "no"
  /\ CallService("unregister")
  /\ UNCHANGED <<status, service, connecting, disposed, sources, messages, down>>

SetStatus(x) ==
  /\ Api
  /\ status' = x
  /\ CallService(x)
  /\ UNCHANGED <<registered, service, connecting, disposed, sources, messages, down>>

UnchangedButItems == UNCHANGED <<registered, status, service, connecting, disposed, down>>

InsertSource(s, shown) ==
  /\ Api /\ ~sources[s].present
  /\ sources' = [sources EXCEPT ![s] = [present |-> TRUE, shown |-> shown, draws |-> FALSE]]
  /\ Send(<<SourceSignal("source-added", s, sources'[s])>>)
  /\ UNCHANGED messages /\ UnchangedButItems

\* Mutant: the source is not looked up first.
ChangeSourceUnchecked(s, x) ==
  /\ Api
  /\ sources' = [sources EXCEPT ![s] = x]
  /\ Send(<<SourceSignal("source-changed", s, x)>>)
  /\ UNCHANGED messages /\ UnchangedButItems

ChangeSource(s, x) ==
  /\ Api /\ sources[s].present
  /\ sources' = [sources EXCEPT ![s] = x]
  /\ Send(<<SourceSignal("source-changed", s, x)>>)
  /\ UNCHANGED messages /\ UnchangedButItems

\* set_source_count, set_source_time and set_source_string.
SetSourceShown(s, shown) == ChangeSource(s, [sources[s] EXCEPT !.shown = shown])

\* draw_attention and remove_attention.
SetSourceDraws(s, draws) == ChangeSource(s, [sources[s] EXCEPT !.draws = draws])

RemoveSource(s) ==
  /\ Api /\ sources[s].present
  /\ sources' = [sources EXCEPT ![s] = NoSource]
  /\ Send(<<SourceSignal("source-removed", s, NoSource)>>)
  /\ UNCHANGED messages /\ UnchangedButItems

(***************************************************************************)
(* A message that belongs to a source adds one to the source's count, so   *)
(* the source has something to show.  S holds that source, or nothing.     *)
(***************************************************************************)
AppendMessage(m, v, S) ==
  LET counted == {s \in S : sources[s].present} IN
  /\ Api /\ messages[m] = "absent"
  /\ messages' = [messages EXCEPT ![m] = v]
  /\ sources' = [s \in Source |-> IF s \in counted
                                  THEN [sources[s] EXCEPT !.shown = TRUE] ELSE sources[s]]
  /\ \/ counted = {} /\ Send(<<MessageSignal("message-added", m, v)>>)
     \/ \E s \in counted : Send(<<MessageSignal("message-added", m, v),
                                  SourceSignal("source-changed", s, sources'[s])>>)
  /\ UnchangedButItems

\* Mutant: no signal is emitted.
RemoveMessageSilently(m) ==
  /\ Api /\ messages[m] # "absent"
  /\ messages' = [messages EXCEPT ![m] = "absent"]
  /\ UNCHANGED <<sources, up>> /\ UnchangedButItems

RemoveMessage(m) ==
  /\ Api /\ messages[m] # "absent"
  /\ messages' = [messages EXCEPT ![m] = "absent"]
  /\ Send(<<MessageSignal("message-removed", m, "absent")>>)
  /\ UNCHANGED sources /\ UnchangedButItems

\* The object goes: its exported interface with it, without a signal.
Dispose ==
  /\ Api
  /\ disposed' = TRUE /\ service' = FALSE /\ connecting' = 0
  /\ CallService("stopped")
  /\ sources' = [s \in Source |-> NoSource]
  /\ messages' = [m \in Message |-> "absent"]
  /\ UNCHANGED <<registered, status, down>>

-----------------------------------------------------------------------------
(* Handlers of the calls the service makes on the exported object.         *)

Handle(type) == down # << >> /\ Head(down).type = type /\ down' = Tail(down)

\* The properties GDBus asks for when it creates a proxy; an error does too.
GetAll == /\ Handle("get-all")
          /\ Send(<<Up("proxy", Head(down).req, NoItems)>>)
          /\ UNCHANGED clientVars

Present(S, f) == [x \in {x \in S : f[x] # "absent"} |-> f[x]]

ListSources ==
  /\ Handle("list-sources")
  /\ Send(<<IF disposed THEN Up("sources-failed", Head(down).req, NoItems)
            ELSE Up("sources", Head(down).req,
                    Present(Source, [s \in Source |-> SourceToVariant(sources[s])]))>>)
  /\ UNCHANGED clientVars

ListMessages ==
  /\ Handle("list-messages")
  /\ Send(<<IF disposed THEN Up("messages-failed", Head(down).req, NoItems)
            ELSE Up("messages", Head(down).req, Present(Message, messages))>>)
  /\ UNCHANGED clientVars

(***************************************************************************)
(* ActivateSource, ActivateMessage and Dismiss remove the items they name, *)
(* and emit no signal: "Activate implies removing the source, no need for  *)
(* SourceRemoved".                                                         *)
(***************************************************************************)
Dismiss ==
  /\ Handle("dismiss")
  /\ sources' = [s \in Source |-> IF s \in Head(down).sources THEN NoSource ELSE sources[s]]
  /\ messages' = [m \in Message |-> IF m \in Head(down).messages THEN "absent"
                                    ELSE messages[m]]
  /\ UNCHANGED <<registered, status, service, connecting, disposed, up>>

-----------------------------------------------------------------------------
(* What the program may do, and what its main loop does.                   *)

Program ==
  \/ Register \/ Unregister \/ Dispose
  \/ \E x \in Status : SetStatus(x)
  \/ \E s \in Source : \/ \E b \in BOOLEAN : \/ InsertSource(s, b)
                                             \/ SetSourceShown(s, b)
                                             \/ SetSourceDraws(s, b)
                       \/ RemoveSource(s)
  \/ \E m \in Message : \/ \E v \in {"quiet", "drawing"} :
                             \E S \in {{}} \cup {{s} : s \in Source} : AppendMessage(m, v, S)
                        \/ RemoveMessage(m)

Handlers == GetAll \/ ListSources \/ ListMessages \/ Dismiss

=============================================================================
