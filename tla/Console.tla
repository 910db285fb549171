------------------------------ MODULE Console ------------------------------
(***************************************************************************)
(* The browser KVM console of one server (app/api/console.py): calls that  *)
(* broker a session with OVH and register it in _sessions, and WebSocket   *)
(* handlers that relay a browser to the server's BMC.  All of them share   *)
(* _sessions[service_name] and the websocket field of its session, and     *)
(* every await lets the others in.                                         *)
(*                                                                         *)
(* A call of create_console_session makes at most one session, so a call   *)
(* and its session have one name.  Servers share nothing: one is modelled. *)
(* The byte streams are abstracted to "the BMC has not taken everything".  *)
(***************************************************************************)
EXTENDS Naturals, FiniteSets

CONSTANTS
  Sessions,   \* calls of create_console_session, and the sessions they make
  Sockets,    \* WebSockets that browsers open
  MaxPolls,   \* bound: reads of the task, and of the access, before a deadline
  None

ASSUME ConsoleAssumption ==
  MaxPolls \in Nat /\ None \notin Sessions \cup Sockets

VARIABLES
  call,       \* where each call of create_console_session stands
  polls,      \* reads each call has made in the loop it is in
  current,    \* _sessions.get(service_name)
  websocket,  \* each session's websocket field
  expired,    \* whether a session's expires_at has passed
  sock,       \* where each handler stands
  of,         \* the session object the handler holds (entry)
  told,       \* sockets that previous.websocket.close() was called on
  unread,     \* sockets whose bytes the BMC has not taken: the writer's buffer
  access,     \* whether OVH has a console access prepared for the server
  task,       \* OVH's access task of each call
  overlap     \* history: two users of the console were in each other's way

callVars == <<call, polls, access, task>>
sockVars == <<sock, of, unread>>
vars == <<call, polls, current, websocket, expired, sock, of, told, unread,
          access, task, overlap>>

TypeOK ==
  /\ call \in [Sessions -> {"idle", "posting", "polling", "reading", "brokered",
                            "closing", "answered", "failed"}]
  /\ polls \in [Sessions -> 0..MaxPolls]
  /\ current \in Sessions \cup {None}
  /\ websocket \in [Sessions -> Sockets \cup {None}]
  /\ expired \in [Sessions -> BOOLEAN]
  /\ sock \in [Sockets -> {"idle", "connecting", "relaying", "flushing", "gone"}]
  /\ of \in [Sockets -> Sessions \cup {None}]
  /\ told \subseteq Sockets /\ unread \subseteq Sockets
  /\ access \in BOOLEAN
  /\ task \in [Sessions -> {"none", "doing", "done", "error", "prepared"}]
  /\ overlap \in BOOLEAN
  /\ \A k \in Sockets : sock[k] \in {"connecting", "relaying", "flushing"} =>
       of[k] # None /\ call[of[k]] = "answered"
  /\ \A s \in Sessions : websocket[s] # None => of[websocket[s]] = s

Init ==
  /\ call = [s \in Sessions |-> "idle"] /\ polls = [s \in Sessions |-> 0]
  /\ current = None
  /\ websocket = [s \in Sessions |-> None] /\ expired = [s \in Sessions |-> FALSE]
  /\ sock = [k \in Sockets |-> "idle"] /\ of = [k \in Sockets |-> None]
  /\ told = {} /\ unread = {}
  /\ access \in BOOLEAN /\ task = [s \in Sessions |-> "none"]
  /\ overlap = FALSE

Goto(s, place) ==
  /\ call' = [call EXCEPT ![s] = place]
  /\ polls' = [polls EXCEPT ![s] = 0]

----------------------------------------------------------------------------
(* open_ipmi_session: an access that OVH still has is reused; otherwise a  *)
(* task is asked for, polled to its end, and the access read.              *)

Ask(s) ==
  /\ call[s] = "idle"
  /\ \/ access /\ Goto(s, "brokered")
     \/ ~access /\ Goto(s, "posting")          \* 404: there is none
     \/ Goto(s, "failed")
  /\ UNCHANGED <<current, websocket, expired, sockVars, told, access, task, overlap>>

\* The reply carries a taskId, or none; or the POST fails, having started a
\* task or not.
Post(s) ==
  /\ call[s] = "posting"
  /\ \/ /\ task' = [task EXCEPT ![s] = "doing"]
        /\ \E place \in {"polling", "reading", "failed"} : Goto(s, place)
     \/ task' = task /\ Goto(s, "failed")
  /\ UNCHANGED <<current, websocket, expired, sockVars, told, access, overlap>>

\* A failed read and a task still under way go round again until the deadline.
PollTask(s) ==
  /\ call[s] = "polling"
  /\ \/ /\ polls[s] < MaxPolls
        /\ polls' = [polls EXCEPT ![s] = @ + 1]
        /\ call' = call
     \/ polls[s] < MaxPolls /\ task[s] \in {"done", "prepared"} /\ Goto(s, "reading")
     \/ polls[s] < MaxPolls /\ task[s] = "error" /\ Goto(s, "failed")
     \/ polls[s] = MaxPolls /\ Goto(s, "failed")
  /\ UNCHANGED <<current, websocket, expired, sockVars, told, access, task, overlap>>

ReadAccess(s) ==
  /\ call[s] = "reading"
  /\ \/ polls[s] < MaxPolls /\ access /\ Goto(s, "brokered")
     \/ /\ polls[s] < MaxPolls
        /\ polls' = [polls EXCEPT ![s] = @ + 1]
        /\ call' = call
     \/ polls[s] = MaxPolls /\ Goto(s, "failed")
  /\ UNCHANGED <<current, websocket, expired, sockVars, told, access, task, overlap>>

----------------------------------------------------------------------------
(* create_console_session, from the descriptor to the registration.        *)

Connecting == {k \in Sockets : sock[k] = "connecting"}

Unparsable(s) ==
  /\ call[s] = "brokered"
  /\ Goto(s, "failed")
  /\ UNCHANGED <<current, websocket, expired, sockVars, told, access, task, overlap>>

\* A plausible bug: the new session is registered before the previous one is
\* looked up.
ReplaceSwapped(s) ==
  /\ call[s] = "brokered"
  /\ current' = s /\ told' = told
  /\ Goto(s, "answered")
  /\ overlap' = (overlap \/ Connecting # {})
  /\ UNCHANGED <<websocket, expired, sockVars, access, task>>

\* The session registered so far has a relay: it is told to close, and the
\* call awaits that before it registers.  Otherwise it registers at once.
Replace(s) ==
  /\ call[s] = "brokered"
  /\ IF current # None /\ websocket[current] # None
       THEN /\ told' = told \cup {websocket[current]}
            /\ current' = current
            /\ Goto(s, "closing")
       ELSE /\ current' = s
            /\ told' = told
            /\ Goto(s, "answered")
  /\ overlap' = (overlap \/ Connecting # {})
  /\ UNCHANGED <<websocket, expired, sockVars, access, task>>

Register(s) ==
  /\ call[s] = "closing"
  /\ current' = s
  /\ Goto(s, "answered")
  /\ UNCHANGED <<websocket, expired, sockVars, told, access, task, overlap>>

\* _MAX_SESSION_SECONDS after the session was made.
Expire(s) ==
  /\ call[s] \in {"closing", "answered"} /\ ~expired[s]
  /\ expired' = [expired EXCEPT ![s] = TRUE]
  /\ UNCHANGED <<callVars, current, websocket, sockVars, told, overlap>>

----------------------------------------------------------------------------
(* console_ws.                                                             *)

\* A browser that was given the id of s opens a socket.  It is turned away if
\* s is not the registered session or has expired.
Open(k, s) ==
  /\ sock[k] = "idle" /\ call[s] = "answered"
  /\ IF current = s /\ ~expired[s]
       THEN /\ sock' = [sock EXCEPT ![k] = "connecting"]
            /\ of' = [of EXCEPT ![k] = s]
            /\ current' = current
            /\ overlap' = (overlap \/ (\E j \in Sockets : sock[j] \in {"connecting", "relaying"}
                                                          /\ of[j] = s)
                                   \/ \E c \in Sessions : call[c] = "closing")
       ELSE /\ sock' = [sock EXCEPT ![k] = "gone"]
            /\ current' = IF current = s THEN None ELSE current
            /\ UNCHANGED <<of, overlap>>
  /\ UNCHANGED <<callVars, websocket, expired, told, unread>>

\* The BMC answers and the socket is accepted: only now does the session know
\* its relay, whatever has become of the registration meanwhile.
Connected(k) ==
  /\ sock[k] = "connecting"
  /\ sock' = [sock EXCEPT ![k] = "relaying"]
  /\ websocket' = [websocket EXCEPT ![of[k]] = k]
  /\ UNCHANGED <<callVars, current, expired, of, told, unread, overlap>>

\* The connection is refused or takes _CONNECT_TIMEOUT, or accept fails.
ConnectFails(k) ==
  /\ sock[k] = "connecting"
  /\ sock' = [sock EXCEPT ![k] = "gone"]
  /\ UNCHANGED <<callVars, current, websocket, expired, of, told, unread, overlap>>

\* _pump_ws writes what the browser sends, and the BMC takes it or does not.
Write(k) ==
  /\ sock[k] = "relaying" /\ unread' = unread \cup {k}
  /\ UNCHANGED <<callVars, current, websocket, expired, sock, of, told, overlap>>

BmcReads(k) ==
  /\ k \in unread /\ unread' = unread \ {k}
  /\ UNCHANGED <<callVars, current, websocket, expired, sock, of, told, overlap>>

Stops(k) ==
  /\ sock[k] = "relaying"
  /\ sock' = [sock EXCEPT ![k] = "flushing"]
  /\ UNCHANGED <<callVars, current, websocket, expired, of, told, overlap>>

\* The browser leaves, or the BMC closes its end and with it the buffer.
BrowserLeaves(k) == Stops(k) /\ unread' = unread
BmcCloses(k) == Stops(k) /\ unread' = unread \ {k}

\* A plausible bug: the relay waits without a timeout, trusting OVH to end it.
TimesUpNever(k) == FALSE /\ Stops(k) /\ unread' = unread

\* asyncio.wait's timeout, and the pump that finds its socket closed.
TimesUp(k) == of[k] # None /\ expired[of[k]] /\ Stops(k) /\ unread' = unread

ToldToClose(k) == k \in told /\ Stops(k) /\ unread' = unread

\* The finally clause: writer.wait_closed() returns once the buffer is empty;
\* then the field is cleared, if it is still this handler's, and the socket
\* closed.
Finish(k) ==
  /\ sock[k] = "flushing" /\ k \notin unread
  /\ websocket' = IF websocket[of[k]] = k THEN [websocket EXCEPT ![of[k]] = None]
                  ELSE websocket
  /\ sock' = [sock EXCEPT ![k] = "gone"]
  /\ UNCHANGED <<callVars, current, expired, of, told, unread, overlap>>

----------------------------------------------------------------------------
(* OVH.                                                                    *)

TaskMoves(s) ==
  /\ \/ /\ task[s] = "doing"
        /\ \E end \in {"done", "error"} : task' = [task EXCEPT ![s] = end]
        /\ access' = access
     \/ /\ task[s] = "done"                    \* the value can lag the task
        /\ task' = [task EXCEPT ![s] = "prepared"]
        /\ access' = TRUE
  /\ UNCHANGED <<call, polls, current, websocket, expired, sockVars, told, overlap>>

AccessLapses ==
  /\ access /\ access' = FALSE
  /\ UNCHANGED <<call, polls, task, current, websocket, expired, sockVars, told, overlap>>

----------------------------------------------------------------------------
Next ==
  \/ \E s \in Sessions : Ask(s) \/ Post(s) \/ PollTask(s) \/ ReadAccess(s)
                         \/ Unparsable(s) \/ Replace(s) \/ Register(s) \/ Expire(s)
                         \/ TaskMoves(s)
  \/ \E k \in Sockets, s \in Sessions : Open(k, s)
  \/ \E k \in Sockets : Connected(k) \/ ConnectFails(k) \/ Write(k) \/ BmcReads(k)
                        \/ BrowserLeaves(k) \/ BmcCloses(k) \/ TimesUp(k)
                        \/ ToldToClose(k) \/ Finish(k)
  \/ AccessLapses

\* Timers fire and the event loop runs what is ready: a session expires, a
\* connection attempt ends within _CONNECT_TIMEOUT, the wait of a relay times
\* out, and a handler whose buffer is empty finishes.  Nothing is assumed of
\* the BMC, of the browser or of OVH.
Fairness ==
  /\ \A s \in Sessions : WF_vars(Expire(s))
  /\ \A k \in Sockets : /\ WF_vars(Connected(k) \/ ConnectFails(k))
                        /\ WF_vars(TimesUp(k))
                        /\ WF_vars(Finish(k))

Spec == Init /\ [][Next]_vars /\ Fairness

----------------------------------------------------------------------------
\* Relays nobody has told to close and whose session still runs.
Relays == {k \in Sockets : sock[k] = "relaying" /\ k \notin told /\ ~expired[of[k]]}

\* "One console per server; opening a second replaces the first, because the
\* BMC itself only supports one active KVM session" (console.py:77).  Two relays
\* do stand side by side after a race, and only then: a call that replaced the
\* session while a socket was still connecting, a socket opened while a call
\* awaited the close, or an id used for two sockets at once.
OneConsoleUnlessOverlap == overlap \/ Cardinality(Relays) <= 1

\* "A hard ceiling [...] so a stuck session cannot hold a socket open forever"
\* (console.py:50): a socket that was let in ends, unless the BMC never takes
\* the bytes it was sent: console_ws awaits writer.wait_closed() without a bound
\* before it closes the socket.
SocketEnds ==
  \A k \in Sockets :
    (sock[k] = "connecting") ~> (sock[k] = "gone" \/ [](k \in unread))
=============================================================================
