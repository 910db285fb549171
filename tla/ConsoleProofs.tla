--------------------------- MODULE ConsoleProofs ---------------------------
(***************************************************************************)
(* Theorems about Console, for any sessions, sockets and number of polls;  *)
(* and about Migration, for any database files of earlier versions, any    *)
(* accounts, alerts and keys.                                              *)
(***************************************************************************)
EXTENDS Console, Migration, FiniteSetTheorems, TLAPS

(* A handler that has not begun holds no session.                          *)
IdleHoldsNone == \A k \in Sockets : sock[k] = "idle" => of[k] = None

TypeInv == TypeOK /\ IdleHoldsNone

(* The first state has the types, and no handler has begun.                *)
LEMMA InitType == Init => TypeInv
<1> SUFFICES ASSUME Init PROVE TypeInv
  OBVIOUS
<1>1. access \in BOOLEAN /\ overlap \in BOOLEAN
  BY Zenon DEF Init
<1>2. expired \in [Sessions -> BOOLEAN]
  <2>1. expired = [s \in Sessions |-> FALSE]
    BY DEF Init
  <2> QED BY <2>1, Zenon
<1>3. \A k \in Sockets : sock[k] = "idle" /\ of[k] = None
  BY DEF Init
<1>4. /\ sock \in [Sockets -> {"idle", "connecting", "relaying", "flushing", "gone"}]
      /\ of \in [Sockets -> Sessions \cup {None}]
      /\ websocket \in [Sessions -> Sockets \cup {None}]
      /\ \A s \in Sessions : websocket[s] = None
  BY DEF Init
<1>5. /\ call \in [Sessions -> {"idle", "posting", "polling", "reading", "brokered",
                                "closing", "answered", "failed"}]
      /\ task \in [Sessions -> {"none", "doing", "done", "error", "prepared"}]
  BY DEF Init
<1>6. /\ polls \in [Sessions -> 0..MaxPolls]
      /\ current \in Sessions \cup {None}
      /\ told \subseteq Sockets /\ unread \subseteq Sockets
  BY ConsoleAssumption DEF Init
<1> QED BY <1>1, <1>2, <1>3, <1>4, <1>5, <1>6 DEF TypeInv, TypeOK, IdleHoldsNone

(* Where a step of open_ipmi_session leaves its call.                      *)
LEMMA GotoType ==
  ASSUME TypeOK, NEW s \in Sessions, call[s] # "answered",
         NEW place \in {"posting", "polling", "reading", "brokered", "closing",
                        "answered", "failed"},
         Goto(s, place)
  PROVE  /\ call' \in [Sessions -> {"idle", "posting", "polling", "reading",
                                    "brokered", "closing", "answered", "failed"}]
         /\ polls' \in [Sessions -> 0..MaxPolls]
         /\ \A t \in Sessions : call[t] = "answered" => call'[t] = "answered"
  BY ConsoleAssumption DEF TypeOK, Goto

(* Every step keeps the types, and what a handler and its session say of   *)
(* each other.                                                             *)
LEMMA TypeStep == TypeInv /\ [Next]_vars => TypeInv'
<1> SUFFICES ASSUME TypeOK, IdleHoldsNone, [Next]_vars PROVE TypeInv'
  BY DEF TypeInv
<1> USE ConsoleAssumption
<1>1. ASSUME NEW s \in Sessions, Ask(s) PROVE TypeInv'
  <2>1. /\ call' \in [Sessions -> {"idle", "posting", "polling", "reading",
                                   "brokered", "closing", "answered", "failed"}]
        /\ polls' \in [Sessions -> 0..MaxPolls]
        /\ \A t \in Sessions : call[t] = "answered" => call'[t] = "answered"
    BY <1>1, GotoType DEF Ask
  <2> QED BY <1>1, <2>1 DEF Ask, sockVars, TypeInv, TypeOK, IdleHoldsNone
<1>2. ASSUME NEW s \in Sessions, Post(s) PROVE TypeInv'
  <2>1. /\ call' \in [Sessions -> {"idle", "posting", "polling", "reading",
                                   "brokered", "closing", "answered", "failed"}]
        /\ polls' \in [Sessions -> 0..MaxPolls]
        /\ \A t \in Sessions : call[t] = "answered" => call'[t] = "answered"
    BY <1>2, GotoType DEF Post
  <2>2. task' \in [Sessions -> {"none", "doing", "done", "error", "prepared"}]
    BY <1>2 DEF Post, TypeOK
  <2> QED BY <1>2, <2>1, <2>2 DEF Post, sockVars, TypeInv, TypeOK, IdleHoldsNone
<1>3. ASSUME NEW s \in Sessions, PollTask(s) \/ ReadAccess(s) PROVE TypeInv'
  <2>1. /\ call' \in [Sessions -> {"idle", "posting", "polling", "reading",
                                   "brokered", "closing", "answered", "failed"}]
        /\ polls' \in [Sessions -> 0..MaxPolls]
        /\ \A t \in Sessions : call[t] = "answered" => call'[t] = "answered"
    <3>1. CASE polls[s] < MaxPolls /\ polls' = [polls EXCEPT ![s] = @ + 1] /\ call' = call
      BY <3>1 DEF TypeOK
    <3>2. CASE \E place \in {"reading", "failed", "brokered"} : Goto(s, place)
      BY <1>3, <3>2, GotoType DEF PollTask, ReadAccess
    <3> QED BY <1>3, <3>1, <3>2 DEF PollTask, ReadAccess
  <2> QED BY <1>3, <2>1 DEF PollTask, ReadAccess, sockVars, TypeInv, TypeOK, IdleHoldsNone
<1>4. ASSUME NEW s \in Sessions, Unparsable(s) \/ Replace(s) \/ Register(s) PROVE TypeInv'
  <2>1. /\ call' \in [Sessions -> {"idle", "posting", "polling", "reading",
                                   "brokered", "closing", "answered", "failed"}]
        /\ polls' \in [Sessions -> 0..MaxPolls]
        /\ \A t \in Sessions : call[t] = "answered" => call'[t] = "answered"
    BY <1>4, GotoType DEF Unparsable, Replace, Register
  <2>2. current' \in Sessions \cup {None} /\ told' \subseteq Sockets
    <3>1. CASE Unparsable(s) \/ Register(s)
      BY <3>1 DEF Unparsable, Register, TypeOK
    <3>2. CASE Replace(s) /\ current # None /\ websocket[current] # None
      BY <3>2 DEF Replace, TypeOK
    <3>3. CASE Replace(s) /\ ~ (current # None /\ websocket[current] # None)
      BY <3>3 DEF Replace, TypeOK
    <3> QED BY <1>4, <3>1, <3>2, <3>3
  <2>4. overlap' \in BOOLEAN
    BY <1>4, Zenon DEF Unparsable, Replace, Register, TypeOK
  <2>3. UNCHANGED <<websocket, expired, sock, of, unread, access, task>>
    BY <1>4 DEF Unparsable, Replace, Register, sockVars
  <2> QED BY <2>1, <2>2, <2>3, <2>4 DEF TypeInv, TypeOK, IdleHoldsNone
<1>5. ASSUME NEW s \in Sessions, Expire(s) PROVE TypeInv'
  BY <1>5 DEF Expire, callVars, sockVars, TypeInv, TypeOK, IdleHoldsNone
<1>6. ASSUME NEW s \in Sessions, TaskMoves(s) PROVE TypeInv'
  <2>1. task' \in [Sessions -> {"none", "doing", "done", "error", "prepared"}]
    BY <1>6 DEF TaskMoves, TypeOK
  <2>2. access' \in BOOLEAN
    BY <1>6, Zenon DEF TaskMoves, TypeOK
  <2> QED BY <1>6, <2>1, <2>2 DEF TaskMoves, sockVars, TypeInv, TypeOK, IdleHoldsNone
<1>7. ASSUME NEW k \in Sockets, NEW s \in Sessions, Open(k, s) PROVE TypeInv'
  <2>1. /\ sock' \in [Sockets -> {"idle", "connecting", "relaying", "flushing", "gone"}]
        /\ of' \in [Sockets -> Sessions \cup {None}]
        /\ current' \in Sessions \cup {None}
    <3>1. CASE current = s /\ ~ expired[s]
      BY <1>7, <3>1 DEF Open, TypeOK
    <3>2. CASE ~ (current = s /\ ~ expired[s])
      BY <1>7, <3>2 DEF Open, TypeOK
    <3> QED BY <3>1, <3>2
  <2>5. overlap' \in BOOLEAN
    BY <1>7, Zenon DEF Open, TypeOK
  <2>2. /\ \A j \in Sockets \ {k} : sock'[j] = sock[j] /\ of'[j] = of[j]
        /\ sock'[k] # "idle" /\ of[k] = None
        /\ (sock'[k] = "connecting" /\ of'[k] = s) \/ (sock'[k] = "gone" /\ of'[k] = None)
        /\ call[s] = "answered"
    <3>1. CASE current = s /\ ~ expired[s]
      BY <1>7, <3>1 DEF Open, TypeOK, IdleHoldsNone
    <3>2. CASE ~ (current = s /\ ~ expired[s])
      <4>1. sock[k] = "idle" /\ sock' = [sock EXCEPT ![k] = "gone"] /\ of' = of
        BY <1>7, <3>2, Zenon DEF Open
      <4>2. call[s] = "answered"
        BY <1>7 DEF Open
      <4> QED BY <4>1, <4>2 DEF TypeOK, IdleHoldsNone
    <3> QED BY <3>1, <3>2
  <2>3. \A t \in Sessions : websocket[t] # k
    BY <2>2 DEF TypeOK
  <2>4. UNCHANGED <<call, polls, access, task, websocket, expired, told, unread>>
    BY <1>7 DEF Open, callVars
  <2> QED BY <2>1, <2>2, <2>3, <2>4, <2>5 DEF TypeInv, TypeOK, IdleHoldsNone
<1>8. ASSUME NEW k \in Sockets, Connected(k) PROVE TypeInv'
  BY <1>8 DEF Connected, callVars, TypeInv, TypeOK, IdleHoldsNone
<1>9. ASSUME NEW k \in Sockets, ConnectFails(k) \/ Write(k) \/ BmcReads(k) PROVE TypeInv'
  BY <1>9 DEF ConnectFails, Write, BmcReads, callVars, TypeInv, TypeOK, IdleHoldsNone
<1>10. ASSUME NEW k \in Sockets,
              BrowserLeaves(k) \/ BmcCloses(k) \/ TimesUp(k) \/ ToldToClose(k)
       PROVE  TypeInv'
  BY <1>10 DEF BrowserLeaves, BmcCloses, TimesUp, ToldToClose, Stops, callVars,
               TypeInv, TypeOK, IdleHoldsNone
<1>11. ASSUME NEW k \in Sockets, Finish(k) PROVE TypeInv'
  <2>1. /\ websocket' \in [Sessions -> Sockets \cup {None}]
        /\ \A t \in Sessions : websocket'[t] \in {websocket[t], None}
    BY <1>11 DEF Finish, TypeOK
  <2> QED BY <1>11, <2>1 DEF Finish, callVars, TypeInv, TypeOK, IdleHoldsNone
<1>12. CASE AccessLapses
  BY <1>12 DEF AccessLapses, sockVars, TypeInv, TypeOK, IdleHoldsNone
<1>13. CASE UNCHANGED vars
  BY <1>13 DEF vars, TypeInv, TypeOK, IdleHoldsNone
<1> QED BY <1>1, <1>2, <1>3, <1>4, <1>5, <1>6, <1>7, <1>8, <1>9, <1>10, <1>11, <1>12, <1>13
  DEF Next

(* Every variable of the console keeps its type, handlers relay for calls  *)
(* that were answered, and a session's websocket is one of its own.        *)
THEOREM TypeCorrect == Spec => []TypeOK
<1>1. Init => TypeInv
  BY InitType
<1>2. TypeInv => TypeOK
  BY DEF TypeInv
<1> QED BY <1>1, <1>2, TypeStep, PTL DEF Spec

-----------------------------------------------------------------------------
(* One relay, as long as nobody was in another's way.                      *)

(* A relay that is neither told to close nor past its time is the one its  *)
(* session knows, and the session is the registered one.                   *)
RelayIsKnown ==
  \A k \in Relays : current = of[k] /\ websocket[of[k]] = k

(* So is the session of a socket that is connecting, and it has no other   *)
(* socket.                                                                 *)
ConnectsAlone ==
  \A k \in Connecting :
    /\ ~ expired[of[k]] => current = of[k]
    /\ \A j \in Sockets : of[j] = of[k] /\ sock[j] \in {"connecting", "relaying"} => j = k

(* While a call awaits the close of a relay, nothing connects and nothing  *)
(* relays but what was told to close.                                      *)
ClosingIsQuiet ==
  (\E s \in Sessions : call[s] = "closing") => Connecting = {} /\ Relays = {}

Apart == RelayIsKnown /\ ConnectsAlone /\ ClosingIsQuiet

(* Every step keeps them apart, or is one of the races that overlap holds. *)
LEMMA ApartStep ==
  ASSUME TypeInv, TypeInv', Apart, overlap' = FALSE, overlap = FALSE, Next
  PROVE  Apart'
<1> USE DEF TypeInv
<1>1. ASSUME NEW s \in Sessions,
             Ask(s) \/ Post(s) \/ PollTask(s) \/ ReadAccess(s) \/ Unparsable(s)
      PROVE  Apart'
  <2>1. UNCHANGED <<current, websocket, expired, sock, of, told>>
    BY <1>1 DEF Ask, Post, PollTask, ReadAccess, Unparsable, sockVars
  <2>2. \A t \in Sessions : call'[t] = "closing" => call[t] = "closing"
    BY <1>1 DEF Ask, Post, PollTask, ReadAccess, Unparsable, Goto, TypeOK
  <2> QED BY <2>1, <2>2
       DEF Apart, RelayIsKnown, ConnectsAlone, ClosingIsQuiet, Relays, Connecting
<1>2. ASSUME NEW s \in Sessions, Replace(s) PROVE Apart'
  <2>1. Connecting = {} /\ UNCHANGED <<websocket, expired, sock, of>>
    BY <1>2 DEF Replace, sockVars
  <2>2. CASE current # None /\ websocket[current] # None
    <3>1. told' = told \cup {websocket[current]} /\ current' = current
      BY <1>2, <2>2, Zenon DEF Replace
    <3>2. Relays' = {}
      BY <2>1, <3>1 DEF Apart, RelayIsKnown, Relays
    <3> QED BY <2>1, <3>2
         DEF Apart, RelayIsKnown, ConnectsAlone, ClosingIsQuiet, Connecting
  <2>3. CASE ~ (current # None /\ websocket[current] # None)
    <3>1. told' = told
      BY <1>2, <2>3, Zenon DEF Replace
    <3>2. Relays = {}
      BY <2>3, ConsoleAssumption DEF Apart, RelayIsKnown, Relays, TypeOK
    <3>3. Relays' = {}
      BY <2>1, <3>1, <3>2 DEF Relays
    <3> QED BY <2>1, <3>3
         DEF Apart, RelayIsKnown, ConnectsAlone, ClosingIsQuiet, Connecting
  <2> QED BY <2>2, <2>3
<1>3. ASSUME NEW s \in Sessions, Register(s) PROVE Apart'
  <2>1. Connecting = {} /\ Relays = {}
    BY <1>3 DEF Register, Apart, ClosingIsQuiet
  <2>2. UNCHANGED <<websocket, expired, sock, of, told>>
    BY <1>3 DEF Register, sockVars
  <2>3. Connecting' = {} /\ Relays' = {}
    BY <2>1, <2>2 DEF Connecting, Relays
  <2> QED BY <2>3 DEF Apart, RelayIsKnown, ConnectsAlone, ClosingIsQuiet
<1>4. ASSUME NEW s \in Sessions, Expire(s) PROVE Apart'
  <2>1. UNCHANGED <<call, current, websocket, sock, of, told>>
    BY <1>4 DEF Expire, callVars, sockVars
  <2>2. \A t \in Sessions : ~ expired'[t] => ~ expired[t]
    BY <1>4 DEF Expire, TypeOK
  <2>3. /\ Relays' \subseteq Relays /\ Connecting' = Connecting
        /\ \A k \in Relays \cup Connecting : of[k] \in Sessions
    BY <2>1, <2>2 DEF Relays, Connecting, TypeOK
  <2> QED BY <2>1, <2>2, <2>3
       DEF Apart, RelayIsKnown, ConnectsAlone, ClosingIsQuiet
<1>5. CASE (\E s \in Sessions : TaskMoves(s)) \/ AccessLapses
  BY <1>5 DEF TaskMoves, AccessLapses, sockVars,
              Apart, RelayIsKnown, ConnectsAlone, ClosingIsQuiet, Relays, Connecting
<1>6. ASSUME NEW k \in Sockets, NEW s \in Sessions, Open(k, s) PROVE Apart'
  <2>1. /\ UNCHANGED <<call, websocket, expired, told>>
        /\ sock[k] = "idle" /\ of[k] = None
    BY <1>6 DEF Open, callVars, IdleHoldsNone
  <2>2. CASE current = s /\ ~ expired[s]
    <3>1. /\ sock' = [sock EXCEPT ![k] = "connecting"]
          /\ of' = [of EXCEPT ![k] = s] /\ current' = current
      BY <1>6, <2>2, Zenon DEF Open
    <3>2. /\ \A j \in Sockets : sock[j] \in {"connecting", "relaying"} => of[j] # s
          /\ \A c \in Sessions : call[c] # "closing"
      BY <1>6, <2>2, Zenon DEF Open
    <3>3. /\ \A j \in Sockets \ {k} : sock'[j] = sock[j] /\ of'[j] = of[j]
          /\ sock'[k] = "connecting" /\ of'[k] = s
      BY <3>1 DEF TypeOK
    <3>4. Relays' = Relays /\ k \notin Relays
      BY <2>1, <3>3 DEF Relays
    <3>5. Connecting' = Connecting \cup {k} /\ k \notin Connecting
      BY <2>1, <3>3 DEF Connecting
    <3>6. RelayIsKnown'
      BY <2>1, <3>1, <3>3, <3>4 DEF Apart, RelayIsKnown, Relays
    <3>7. ConnectsAlone'
      BY <2>1, <2>2, <3>1, <3>2, <3>3, <3>5 DEF Apart, ConnectsAlone, Connecting
    <3> QED BY <2>1, <3>2, <3>6, <3>7 DEF Apart, ClosingIsQuiet
  <2>3. CASE ~ (current = s /\ ~ expired[s])
    <3>1. /\ sock' = [sock EXCEPT ![k] = "gone"] /\ of' = of
          /\ current' = IF current = s THEN None ELSE current
      BY <1>6, <2>3, Zenon DEF Open
    <3>2. Relays' = Relays /\ Connecting' = Connecting
      BY <2>1, <3>1 DEF Relays, Connecting, TypeOK
    <3>3. \A j \in Relays : current' = current
      BY <2>3, <3>1 DEF Apart, RelayIsKnown, Relays
    <3>4. ConnectsAlone'
      BY <2>1, <2>3, <3>1, <3>2 DEF Apart, ConnectsAlone, Connecting, TypeOK
    <3> QED BY <2>1, <3>1, <3>2, <3>3, <3>4 DEF Apart, RelayIsKnown, ClosingIsQuiet
  <2> QED BY <2>2, <2>3
<1>7. ASSUME NEW k \in Sockets, Connected(k) PROVE Apart'
  <2>1. /\ UNCHANGED <<call, current, expired, of, told>>
        /\ k \in Connecting /\ of[k] \in Sessions
        /\ \A j \in Sockets \ {k} : sock'[j] = sock[j]
        /\ sock'[k] = "relaying"
        /\ \A t \in Sessions \ {of[k]} : websocket'[t] = websocket[t]
        /\ websocket'[of[k]] = k
    BY <1>7, ConsoleAssumption DEF Connected, callVars, Connecting, TypeOK
  <2>2. Connecting' = Connecting \ {k} /\ Relays' \subseteq Relays \cup {k}
    BY <2>1 DEF Connecting, Relays
  <2>3. \A j \in Relays : of[j] # of[k] /\ of[j] \in Sessions
    BY <2>1 DEF Apart, ConnectsAlone, Relays, Connecting, TypeOK
  <2>4. k \in Relays' => current = of[k]
    BY <2>1 DEF Apart, ConnectsAlone, Relays
  <2>5. RelayIsKnown'
    BY <2>1, <2>2, <2>3, <2>4 DEF Apart, RelayIsKnown
  <2>6. ConnectsAlone'
    BY <2>1, <2>2 DEF Apart, ConnectsAlone, Connecting
  <2> QED BY <2>1, <2>5, <2>6 DEF Apart, ClosingIsQuiet
<1>8. ASSUME NEW k \in Sockets, ConnectFails(k) PROVE Apart'
  BY <1>8 DEF ConnectFails, callVars, TypeOK,
              Apart, RelayIsKnown, ConnectsAlone, ClosingIsQuiet, Relays, Connecting
<1>9. ASSUME NEW k \in Sockets, Write(k) \/ BmcReads(k) PROVE Apart'
  BY <1>9 DEF Write, BmcReads, callVars,
              Apart, RelayIsKnown, ConnectsAlone, ClosingIsQuiet, Relays, Connecting
<1>10. ASSUME NEW k \in Sockets, Stops(k) PROVE Apart'
  BY <1>10 DEF Stops, callVars, TypeOK,
               Apart, RelayIsKnown, ConnectsAlone, ClosingIsQuiet, Relays, Connecting
<1>11. ASSUME NEW k \in Sockets, Finish(k) PROVE Apart'
  <2>1. /\ UNCHANGED <<call, current, expired, of, told>>
        /\ \A t \in Sessions : websocket[t] # k => websocket'[t] = websocket[t]
    BY <1>11 DEF Finish, callVars, TypeOK
  <2>2. Relays' = Relays /\ Connecting' = Connecting /\ k \notin Relays
    BY <1>11, <2>1 DEF Finish, Relays, Connecting, TypeOK
  <2>3. RelayIsKnown'
    BY <2>1, <2>2 DEF Apart, RelayIsKnown, Relays, TypeOK
  <2>4. ConnectsAlone'
    BY <1>11, <2>1, <2>2 DEF Finish, Apart, ConnectsAlone, Connecting, TypeOK
  <2> QED BY <2>1, <2>2, <2>3, <2>4 DEF Apart, ClosingIsQuiet
<1>12. \A k \in Sockets :
         BrowserLeaves(k) \/ BmcCloses(k) \/ TimesUp(k) \/ ToldToClose(k) => Stops(k)
  BY DEF BrowserLeaves, BmcCloses, TimesUp, ToldToClose
<1>13. CASE \E s \in Sessions : Ask(s) \/ Post(s) \/ PollTask(s) \/ ReadAccess(s)
                                \/ Unparsable(s) \/ Replace(s) \/ Register(s) \/ Expire(s)
  BY <1>1, <1>2, <1>3, <1>4, <1>13, Zenon
<1>14. CASE \E k \in Sockets, s \in Sessions : Open(k, s)
  BY <1>6, <1>14, Zenon
<1>15. CASE \E k \in Sockets : Connected(k) \/ ConnectFails(k) \/ Write(k) \/ BmcReads(k)
                               \/ Stops(k) \/ Finish(k)
  BY <1>7, <1>8, <1>9, <1>10, <1>11, <1>15, Zenon
<1> QED BY <1>5, <1>12, <1>13, <1>14, <1>15 DEF Next

OverlapInv == TypeInv /\ (overlap \/ Apart)

(* What has overlapped stays so.                                           *)
LEMMA OverlapStays == TypeInv /\ Next /\ overlap => overlap'
  BY Zenon DEF Next, Ask, Post, PollTask, ReadAccess, Unparsable, Replace, Register,
       Expire, TaskMoves, Open, Connected, ConnectFails, Write, BmcReads, BrowserLeaves,
       BmcCloses, TimesUp, ToldToClose, Stops, Finish, AccessLapses

(* "One console per server; opening a second replaces the first"           *)
(* (console.py:77), for any number of calls and sockets: two relays stand  *)
(* side by side only after a race.                                         *)
THEOREM OneConsole == Spec => []OneConsoleUnlessOverlap
<1>1. Init => OverlapInv
  <2> SUFFICES ASSUME Init PROVE OverlapInv
    OBVIOUS
  <2>1. TypeInv
    BY InitType
  <2>2. Apart
    BY DEF Init, Apart, RelayIsKnown, ConnectsAlone, ClosingIsQuiet, Relays, Connecting
  <2> QED BY <2>1, <2>2 DEF OverlapInv
<1>2. OverlapInv /\ [Next]_vars => OverlapInv'
  <2> SUFFICES ASSUME OverlapInv, [Next]_vars PROVE OverlapInv'
    OBVIOUS
  <2>1. TypeInv /\ TypeInv'
    BY TypeStep DEF OverlapInv
  <2>2. CASE Next
    <3>1. CASE overlap
      BY <2>1, <2>2, <3>1, OverlapStays DEF OverlapInv
    <3>2. CASE ~ overlap /\ ~ overlap'
      <4>1. overlap = FALSE /\ overlap' = FALSE
        BY <2>1, <3>2, Zenon DEF TypeInv, TypeOK
      <4> QED BY <2>1, <2>2, <3>2, <4>1, ApartStep DEF OverlapInv
    <3>3. CASE overlap'
      BY <2>1, <3>3 DEF OverlapInv
    <3> QED BY <3>1, <3>2, <3>3
  <2>3. CASE UNCHANGED vars
    BY <2>1, <2>3 DEF vars, OverlapInv,
       Apart, RelayIsKnown, ConnectsAlone, ClosingIsQuiet, Relays, Connecting
  <2> QED BY <2>2, <2>3
<1>3. OverlapInv => OneConsoleUnlessOverlap
  <2> SUFFICES ASSUME TypeInv, Apart PROVE Cardinality(Relays) <= 1
    BY DEF OverlapInv, OneConsoleUnlessOverlap
  <2>1. CASE Relays = {}
    BY <2>1, FS_EmptySet
  <2>2. CASE \E k \in Relays : Relays = {k}
    BY <2>2, FS_Singleton
  <2>3. \A j, k \in Relays : j = k
    BY DEF Apart, RelayIsKnown
  <2> QED BY <2>1, <2>2, <2>3
<1> QED BY <1>1, <1>2, <1>3, PTL DEF Spec

-----------------------------------------------------------------------------
(* Opening the database: Migration.  Types first.                          *)
(* Every statement leaves a database of the declared form.                 *)
LEMMA TypeKept ==
  ASSUME UpgradeTypeOK, [UpgradeNext]_upgradeVars PROVE UpgradeTypeOK'
<1> USE MigrationAssumption DEF MigrationAssumption
<1>o. /\ ops \in Nat /\ ops <= MaxOps /\ MaxOps \in Nat
      /\ Op => ops' \in 0 .. MaxOps
  BY DEF UpgradeTypeOK, Op
<1>d. disk \in Database /\ work \in Database /\ open \in BOOLEAN
  BY DEF UpgradeTypeOK
<1>1. CASE UNCHANGED upgradeVars
  BY <1>1 DEF UpgradeTypeOK, upgradeVars
<1>2. CASE Start \/ ColumnsDone \/ NoImport \/ NoRebuild \/ NoSetting \/ Commit
  BY <1>2 DEF UpgradeTypeOK, Start, ColumnsDone, NoImport, NoRebuild, NoSetting,
              Commit, Go, Pass, InInit, Serving, history
<1>3. CASE BackfillRaises \/ CreateRaises \/ CopyRaises \/ FlagRaises
  BY <1>3 DEF UpgradeTypeOK, BackfillRaises, CreateRaises, CopyRaises, FlagRaises,
              Raise, Go, Pass, InInit, Serving, history
<1>4. CASE CreateTables \/ CreateCopy \/ DropAlerts \/ RenameCopy
  <2>1. ASSUME NEW db \in Database, Define(db) PROVE disk' \in Database /\ work' \in Database /\ open' \in BOOLEAN
    BY <1>d, <2>1 DEF Define
  <2>2. CASE CreateTables
    <3>1. [work EXCEPT
       !.unique  = IF @ = "none" THEN "account" ELSE @,
       !.multi   = TRUE,
       !.columns = @ \cup (IF work.unique = "none" THEN {"account_id"} ELSE {})
                     \cup (IF work.multi THEN {} ELSE {"region_ticker_enabled"})] \in Database
      BY <1>d DEF Database, Column
    <3> QED BY <2>2, <2>1, <3>1 DEF UpgradeTypeOK, CreateTables, Go, InInit, history
  <2>3. CASE CreateCopy
    <3>1. [work EXCEPT !.rebuilding = TRUE] \in Database
      BY <1>d DEF Database
    <3> QED BY <2>3, <2>1, <3>1 DEF UpgradeTypeOK, CreateCopy, Go, InInit, history
  <2>4. CASE DropAlerts
    <3>1. [work EXCEPT !.alerts = {}, !.unique = "none"] \in Database
      BY <1>d DEF Database
    <3> QED BY <2>4, <2>1, <3>1 DEF UpgradeTypeOK, DropAlerts, Go, InInit, history
  <2>5. CASE RenameCopy
    <3>1. [work EXCEPT !.alerts = work.alerts_new, !.unique = "account",
                         !.rebuilding = FALSE, !.alerts_new = {}] \in Database
      BY <1>d DEF Database
    <3> QED BY <2>5, <2>1, <3>1 DEF UpgradeTypeOK, RenameCopy, Go, InInit, history
  <2> QED BY <1>4, <2>2, <2>3, <2>4, <2>5
<1>5. ASSUME NEW c \in Column, AddColumn(c) \/ AddColumnFails(c) PROVE UpgradeTypeOK'
  <2>1. [work EXCEPT !.columns = @ \cup {c}] \in Database
    BY <1>d DEF Database
  <2> QED BY <2>1, <1>5, <1>d, <1>o
       DEF UpgradeTypeOK, AddColumn, AddColumnFails, Define, Pass, history
<1>6. CASE \/ \E a \in Free : InsertAccount(a)
           \/ ActivateAccount \/ Backfill \/ CopyAlerts \/ DeleteSetting \/ SetFlag
  <2>1. ASSUME NEW db \in Database, Change(db) PROVE disk' \in Database /\ work' \in Database /\ open' \in BOOLEAN
    BY <1>d, <2>1 DEF Change
  <2>2. ASSUME NEW a \in Free, InsertAccount(a) PROVE UpgradeTypeOK'
    <3>1. [work EXCEPT !.accounts = {a}] \in Database /\ a \in Account
      BY <1>d DEF Database, Free
    <3> QED BY <2>2, <2>1, <3>1 DEF UpgradeTypeOK, InsertAccount, Go, InInit, history
  <2>3. CASE ActivateAccount
    <3>1. [work EXCEPT !.active = owner] \in Database
      BY <1>d DEF Database, UpgradeTypeOK
    <3> QED BY <2>3, <2>1, <3>1 DEF UpgradeTypeOK, ActivateAccount, Go, InInit, history
  <2>4. CASE Backfill
    <3>1. ASSUME NEW r \in Row PROVE [r EXCEPT !.account = IF @ = NoAccount THEN owner ELSE @] \in Row
      BY DEF Row, UpgradeTypeOK
    <3>2. work.alerts \subseteq Row
      BY <1>d DEF Database
    <3>3. Owned(work.alerts, owner) \subseteq Row
      BY <3>1, <3>2 DEF Owned
    <3>4. [work EXCEPT !.alerts = Owned(@, owner)] \in Database
      BY <1>d, <3>3 DEF Database
    <3> QED BY <2>4, <2>1, <3>4 DEF UpgradeTypeOK, Backfill, Go, InInit, history
  <2>5. CASE CopyAlerts
    <3>1. [work EXCEPT !.alerts_new = Newest(work.alerts)] \in Database
      BY <1>d DEF Database, Newest
    <3> QED BY <2>5, <2>1, <3>1 DEF UpgradeTypeOK, CopyAlerts, Go, InInit, history
  <2>6. CASE DeleteSetting
    <3>1. [work EXCEPT !.ticker = "absent"] \in Database
      BY <1>d DEF Database
    <3> QED BY <2>6, <2>1, <3>1 DEF UpgradeTypeOK, DeleteSetting, InInit, history
  <2>7. CASE SetFlag
    <3>1. [work EXCEPT !.tickers =
               IF work.active = NoAccount THEN work.accounts
               ELSE @ \cup ({work.active} \cap work.accounts)] \in Database
      BY <1>d DEF Database
    <3> QED BY <2>7, <2>1, <3>1 DEF UpgradeTypeOK, SetFlag, Go, InInit, history
  <2> QED BY <1>6, <2>2, <2>3, <2>4, <2>5, <2>6, <2>7
<1>7. CASE StatementFails \/ AnyWrite \/ Exit
  BY <1>7, <1>d, <1>o DEF UpgradeTypeOK, StatementFails, AnyWrite, Exit, Save, Pass,
       InInit, Serving, history
<1>8. ASSUME NEW i \in Id, NEW k \in Key, upsert_alert(i, k) PROVE UpgradeTypeOK'
  <2>1. [id |-> i, key |-> k, account |-> work.active] \in Row
    BY <1>d DEF Database, Row
  <2>2. [work EXCEPT !.alerts = @ \cup {[id |-> i, key |-> k, account |-> work.active]}] \in Database
    BY <1>d, <2>1 DEF Database
  <2> QED BY <1>8, <2>2, <1>o, <1>d DEF upsert_alert, Save, UpgradeTypeOK
<1>9. ASSUME NEW a \in Account, create_account(a) PROVE UpgradeTypeOK'
  <2>2. [work EXCEPT !.accounts = @ \cup {a},
                       !.active = IF @ = NoAccount THEN a ELSE @] \in Database
    BY <1>d DEF Database
  <2> QED BY <1>9, <2>2, <1>o, <1>d DEF create_account, Save, UpgradeTypeOK
<1>10. ASSUME NEW a \in Account, delete_account(a) PROVE UpgradeTypeOK'
  <2>1. PICK b \in IF work.active # a THEN {work.active}
              ELSE IF work.accounts = {a} THEN {NoAccount}
              ELSE work.accounts \ {a} :
       Save([work EXCEPT !.accounts = @ \ {a}, !.active = b,
                         !.tickers = @ \ {a}])
    BY <1>10 DEF delete_account
  <2>2. [work EXCEPT !.accounts = @ \ {a}, !.active = b,
                         !.tickers = @ \ {a}] \in Database
    BY <1>d, <2>1 DEF Database
  <2> QED BY <1>10, <2>1, <2>2, <1>o, <1>d DEF delete_account, Save, UpgradeTypeOK
<1> QED BY <1>1, <1>2, <1>3, <1>4, <1>5, <1>6, <1>7, <1>8, <1>9, <1>10
     DEF UpgradeNext, InitStep

-----------------------------------------------------------------------------
(* The statements of init before the alerts table is built anew, and after. *)
Early == {"tables", "columns", "import", "activate", "backfill", "create"}
Late  == {"copy", "drop", "rename", "setting", "flag", "commit"}
(* Outside of a transaction the connection sees what is committed; which   *)
(* statements find one open.  Both copies respect the old constraint.      *)
Transaction ==
  /\ ~ open => work = disk
  /\ pc \in {"down", "tables", "columns", "import"} => ~ open
  /\ pc \in {"activate", "backfill", "drop", "rename", "flag"} => open
  /\ KeysAreUnique(disk) /\ KeysAreUnique(work)
(* If no statement failed, what the loop over columns is past is there.    *)
ColumnsThere ==
  ~ cause =>
    /\ pc = "tables" => todo = Column
    /\ pc = "columns" => Column \ todo \subseteq work.columns
    /\ pc \in InInit \ {"tables", "columns"} => Column \subseteq work.columns
(* An alerts_new is in the way of the old constraint's replacement, and    *)
(* only that, or a failed statement, makes init raise.                     *)
Blocked(db) == db.unique = "key" /\ db.rebuilding
ConstraintStage ==
  /\ pc \in Early => work.unique = disk.unique /\ work.rebuilding = disk.rebuilding
  /\ pc = "copy" => work.unique = "key"
  /\ pc = "limping" => cause \/ (Blocked(disk) /\ Blocked(work))
(* The table that holds the alerts now.  In it every committed alert is    *)
(* kept, and the rows of an account being imported have their owner.       *)
Rows == IF pc \in {"drop", "rename"} THEN work.alerts_new ELSE work.alerts
RowsStage ==
  /\ pc \in InInit => Ids(disk) \subseteq {r.id : r \in Rows}
  /\ pc \in {"activate", "backfill"} => owner # NoAccount
  /\ pc \in Late \cup {"create"} /\ disk.accounts = {} /\ work.accounts # {}
       => \A r \in Rows : r.account # NoAccount
(* The setting stays until it has become a flag.                           *)
Flagged(db) ==
  IF db.active = NoAccount THEN db.tickers = db.accounts
  ELSE db.active \in db.accounts => db.active \in db.tickers
TickerStage ==
  /\ pc \in InInit \ {"flag", "commit"} => work.ticker = disk.ticker
  /\ pc = "commit" /\ disk.ticker = "1" /\ work.ticker = "absent" => Flagged(work)
MigrationInv ==
  /\ UpgradeTypeOK /\ Transaction /\ ColumnsThere /\ ConstraintStage
  /\ RowsStage /\ TickerStage

-----------------------------------------------------------------------------
(* It holds before the first init, whatever database file it finds.        *)
LEMMA UpgradeStarts == ASSUME UpgradeInit PROVE MigrationInv
<1> USE MigrationAssumption DEF MigrationAssumption
<1>1. UpgradeTypeOK
  <2>1. disk \in Database /\ work \in Database
    BY DEF UpgradeInit
  <2>2. ops \in 0 .. MaxOps
    BY DEF UpgradeInit
  <2> QED BY <2>1, <2>2, Zenon DEF UpgradeInit, UpgradeTypeOK
<1>2. /\ pc = "down" /\ work = disk /\ open = FALSE /\ disk \in Databases
  BY DEF UpgradeInit
<1>3. Transaction
  BY <1>2 DEF Transaction
<1>4. ColumnsThere /\ ConstraintStage /\ RowsStage /\ TickerStage
  BY <1>2 DEF ColumnsThere, ConstraintStage, RowsStage, TickerStage, InInit, Early, Late
<1> QED BY <1>1, <1>3, <1>4 DEF MigrationInv

(* Each part is kept by every step, given the parts it leans on.           *)
LEMMA TransactionKept ==
  ASSUME UpgradeTypeOK, Transaction, UpgradeNext
  PROVE  Transaction'
<1>d. disk \in Database /\ work \in Database /\ open \in BOOLEAN
  BY DEF UpgradeTypeOK
<1>1. CASE Start \/ ColumnsDone \/ NoImport \/ NoRebuild \/ NoSetting \/ Commit
  BY <1>1, <1>d DEF Transaction, Start, ColumnsDone, NoImport, NoRebuild, NoSetting,
              Commit, Go, Pass, KeysAreUnique
<1>2. CASE BackfillRaises \/ CreateRaises \/ CopyRaises \/ FlagRaises
  BY <1>2 DEF Transaction, BackfillRaises, CreateRaises, CopyRaises, FlagRaises,
              Raise, Go, Pass, KeysAreUnique
<1>3. CASE CreateTables \/ CreateCopy \/ DropAlerts \/ RenameCopy
  <2>1. /\ open' = open /\ disk' = (IF open THEN disk ELSE work')
        /\ \/ pc = "tables" /\ pc' = "columns"
           \/ pc = "create" /\ pc' = "copy"
           \/ pc = "drop" /\ pc' = "rename"
           \/ pc = "rename" /\ pc' = "setting"
    <3>1. CASE CreateTables
      BY <3>1 DEF CreateTables, Define, Go
    <3>2. CASE CreateCopy
      BY <3>2 DEF CreateCopy, Define, Go
    <3>3. CASE DropAlerts
      BY <3>3 DEF DropAlerts, Define, Go
    <3>4. CASE RenameCopy
      BY <3>4 DEF RenameCopy, Define, Go
    <3> QED BY <1>3, <3>1, <3>2, <3>3, <3>4
  <2>2. KeysAreUnique(work')
    BY <1>3, <1>d DEF CreateTables, CreateCopy, DropAlerts, RenameCopy, Define,
         KeysAreUnique, Transaction, Database
  <2>3. KeysAreUnique(disk')
    BY <2>1, <2>2 DEF Transaction, KeysAreUnique
  <2> QED BY <2>1, <2>2, <2>3 DEF Transaction
<1>4. ASSUME NEW c \in Column, AddColumn(c) \/ AddColumnFails(c) PROVE Transaction'
  <2>1. /\ open' = open /\ disk' = (IF open THEN disk ELSE work')
        /\ (work' = work \/ work' = [work EXCEPT !.columns = @ \cup {c}])
        /\ pc = "columns" /\ pc' = pc
    BY <1>4 DEF AddColumn, AddColumnFails, Define, Pass, Transaction
  <2>2. KeysAreUnique(work')
    BY <1>d, <2>1 DEF KeysAreUnique, Transaction, Database
  <2> QED BY <2>1, <2>2 DEF Transaction, KeysAreUnique
<1>5. CASE \/ \E a \in Free : InsertAccount(a)
           \/ ActivateAccount \/ CopyAlerts \/ DeleteSetting \/ SetFlag
  <2>1. /\ open' = TRUE /\ disk' = disk
        /\ work'.alerts = work.alerts /\ work'.unique = work.unique
        /\ pc' \notin {"down", "tables", "columns", "import"}
    BY <1>5, <1>d DEF InsertAccount, ActivateAccount, CopyAlerts, DeleteSetting,
         SetFlag, Change, Go, Database
  <2> QED BY <2>1 DEF Transaction, KeysAreUnique
<1>6. CASE Backfill
  <2>1. /\ open' = TRUE /\ disk' = disk /\ pc' = "create"
        /\ work'.alerts = Owned(work.alerts, owner) /\ work'.unique = work.unique
    BY <1>6, <1>d DEF Backfill, Change, Go, Database
  <2>2. work.alerts \subseteq Row
    BY <1>d DEF Database
  <2>3. ASSUME NEW q \in Owned(work.alerts, owner)
        PROVE  \E r \in work.alerts : r.id = q.id /\ r.key = q.key
    BY <2>2 DEF Owned, Row
  <2>4. KeysAreUnique(work')
    BY <2>1, <2>3 DEF Transaction, KeysAreUnique
  <2> QED BY <2>1, <2>4 DEF Transaction, KeysAreUnique
<1>7. CASE StatementFails \/ AnyWrite \/ Exit
  BY <1>7, <1>d DEF Transaction, StatementFails, AnyWrite, Exit, Save, Pass,
       InInit, Serving, KeysAreUnique
<1>8. ASSUME NEW i \in Id, NEW k \in Key, upsert_alert(i, k) PROVE Transaction'
  <2>1. /\ open' = FALSE /\ disk' = work' /\ pc' = pc /\ pc \in Serving
        /\ work'.alerts = work.alerts \cup {[id |-> i, key |-> k, account |-> work.active]}
        /\ work'.unique = work.unique
        /\ work.unique = "key" => \A r \in work.alerts : r.key # k
    BY <1>8, <1>d DEF upsert_alert, Save, Database
  <2>2. KeysAreUnique(work')
    BY <2>1 DEF Transaction, KeysAreUnique
  <2> QED BY <2>1, <2>2 DEF Transaction, KeysAreUnique, Serving
<1>9. ASSUME NEW a \in Account, create_account(a) \/ delete_account(a) PROVE Transaction'
  <2>1. /\ open' = FALSE /\ disk' = work' /\ pc' = pc /\ pc \in Serving
        /\ work'.alerts = work.alerts /\ work'.unique = work.unique
    <3>1. CASE create_account(a)
      BY <3>1, <1>d DEF create_account, Save, Database
    <3>2. CASE delete_account(a)
      <4>1. PICK b : Save([work EXCEPT !.accounts = @ \ {a}, !.active = b,
                                       !.tickers = @ \ {a}])
        BY <3>2 DEF delete_account
      <4> QED BY <3>2, <4>1, <1>d DEF delete_account, Save, Database
    <3> QED BY <1>9, <3>1, <3>2
  <2> QED BY <2>1 DEF Transaction, KeysAreUnique, Serving
<1> QED BY <1>1, <1>2, <1>3, <1>4, <1>5, <1>6, <1>7, <1>8, <1>9
     DEF UpgradeNext, InitStep

LEMMA ColumnsKept ==
  ASSUME UpgradeTypeOK, Transaction, ColumnsThere, UpgradeNext
  PROVE  ColumnsThere'
<1>d. disk \in Database /\ work \in Database /\ open \in BOOLEAN
  BY DEF UpgradeTypeOK
<1>1. CASE Start \/ ColumnsDone \/ NoImport \/ NoRebuild \/ NoSetting \/ Commit
  BY <1>1, <1>d DEF ColumnsThere, Start, ColumnsDone, NoImport, NoRebuild, NoSetting,
              Commit, Go, Pass, InInit, history
<1>2. CASE BackfillRaises \/ CreateRaises \/ CopyRaises \/ FlagRaises
  BY <1>2 DEF ColumnsThere, BackfillRaises, CreateRaises, CopyRaises, FlagRaises,
              Raise, Go, Pass, InInit, history
<1>3. CASE CreateTables
  BY <1>3, <1>d DEF ColumnsThere, CreateTables, Define, Go, InInit, Database, history
<1>4. CASE CreateCopy \/ DropAlerts \/ RenameCopy
  BY <1>4, <1>d DEF ColumnsThere, CreateCopy, DropAlerts, RenameCopy, Define, Go, InInit,
       Database, history
<1>5. ASSUME NEW c \in Column, AddColumn(c) \/ AddColumnFails(c) PROVE ColumnsThere'
  <2>1. CASE AddColumnFails(c)
    BY <2>1 DEF AddColumnFails, ColumnsThere
  <2>2. CASE AddColumn(c)
    <3>1. /\ pc = "columns" /\ pc' = pc /\ cause' = cause /\ todo' = todo \ {c}
          /\ work'.columns = work.columns \cup {c}
      BY <2>2, <1>d DEF AddColumn, Define, Database, history
    <3> QED BY <3>1 DEF ColumnsThere, InInit
  <2> QED BY <1>5, <2>1, <2>2
<1>6. CASE \/ \E a \in Free : InsertAccount(a)
           \/ ActivateAccount \/ Backfill \/ CopyAlerts \/ DeleteSetting \/ SetFlag
  <2>1. /\ work'.columns = work.columns /\ cause' = cause /\ todo' = todo
        /\ pc \in InInit \ {"tables", "columns"} /\ pc' \notin {"tables", "columns"}
    BY <1>6, <1>d DEF InsertAccount, ActivateAccount, Backfill, CopyAlerts, DeleteSetting,
         SetFlag, Change, Go, Database, InInit, history
  <2> QED BY <2>1 DEF ColumnsThere
<1>7. CASE StatementFails \/ AnyWrite \/ Exit
  BY <1>7 DEF ColumnsThere, StatementFails, AnyWrite, Exit, InInit, Serving
<1>8. ASSUME NEW i \in Id, NEW k \in Key, upsert_alert(i, k) PROVE ColumnsThere'
  BY <1>8 DEF ColumnsThere, upsert_alert, InInit, Serving
<1>9. ASSUME NEW a \in Account, create_account(a) \/ delete_account(a) PROVE ColumnsThere'
  BY <1>9 DEF ColumnsThere, create_account, delete_account, InInit, Serving
<1> QED BY <1>1, <1>2, <1>3, <1>4, <1>5, <1>6, <1>7, <1>8, <1>9
     DEF UpgradeNext, InitStep

(* What the serving program's writes have in common.                       *)
LEMMA Serves ==
  ASSUME UpgradeTypeOK,
         \/ AnyWrite
         \/ \E i \in Id, k \in Key : upsert_alert(i, k)
         \/ \E a \in Account : create_account(a) \/ delete_account(a)
  PROVE  /\ pc \in Serving /\ pc' = pc /\ cause' = cause
         /\ disk' = work' /\ open' = FALSE /\ torn' = (torn \/ open)
         /\ work'.unique = work.unique /\ work'.rebuilding = work.rebuilding
         /\ work'.ticker = work.ticker /\ work.alerts \subseteq work'.alerts
<1>d. work \in Database
  BY DEF UpgradeTypeOK
<1>1. CASE AnyWrite
  BY <1>1 DEF AnyWrite, Save
<1>2. ASSUME NEW i \in Id, NEW k \in Key, upsert_alert(i, k)
      PROVE  work' = [work EXCEPT !.alerts =
                        @ \cup {[id |-> i, key |-> k, account |-> work.active]}]
             /\ pc \in Serving /\ pc' = pc /\ cause' = cause
             /\ disk' = work' /\ open' = FALSE /\ torn' = (torn \/ open)
  BY <1>2 DEF upsert_alert, Save
<1>3. ASSUME NEW a \in Account, create_account(a) \/ delete_account(a)
      PROVE  \E A, b, T : work' = [work EXCEPT !.accounts = A, !.active = b, !.tickers = T]
             /\ pc \in Serving /\ pc' = pc /\ cause' = cause
             /\ disk' = work' /\ open' = FALSE /\ torn' = (torn \/ open)
  <2>1. CASE create_account(a)
    <3>1. /\ work' = [work EXCEPT !.accounts = @ \cup {a},
                                  !.active = IF @ = NoAccount THEN a ELSE @]
          /\ pc \in Serving /\ pc' = pc /\ cause' = cause
          /\ disk' = work' /\ open' = FALSE /\ torn' = (torn \/ open)
      BY <2>1 DEF create_account, Save
    <3>2. work' = [work EXCEPT !.accounts = work'.accounts, !.active = work'.active,
                               !.tickers = work'.tickers]
      BY <3>1, <1>d DEF Database
    <3> WITNESS work'.accounts, work'.active, work'.tickers
    <3> QED BY <3>1, <3>2
  <2>2. CASE delete_account(a)
    <3>1. PICK b : Save([work EXCEPT !.accounts = @ \ {a}, !.active = b,
                                     !.tickers = @ \ {a}])
      BY <2>2 DEF delete_account
    <3>2. /\ work' = [work EXCEPT !.accounts = @ \ {a}, !.active = b,
                                  !.tickers = @ \ {a}]
          /\ pc \in Serving /\ pc' = pc /\ cause' = cause
          /\ disk' = work' /\ open' = FALSE /\ torn' = (torn \/ open)
      BY <2>2, <3>1 DEF delete_account, Save
    <3>3. work' = [work EXCEPT !.accounts = work'.accounts, !.active = work'.active,
                               !.tickers = work'.tickers]
      BY <3>2, <1>d DEF Database
    <3> QED BY <3>2, <3>3
  <2> QED BY <1>3, <2>1, <2>2
<1>4. CASE \E i \in Id, k \in Key : upsert_alert(i, k)
  <2>1. PICK i \in Id, k \in Key : upsert_alert(i, k)
    BY <1>4
  <2>2. work' = [work EXCEPT !.alerts =
                   @ \cup {[id |-> i, key |-> k, account |-> work.active]}]
    BY <1>2, <2>1
  <2>3. /\ work'.unique = work.unique /\ work'.rebuilding = work.rebuilding
        /\ work'.ticker = work.ticker /\ work.alerts \subseteq work'.alerts
    BY <2>2, <1>d DEF Database
  <2> QED BY <1>2, <2>1, <2>3
<1>5. CASE \E a \in Account : create_account(a) \/ delete_account(a)
  BY <1>3, <1>5, <1>d DEF Database
<1> QED BY <1>1, <1>4, <1>5

LEMMA ConstraintKept ==
  ASSUME UpgradeTypeOK, Transaction, ColumnsThere, ConstraintStage, UpgradeNext
  PROVE  ConstraintStage'
<1>d. disk \in Database /\ work \in Database /\ open \in BOOLEAN
  BY DEF UpgradeTypeOK
<1>1. CASE Start \/ ColumnsDone \/ NoImport \/ NoRebuild \/ NoSetting \/ Commit
  BY <1>1, <1>d DEF ConstraintStage, Transaction, Start, ColumnsDone, NoImport, NoRebuild,
       NoSetting, Commit, Go, Pass, Early, Blocked, history
<1>2. CASE BackfillRaises \/ CreateRaises \/ CopyRaises \/ FlagRaises
  <2>1. /\ pc' = "limping" /\ UNCHANGED <<disk, work, cause>>
        /\ pc \in {"backfill", "create", "copy", "flag"}
        /\ \/ ~ (Column \subseteq work.columns)
           \/ pc = "create" /\ Blocked(work)
    BY <1>2 DEF BackfillRaises, CreateRaises, CopyRaises, FlagRaises, Raise, Go, Pass,
         history, Blocked, Column
  <2>2. cause \/ (Blocked(disk) /\ Blocked(work))
    BY <2>1 DEF ConstraintStage, ColumnsThere, Blocked, Early, InInit
  <2> QED BY <2>1, <2>2 DEF ConstraintStage, Blocked, Early
<1>3. CASE CreateTables
  BY <1>3, <1>d DEF ConstraintStage, Transaction, CreateTables, Define, Go, Early, Database
<1>4. CASE CreateCopy \/ DropAlerts \/ RenameCopy
  BY <1>4, <1>d DEF ConstraintStage, CreateCopy, DropAlerts, RenameCopy, Define, Go, Early,
       Database
<1>5. ASSUME NEW c \in Column, AddColumn(c) \/ AddColumnFails(c) PROVE ConstraintStage'
  <2>1. /\ pc = "columns" /\ pc' = pc
        /\ work'.unique = work.unique /\ work'.rebuilding = work.rebuilding
        /\ disk'.unique = disk.unique /\ disk'.rebuilding = disk.rebuilding
    BY <1>5, <1>d DEF AddColumn, AddColumnFails, Define, Pass, Transaction, Database
  <2> QED BY <2>1 DEF ConstraintStage, Early
<1>6. CASE \/ \E a \in Free : InsertAccount(a)
           \/ ActivateAccount \/ Backfill \/ CopyAlerts \/ DeleteSetting \/ SetFlag
  <2>1. /\ work'.unique = work.unique /\ work'.rebuilding = work.rebuilding
        /\ disk' = disk /\ pc' \notin {"copy", "limping"}
        /\ pc' \in Early => pc \in Early
    BY <1>6, <1>d DEF InsertAccount, ActivateAccount, Backfill, CopyAlerts, DeleteSetting,
         SetFlag, Change, Go, Database, Early
  <2> QED BY <2>1 DEF ConstraintStage
<1>7. CASE StatementFails \/ Exit
  BY <1>7 DEF ConstraintStage, StatementFails, Exit, Early
<1>8. CASE \/ AnyWrite
           \/ \E i \in Id, k \in Key : upsert_alert(i, k)
           \/ \E a \in Account : create_account(a) \/ delete_account(a)
  BY <1>8, Serves DEF ConstraintStage, Blocked, Early, Serving
<1> QED BY <1>1, <1>2, <1>3, <1>4, <1>5, <1>6, <1>7, <1>8
     DEF UpgradeNext, InitStep

LEMMA TickerKept ==
  ASSUME UpgradeTypeOK, Transaction, TickerStage, UpgradeNext
  PROVE  TickerStage'
<1>d. disk \in Database /\ work \in Database /\ open \in BOOLEAN
  BY DEF UpgradeTypeOK
<1>1. CASE Start \/ ColumnsDone \/ NoImport \/ NoRebuild \/ NoSetting \/ Commit
  BY <1>1 DEF TickerStage, Transaction, Start, ColumnsDone, NoImport, NoRebuild,
       NoSetting, Commit, Go, Pass, InInit, Flagged
<1>2. CASE BackfillRaises \/ CreateRaises \/ CopyRaises \/ FlagRaises \/ StatementFails \/ Exit
  BY <1>2 DEF TickerStage, BackfillRaises, CreateRaises, CopyRaises, FlagRaises, Raise, Go,
       InInit, StatementFails, Exit
<1>3. CASE CreateTables \/ CreateCopy \/ DropAlerts \/ RenameCopy
  <2>1. /\ pc \in InInit \ {"flag", "commit"} /\ pc' \notin {"flag", "commit"}
        /\ work'.ticker = work.ticker /\ (disk' = disk \/ disk' = work')
    BY <1>3, <1>d DEF CreateTables, CreateCopy, DropAlerts, RenameCopy, Define, Go, InInit,
         Database
  <2> QED BY <2>1 DEF TickerStage
<1>4. ASSUME NEW c \in Column, AddColumn(c) \/ AddColumnFails(c) PROVE TickerStage'
  <2>1. /\ pc = "columns" /\ pc' = pc
        /\ work'.ticker = work.ticker /\ (disk' = disk \/ disk' = work')
    BY <1>4, <1>d DEF AddColumn, AddColumnFails, Define, Pass, Database
  <2> QED BY <2>1 DEF TickerStage, InInit
<1>5. CASE \/ \E a \in Free : InsertAccount(a)
           \/ ActivateAccount \/ Backfill \/ CopyAlerts
  <2>1. /\ pc \in InInit \ {"flag", "commit"} /\ pc' \notin {"flag", "commit"}
        /\ work'.ticker = work.ticker /\ disk' = disk
    BY <1>5, <1>d DEF InsertAccount, ActivateAccount, Backfill, CopyAlerts, Change, Go,
         Database, InInit
  <2> QED BY <2>1 DEF TickerStage
<1>6. CASE DeleteSetting
  <2>1. /\ pc = "setting" /\ disk' = disk /\ pc' \in {"flag", "commit"}
        /\ pc' = "commit" => work.ticker # "1"
    BY <1>6 DEF DeleteSetting, Change
  <2> QED BY <2>1 DEF TickerStage, InInit
<1>7. CASE SetFlag
  <2>1. /\ pc' = "commit" /\ work'.active = work.active /\ work'.accounts = work.accounts
        /\ work'.tickers = IF work.active = NoAccount THEN work.accounts
                           ELSE work.tickers \cup ({work.active} \cap work.accounts)
    BY <1>7, <1>d DEF SetFlag, Change, Go, Database
  <2>2. Flagged(work)'
    BY <2>1 DEF Flagged
  <2> QED BY <2>1, <2>2 DEF TickerStage
<1>8. CASE \/ AnyWrite
           \/ \E i \in Id, k \in Key : upsert_alert(i, k)
           \/ \E a \in Account : create_account(a) \/ delete_account(a)
  BY <1>8, Serves DEF TickerStage, InInit, Serving
<1> QED BY <1>1, <1>2, <1>3, <1>4, <1>5, <1>6, <1>7, <1>8
     DEF UpgradeNext, InitStep

LEMMA RowsKept ==
  ASSUME UpgradeTypeOK, Transaction, ConstraintStage, RowsStage, UpgradeNext
  PROVE  RowsStage'
<1> USE MigrationAssumption DEF MigrationAssumption
<1>d. disk \in Database /\ work \in Database /\ open \in BOOLEAN
  BY DEF UpgradeTypeOK
<1>1. CASE Start \/ ColumnsDone \/ NoImport \/ NoRebuild \/ NoSetting \/ Commit
  BY <1>1 DEF RowsStage, Rows, Ids, Transaction, Start, ColumnsDone, NoImport, NoRebuild,
       NoSetting, Commit, Go, Pass, InInit, Late
<1>2. CASE BackfillRaises \/ CreateRaises \/ CopyRaises \/ FlagRaises \/ StatementFails \/ Exit
  BY <1>2 DEF RowsStage, BackfillRaises, CreateRaises, CopyRaises, FlagRaises, Raise, Go,
       InInit, Late, StatementFails, Exit
<1>3. CASE CreateTables \/ CreateCopy \/ DropAlerts \/ RenameCopy
  <2>1. /\ Rows' = Rows /\ work'.accounts = work.accounts
        /\ pc \in InInit /\ pc' \notin {"activate", "backfill"}
        /\ pc' \in Late \cup {"create"} => pc \in Late \cup {"create"}
        /\ \/ disk' = disk
           \/ ~ open /\ disk' = work' /\ pc' \in {"columns", "copy"} /\ work'.alerts = work.alerts
    <3>1. CASE CreateTables
      BY <3>1, <1>d DEF CreateTables, Define, Go, InInit, Late, Database, Rows
    <3>2. CASE CreateCopy
      BY <3>2, <1>d DEF CreateCopy, Define, Go, InInit, Late, Database, Rows
    <3>3. CASE DropAlerts
      BY <3>3, <1>d DEF DropAlerts, Define, Go, InInit, Late, Database, Rows, Transaction
    <3>4. CASE RenameCopy
      BY <3>4, <1>d DEF RenameCopy, Define, Go, InInit, Late, Database, Rows, Transaction
    <3> QED BY <1>3, <3>1, <3>2, <3>3, <3>4
  <2>2. CASE disk' = disk
    BY <2>1, <2>2 DEF RowsStage, Ids
  <2>3. CASE disk' # disk
    BY <2>1, <2>3 DEF RowsStage, Ids, Rows
  <2> QED BY <2>2, <2>3
<1>4. ASSUME NEW c \in Column, AddColumn(c) \/ AddColumnFails(c) PROVE RowsStage'
  <2>1. /\ pc = "columns" /\ pc' = pc
        /\ work'.alerts = work.alerts /\ (disk' = disk \/ disk' = work')
    BY <1>4, <1>d DEF AddColumn, AddColumnFails, Define, Pass, Database
  <2> QED BY <2>1 DEF RowsStage, InInit, Ids, Rows, Late
<1>5. CASE \/ \E a \in Free : InsertAccount(a)
           \/ ActivateAccount
  <2>1. /\ pc \in InInit /\ disk' = disk /\ pc' \in {"activate", "backfill"}
        /\ work'.alerts = work.alerts /\ pc \notin {"drop", "rename"}
        /\ owner' # NoAccount
    BY <1>5, <1>d DEF InsertAccount, ActivateAccount, Change, Go, Database, InInit, Free, RowsStage
  <2> QED BY <2>1 DEF RowsStage, InInit, Rows, Ids, Late
<1>6. CASE Backfill
  <2>1. /\ pc = "backfill" /\ pc' = "create" /\ disk' = disk /\ owner # NoAccount
        /\ work'.alerts = Owned(work.alerts, owner)
    BY <1>6, <1>d DEF Backfill, Change, Go, Database, RowsStage
  <2>2. work.alerts \subseteq Row
    BY <1>d DEF Database
  <2>3. ASSUME NEW r \in work.alerts
        PROVE  \E q \in Owned(work.alerts, owner) : q.id = r.id
    <3>1. [r EXCEPT !.account = IF @ = NoAccount THEN owner ELSE @].id = r.id
      BY <2>2 DEF Row
    <3> QED BY <3>1 DEF Owned
  <2>4. \A q \in Owned(work.alerts, owner) : q.account # NoAccount
    BY <2>1, <2>2 DEF Owned, Row
  <2>5. Rows = work.alerts /\ Rows' = Owned(work.alerts, owner)
    BY <2>1 DEF Rows
  <2>6. Ids(disk)' \subseteq {r.id : r \in Rows'}
    BY <2>1, <2>3, <2>5 DEF RowsStage, InInit, Ids
  <2> QED BY <2>1, <2>4, <2>5, <2>6 DEF RowsStage
<1>7. CASE CopyAlerts
  <2>1. /\ pc = "copy" /\ pc' = "drop" /\ disk' = disk /\ work'.accounts = work.accounts
        /\ work'.alerts_new = Newest(work.alerts)
    BY <1>7, <1>d DEF CopyAlerts, Change, Go, Database
  <2>2. ASSUME NEW r \in work.alerts, NEW s \in work.alerts, s.key = r.key
        PROVE  s.id <= r.id
    <3>1. s.id = r.id /\ r.id \in Int
      BY <2>1, <2>2, <1>d DEF Transaction, KeysAreUnique, ConstraintStage, Database, Row
    <3> QED BY <3>1
  <2>3. Newest(work.alerts) = work.alerts
    BY <2>2 DEF Newest
  <2> QED BY <2>1, <2>3 DEF RowsStage, Rows, Ids, InInit, Late
<1>8. CASE DeleteSetting \/ SetFlag
  <2>1. /\ pc \in {"setting", "flag"} /\ pc' \in {"flag", "commit"} /\ disk' = disk
        /\ work'.alerts = work.alerts /\ work'.accounts = work.accounts
    BY <1>8, <1>d DEF DeleteSetting, SetFlag, Change, Go, Database
  <2> QED BY <2>1 DEF RowsStage, Rows, Ids, InInit, Late
<1>9. CASE \/ AnyWrite
           \/ \E i \in Id, k \in Key : upsert_alert(i, k)
           \/ \E a \in Account : create_account(a) \/ delete_account(a)
  BY <1>9, Serves DEF RowsStage, InInit, Serving, Late
<1> QED BY <1>1, <1>2, <1>3, <1>4, <1>5, <1>6, <1>7, <1>8, <1>9
     DEF UpgradeNext, InitStep

(* All parts together.                                                     *)
LEMMA UpgradeKept ==
  ASSUME MigrationInv, [UpgradeNext]_upgradeVars PROVE MigrationInv'
<1>1. CASE UNCHANGED upgradeVars
  BY <1>1 DEF upgradeVars, MigrationInv, UpgradeTypeOK, Transaction, ColumnsThere,
       ConstraintStage, RowsStage, TickerStage, KeysAreUnique, Blocked, Rows, Ids, Flagged
<1>2. CASE UpgradeNext
  BY <1>2, TypeKept, TransactionKept, ColumnsKept, ConstraintKept, RowsKept, TickerKept
     DEF MigrationInv
<1> QED BY <1>1, <1>2

(* Every variable of an upgrade keeps its type.                            *)
THEOREM UpgradeTypes == UpgradeSpec => []UpgradeTypeOK
<1>1. ASSUME MigrationInv, [UpgradeNext]_upgradeVars PROVE MigrationInv'
  BY <1>1, UpgradeKept
<1>2. MigrationInv => UpgradeTypeOK
  BY DEF MigrationInv
<1> QED BY UpgradeStarts, <1>1, <1>2, PTL DEF UpgradeSpec

(* Storage.init raises only after a failing statement of its own process,  *)
(* or on the alerts_new that an earlier init left.                         *)
THEOREM InitLimpsForCause == UpgradeSpec => []LimpsForCause
<1>1. ASSUME MigrationInv, [UpgradeNext]_upgradeVars PROVE MigrationInv'
  BY <1>1, UpgradeKept
<1>2. MigrationInv => LimpsForCause
  BY DEF MigrationInv, ConstraintStage, Blocked, LimpsForCause
<1> QED BY UpgradeStarts, <1>1, <1>2, PTL DEF UpgradeSpec

(* What a step does to the file: nothing; one statement outside of a       *)
(* transaction; init's commit; or a commit of the serving program.         *)
LEMMA WholeStep ==
  ASSUME MigrationInv, UpgradeNext
  PROVE  \/ torn'
         \/ /\ Ids(disk) \subseteq Ids(disk')
            /\ pc = "commit" /\ disk.accounts = {} /\ disk'.accounts # {}
                 => \A r \in disk'.alerts : r.account # NoAccount
            /\ disk.ticker = "1" /\ disk'.ticker = "absent" => Flagged(disk')
<1>d. disk \in Database /\ work \in Database /\ open \in BOOLEAN
  BY DEF MigrationInv, UpgradeTypeOK
<1>1. CASE disk' = disk
  BY <1>1
<1>2. CASE \/ CreateTables \/ CreateCopy \/ DropAlerts \/ RenameCopy
           \/ \E c \in Column : AddColumn(c)
  <2>1. \/ disk' = disk
        \/ pc # "commit" /\ disk'.alerts = disk.alerts /\ disk'.ticker = disk.ticker
    <3>0. ~ open => work = disk
      BY DEF MigrationInv, Transaction
    <3>1. CASE CreateTables \/ CreateCopy
      <4>1. /\ pc # "commit" /\ disk' = (IF open THEN disk ELSE work')
            /\ work'.alerts = work.alerts /\ work'.ticker = work.ticker
        BY <3>1, <1>d DEF CreateTables, CreateCopy, Define, Go, Database
      <4> QED BY <3>0, <4>1
    <3>2. CASE DropAlerts \/ RenameCopy
      BY <3>2 DEF DropAlerts, RenameCopy, Define, Go, MigrationInv, Transaction
    <3>3. ASSUME NEW c \in Column, AddColumn(c)
          PROVE  \/ disk' = disk
                 \/ pc # "commit" /\ disk'.alerts = disk.alerts /\ disk'.ticker = disk.ticker
      BY <3>3, <1>d DEF AddColumn, Define, Database, MigrationInv, Transaction
    <3> QED BY <1>2, <3>1, <3>2, <3>3
  <2> QED BY <1>1, <2>1 DEF Ids
<1>3. CASE Commit
  <2>1. pc = "commit" /\ disk' = work
    BY <1>3 DEF Commit, Go
  <2> QED BY <2>1 DEF MigrationInv, RowsStage, TickerStage, Rows, Ids, InInit, Late
<1>4. CASE \/ AnyWrite
           \/ \E i \in Id, k \in Key : upsert_alert(i, k)
           \/ \E a \in Account : create_account(a) \/ delete_account(a)
  <2>1. torn' \/ ~ open
    BY <1>4, <1>d, Serves DEF MigrationInv
  <2>2. ~ open => work = disk
    BY DEF MigrationInv, Transaction
  <2> QED BY <1>4, <2>1, <2>2, Serves DEF MigrationInv, Ids, Serving
<1>5. CASE \/ Start \/ ColumnsDone \/ NoImport \/ NoRebuild \/ NoSetting
           \/ BackfillRaises \/ CreateRaises \/ CopyRaises \/ FlagRaises
           \/ StatementFails \/ Exit
           \/ \E c \in Column : AddColumnFails(c)
  <2>1. disk' = disk
    BY <1>5 DEF Start, ColumnsDone, NoImport, NoRebuild, NoSetting, BackfillRaises,
         CreateRaises, CopyRaises, FlagRaises, Raise, Pass, StatementFails, Exit,
         AddColumnFails
  <2> QED BY <1>1, <2>1
<1>6. CASE \/ \E a \in Free : InsertAccount(a)
           \/ ActivateAccount \/ Backfill \/ CopyAlerts \/ DeleteSetting \/ SetFlag
  <2>1. disk' = disk
    BY <1>6 DEF InsertAccount, ActivateAccount, Backfill, CopyAlerts, DeleteSetting, SetFlag,
         Change
  <2> QED BY <1>1, <2>1
<1> QED BY <1>2, <1>3, <1>4, <1>5, <1>6 DEF UpgradeNext, InitStep

(* Wherever an upgrade is cut, the file keeps every alert; the import's    *)
(* account comes together with all its rows, and the ticker's flag with    *)
(* the end of its setting, unless a failed init was committed by halves.   *)
THEOREM UpgradesAreWhole == UpgradeSpec => UpgradeIsWhole
<1>1. ASSUME MigrationInv, [UpgradeNext]_upgradeVars PROVE MigrationInv'
  BY <1>1, UpgradeKept
<1> DEFINE Whole ==
      torn' \/
      /\ Ids(disk) \subseteq Ids(disk')
      /\ pc = "commit" /\ disk.accounts = {} /\ disk'.accounts # {}
           => \A r \in disk'.alerts : r.account # NoAccount
      /\ disk.ticker = "1" /\ disk'.ticker = "absent"
           => IF disk'.active = NoAccount THEN disk'.tickers = disk'.accounts
              ELSE disk'.active \in disk'.accounts => disk'.active \in disk'.tickers
<1>2. MigrationInv /\ [UpgradeNext]_upgradeVars => [Whole]_upgradeVars
  BY WholeStep DEF Flagged
<1> QED BY UpgradeStarts, <1>1, <1>2, PTL DEF UpgradeSpec, UpgradeIsWhole

=============================================================================
