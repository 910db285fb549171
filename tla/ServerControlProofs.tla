------------------------- MODULE ServerControlProofs -------------------------
(* Theorems about ServerControl, for any requests, services and features.  *)
EXTENDS ServerControl, TLAPS

USE OvhClientAssumption, ServerControlAssumption

-----------------------------------------------------------------------------
(* How a handler begins.                                                   *)

(* A call of an operation, perhaps with a reboot to follow, or a probe.    *)
FirstJob(first) ==
  /\ first \in Job
  /\ \/ /\ first.pc = "call" /\ first.op.verb # "GET"
        /\ first.reboot = TRUE => first.op = Put("bootId")
     \/ /\ first.pc = "probe" /\ first.op = Get /\ first.reboot = FALSE
        /\ first.todo = Feature \ {first.feature} /\ first.caps = NoCaps

(* The stored capabilities are answered without a call.                    *)
FromCache(r) ==
  /\ job[r].pc = "idle" /\ registry # NoOne /\ cache.age = "fresh"
  /\ Ends(r, "caps")
  /\ UNCHANGED <<clientVars, ovh, cache, hist, faults>>

LEMMA Constants ==
  /\ Idle \in Job /\ NoCall \in Call /\ NoCaps \in Caps /\ Get \in Op
  /\ \A x \in Resource : Put(x) \in Op
  /\ \A x \in Part : Delete(x) \in Op /\ Use(x) \in Op
  /\ \A X \in SUBSET Resource : Post(X) \in Op
<1>1. /\ Get \in Op
      /\ \A x \in Resource : Put(x) \in Op
      /\ \A x \in Part : Delete(x) \in Op /\ Use(x) \in Op
      /\ \A X \in SUBSET Resource : Post(X) \in Op
  BY DEF Op, Verb, Get, Put, Delete, Use, Post
<1>2. NoCaps \in Caps
  BY DEF NoCaps, Caps, Answer
<1>3. NoCall \in Call
  BY DEF NoCall, Call, Status
<1>4. Idle \in Job
  BY <1>1, <1>2 DEF Idle, Job
<1> QED BY <1>1, <1>2, <1>3, <1>4

LEMMA BeginsWith ==
  ASSUME NEW op \in Op, op.verb # "GET", NEW reboot \in BOOLEAN,
         reboot = TRUE => op = Put("bootId")
  PROVE  /\ FirstJob([Idle EXCEPT !.pc = "call", !.op = op, !.reboot = reboot])
         /\ FirstJob([Idle EXCEPT !.pc = "call", !.op = op])
BY Constants DEF FirstJob, Job, Idle

LEMMA BeginsCall ==
  ASSUME NEW op \in Op, op.verb # "GET", NEW r, Does(r, op)
  PROVE  \E first : FirstJob(first) /\ Takes(r, first)
BY BeginsWith DEF Does

(* Every handler of servers.py rejects its body, answers from the cache or *)
(* takes the service and makes a first call.                               *)
LEMMA HandleCases ==
  ASSUME NEW r \in Request, Handle(r)
  PROVE  Rejects(r) \/ FromCache(r) \/ \E first : FirstJob(first) /\ Takes(r, first)
<1> DEFINE Begins == \E first : FirstJob(first) /\ Takes(r, first)
<1>1. ASSUME set_boot(r) PROVE Begins
  <2>1. PICK reboot \in BOOLEAN :
          Takes(r, [Idle EXCEPT !.pc = "call", !.op = Put("bootId"), !.reboot = reboot])
    BY <1>1 DEF set_boot
  <2>2. Put("bootId") \in Op /\ Put("bootId").verb # "GET"
    BY Constants DEF Put, Resource
  <2> QED BY <2>1, <2>2, BeginsWith
<1>2. /\ Task \in Op /\ Task.verb # "GET"
      /\ \A X \in SUBSET Resource : Post(X) \in Op /\ Post(X).verb # "GET"
      /\ \A x \in Part : Delete(x) \in Op /\ Use(x) \in Op
      /\ \A x \in Part : Delete(x).verb # "GET" /\ Use(x).verb # "GET"
      /\ Put("field") \in Op /\ Put("field").verb # "GET"
      /\ {"part", "token"} = Part /\ {"power"} \subseteq Resource
      /\ {"os"} \subseteq Resource /\ Part \subseteq Resource
  BY Constants DEF Task, Post, Put, Delete, Use, Part, Resource
<1>3. \A op \in Op : op.verb # "GET" /\ Does(r, op) => Begins
  BY BeginsCall
<1>4. ASSUME get_capabilities(r) PROVE FromCache(r) \/ Begins
  <2>1. CASE \E f \in Feature : Takes(r, Probing(Feature, f, NoCaps))
    <3>1. PICK f \in Feature : Takes(r, Probing(Feature, f, NoCaps))
      BY <2>1
    <3>2. FirstJob(Probing(Feature, f, NoCaps))
      BY Constants DEF FirstJob, Probing, Job, Idle
    <3> QED BY <3>1, <3>2
  <2> QED BY <1>4, <2>1 DEF get_capabilities, FromCache
<1>5. ASSUME \/ reboot_server(r) \/ reinstall_server(r) \/ create_virtual_mac(r)
             \/ add_virtual_mac_address(r) \/ add_secondary_dns(r) \/ add_spla(r)
             \/ terminate_server(r)
      PROVE  Begins
  <2>1. \E X \in SUBSET Resource : Does(r, Post(X))
    BY <1>5, <1>2 DEF reboot_server, reinstall_server, create_virtual_mac,
        add_virtual_mac_address, add_secondary_dns, add_spla, terminate_server
  <2> QED BY <2>1, <1>2, <1>3
<1>6. ASSUME \/ remove_virtual_mac_address(r) \/ remove_secondary_dns(r)
             \/ release_option(r) \/ remove_from_vrack(r)
             \/ revoke_spla(r) \/ confirm_termination(r)
      PROVE  Begins
  <2>1. \E x \in Part : Does(r, Delete(x)) \/ Does(r, Use(x))
    BY <1>6, <1>2 DEF remove_virtual_mac_address, remove_secondary_dns,
        release_option, remove_from_vrack, revoke_spla, confirm_termination
  <2> QED BY <2>1, <1>2, <1>3
<1>7. ASSUME \/ cancel_task(r) \/ schedule_task(r) \/ create_ipmi_access(r)
             \/ ipmi_action(r) \/ ola_action(r) \/ vni_action(r) \/ move_ip(r)
             \/ merge_ip_block(r) \/ request_hardware_replacement(r)
             \/ set_properties(r) \/ update_vni(r) \/ update_service_infos(r)
      PROVE  Rejects(r) \/ Begins
  <2>1. Rejects(r) \/ Does(r, Task) \/ Does(r, Put("field"))
    BY <1>7 DEF cancel_task, schedule_task, create_ipmi_access, ipmi_action, ola_action,
        vni_action, move_ip, merge_ip_block, request_hardware_replacement,
        set_properties, update_vni, update_service_infos
  <2> QED BY <2>1, <1>2, <1>3
<1> QED BY <1>1, <1>4, <1>5, <1>6, <1>7 DEF Handle

-----------------------------------------------------------------------------
(* Types.                                                                  *)

LEMMA InitType == Init => TypeOK
BY Constants, SMT DEF Init, ClientInit, TypeOK, ClientTypeOK, Resource, Part

LEMMA CallType ==
  ASSUME TypeOK, NEW r \in Request, NEW verb, NEW status \in Status,
         _call(r, verb, status)
  PROVE  ClientTypeOK'
<1>0. call \in [Request -> Call] /\ call[r] \in Call
  BY DEF TypeOK, ClientTypeOK
<1>1. /\ [call[r] EXCEPT !.again = TRUE] \in Call
      /\ [call[r] EXCEPT !.pc = "back", !.status = status] \in Call
  BY <1>0 DEF Call
<1>2. \/ call' = [call EXCEPT ![r] = [call[r] EXCEPT !.again = TRUE]]
      \/ call' = [call EXCEPT ![r] = [call[r] EXCEPT !.pc = "back", !.status = status]]
  BY DEF _call, TypeOK, ClientTypeOK
<1>3. call' \in [Request -> Call]
  BY <1>0, <1>1, <1>2
<1>4. /\ registry' = registry
      /\ drifted' = drifted \/ drifted' = drifted \ {call[r].client}
      /\ lock' = lock \/ lock' = [lock EXCEPT ![call[r].client] = NoOne]
  BY DEF _call
<1> QED BY <1>3, <1>4 DEF TypeOK, ClientTypeOK

LEMMA EndsType ==
  ASSUME TypeOK, NEW r \in Request, NEW what, Ends(r, what),
         what \in {"ok", "refused", "failed", "bootOnly", "invalid", "unconfigured", "caps"}
  PROVE  /\ job' \in [Request -> Job]
         /\ answer' \in [Request -> {"none", "ok", "refused", "failed", "bootOnly",
                                     "invalid", "unconfigured", "caps"}]
BY Constants DEF TypeOK, Ends, Job, Idle

LEMMA CallsType ==
  ASSUME TypeOK, NEW r \in Request, NEW c \in Client \cup {NoOne}
  PROVE  /\ Calls(r, c) => call' \in [Request -> Call]
         /\ call' = [call EXCEPT ![r] = [NoCall EXCEPT !.client = c]]
              => call' \in [Request -> Call]
<1>1. /\ [NoCall EXCEPT !.pc = "wait", !.client = c] \in Call
      /\ [NoCall EXCEPT !.client = c] \in Call
  BY Constants DEF NoCall, Call
<1> QED BY <1>1 DEF TypeOK, ClientTypeOK, Calls

LEMMA HistType ==
  ASSUME TypeOK, NEW r \in Request, NEW status, CarriesOut(r, status)
  PROVE  hist' \in [times : [Request -> Nat], posted : [Request -> Nat],
               hid : SUBSET Request,
               booted : [Request -> Request \cup {NoOne}],
               met : SUBSET (Request \X Request),
               undid : SUBSET (Request \X Request),
               vague : SUBSET (Feature \cup {"detail"}),
               barred : SUBSET Feature]
<1> DEFINE op   == job[r].op
           over == {last[x] : x \in Changed(op)} \ {r, NoOne}
           repeats == {<<r, q>> : q \in over}
<1>1. op \in Op /\ Changed(op) \subseteq Resource
  BY DEF TypeOK, Job, Op, Changed, Resource, Part
<1>2. over \subseteq Request
  BY <1>1 DEF TypeOK
<1>3. repeats \subseteq Request \X Request
  BY <1>2
<1>4. last["bootId"] \in Request \cup {NoOne}
  BY DEF TypeOK, Resource
<1>5. hist' = [hist EXCEPT
       !.times[r] = @ + 1,
       !.posted[r] = IF op.verb = "POST" THEN @ + 1 ELSE @,
       !.booted[r] = IF "power" \in op.sets THEN last["bootId"] ELSE @,
       !.hid = IF status = "ok" THEN @ ELSE @ \cup {r},
       !.undid = IF hist.times[r] > 0 /\ op.verb # "POST"
                   THEN @ \cup repeats ELSE @]
  BY Zenon DEF CarriesOut
<1> HIDE DEF op, over, repeats
<1> DEFINE t == [hist.times EXCEPT ![r] = @ + 1]
           p == [hist.posted EXCEPT ![r] = IF op.verb = "POST" THEN @ + 1 ELSE @]
           b == [hist.booted EXCEPT ![r] = IF "power" \in op.sets THEN last["bootId"] ELSE @]
           h == IF status = "ok" THEN hist.hid ELSE hist.hid \cup {r}
           u == IF hist.times[r] > 0 /\ op.verb # "POST"
                  THEN hist.undid \cup repeats ELSE hist.undid
<1>6. hist' = [hist EXCEPT !.times = t, !.posted = p, !.booted = b, !.hid = h, !.undid = u]
  BY <1>5 DEF TypeOK
<1>7. t \in [Request -> Nat] /\ p \in [Request -> Nat]
  BY DEF TypeOK
<1>8. b \in [Request -> Request \cup {NoOne}]
  BY <1>4 DEF TypeOK
<1>9. h \in SUBSET Request /\ u \in SUBSET (Request \X Request)
  BY <1>3 DEF TypeOK
<1> HIDE DEF t, p, b, h, u
<1> QED BY <1>6, <1>7, <1>8, <1>9 DEF TypeOK

(* The steps of a request, from the time it takes its service.             *)
LEMMA TakesType ==
  ASSUME TypeOK, NEW r \in Request, NEW first, FirstJob(first), Takes(r, first)
  PROVE  TypeOK'
<1>1. CASE registry = NoOne
  <2>1. Ends(r, "unconfigured") /\ UNCHANGED <<call, hist>>
    BY <1>1 DEF Takes
  <2> QED BY <2>1, EndsType DEF Takes, Fine, ovh, TypeOK, ClientTypeOK
<1>2. CASE registry # NoOne
  <2>1. job' = [job EXCEPT ![r] = first] /\ Calls(r, registry) /\ UNCHANGED answer
    BY <1>2 DEF Takes
  <2>2. hist' = Meet(r)
    BY <1>2 DEF Takes
  <2>3. call' \in [Request -> Call]
    BY <2>1, CallsType DEF TypeOK, ClientTypeOK
  <2>4. job' \in [Request -> Job]
    BY <2>1 DEF TypeOK, FirstJob
  <2>5. hist' \in [times : [Request -> Nat], posted : [Request -> Nat],
               hid : SUBSET Request,
               booted : [Request -> Request \cup {NoOne}],
               met : SUBSET (Request \X Request),
               undid : SUBSET (Request \X Request),
               vague : SUBSET (Feature \cup {"detail"}),
               barred : SUBSET Feature]
    <3> DEFINE m == hist.met \cup {<<r, q>> : q \in {p \in Request : Active(p)}}
                             \cup {<<q, r>> : q \in {p \in Request : Active(p)}}
    <3>1. hist' = [hist EXCEPT !.met = m]
      BY <2>2, Zenon DEF Meet
    <3>2. m \subseteq Request \X Request
      BY DEF TypeOK
    <3> HIDE DEF m
    <3> QED BY <3>1, <3>2 DEF TypeOK
  <2> QED BY <2>1, <2>3, <2>4, <2>5 DEF Takes, Fine, ovh, TypeOK, ClientTypeOK
<1> QED BY <1>1, <1>2

LEMMA OvhType ==
  ASSUME TypeOK, NEW r \in Request, OvhActs(r) \/ OvhRefuses(r) \/ OvhAnswers(r)
  PROVE  TypeOK'
<1>0. faults' \in 0 .. MaxFaults
  BY DEF OvhActs, OvhRefuses, OvhAnswers, Fine, Fault, TypeOK
<1>1. CASE OvhActs(r)
  <2>1. PICK s \in {"ok", "5xx", "lost"} :
          CarriesOut(r, s) /\ _call(r, job[r].op.verb, s)
    BY <1>1 DEF OvhActs
  <2>2. ClientTypeOK'
    BY <2>1, CallType DEF Status
  <2>3. job[r].op \in Op
    BY DEF TypeOK, Job
  <2>4. last' \in [Resource -> Request \cup {NoOne}] /\ parts' \subseteq Part
    BY <2>1, <2>3 DEF CarriesOut, TypeOK, Op
  <2> QED BY <1>0, <1>1, <2>1, <2>2, <2>4, HistType DEF OvhActs, TypeOK
<1>2. CASE OvhRefuses(r)
  <2>1. \E s \in Status : _call(r, job[r].op.verb, s)
    BY <1>2 DEF OvhRefuses, Status
  <2>2. ClientTypeOK'
    BY <2>1, CallType
  <2> QED BY <1>0, <1>2, <2>2 DEF OvhRefuses, ovh, TypeOK
<1>3. CASE OvhAnswers(r)
  <2>1. \E s \in Status : _call(r, "GET", s)
    BY <1>3 DEF OvhAnswers, Status
  <2>2. ClientTypeOK'
    BY <2>1, CallType
  <2>3. job[r].feature \in Feature
    BY DEF TypeOK, Job
  <2>4. has' \in [Feature -> {"unasked", "present", "absent", "barred"}]
    BY <1>3, <2>3 DEF OvhAnswers, TypeOK
  <2>5. \/ hist' = hist
        \/ hist' = [hist EXCEPT !.barred = @ \cup {job[r].feature}]
        \/ hist' = [hist EXCEPT !.vague = @ \cup {"detail"}]
        \/ hist' = [hist EXCEPT !.vague = @ \cup {job[r].feature}]
    BY <1>3 DEF OvhAnswers
  <2>6. hist' \in [times : [Request -> Nat], posted : [Request -> Nat],
               hid : SUBSET Request,
               booted : [Request -> Request \cup {NoOne}],
               met : SUBSET (Request \X Request),
               undid : SUBSET (Request \X Request),
               vague : SUBSET (Feature \cup {"detail"}),
               barred : SUBSET Feature]
    BY <2>3, <2>5 DEF TypeOK
  <2> QED BY <1>0, <1>3, <2>2, <2>4, <2>6 DEF OvhAnswers, TypeOK
<1> QED BY <1>1, <1>2, <1>3

LEMMA HandlerType ==
  ASSUME TypeOK, NEW r \in Request,
         \/ Rejects(r) \/ FromCache(r) \/ Succeeds(r) \/ Fails(r)
         \/ Reboots(r) \/ RebootAnswered(r)
  PROVE  TypeOK'
<1>1. CASE Rejects(r) \/ FromCache(r)
  <2>1. Ends(r, "invalid") \/ Ends(r, "caps")
    BY <1>1 DEF Rejects, FromCache
  <2> QED BY <1>1, <2>1, EndsType DEF Rejects, FromCache, clientVars, ovh, TypeOK, ClientTypeOK
<1>2. call[r].client \in Client \cup {NoOne}
  BY DEF TypeOK, ClientTypeOK, Call
<1>3. CASE Succeeds(r) \/ Fails(r) \/ RebootAnswered(r)
  <2>1. call' = [call EXCEPT ![r] = [NoCall EXCEPT !.client = call[r].client]]
    BY <1>3 DEF Succeeds, Fails, RebootAnswered, Back
  <2>2. \E what \in {"ok", "refused", "failed", "bootOnly"} : Ends(r, what)
    BY <1>3 DEF Succeeds, Fails, RebootAnswered, raise_ovh_http_error
  <2> QED BY <1>2, <1>3, <2>1, <2>2, EndsType, CallsType
        DEF Succeeds, Fails, RebootAnswered, ovh, TypeOK, ClientTypeOK
<1>4. CASE Reboots(r)
  <2>1. [job[r] EXCEPT !.pc = "reboot", !.op = Post({"power"})] \in Job
    <3>1. job[r] \in Job /\ Post({"power"}) \in Op
      BY Constants DEF TypeOK, Resource
    <3> QED BY <3>1 DEF Job
  <2>2. job' \in [Request -> Job]
    BY <1>4, <2>1 DEF Reboots, TypeOK
  <2>3. call' \in [Request -> Call]
    BY <1>2, <1>4, CallsType DEF Reboots
  <2> QED BY <1>4, <2>2, <2>3 DEF Reboots, ovh, TypeOK, ClientTypeOK
<1> QED BY <1>1, <1>3, <1>4

LEMMA ProbeType ==
  ASSUME TypeOK, NEW r \in Request,
         ProbeNext(r) \/ derive_capabilities(r) \/ save_server_capabilities(r)
  PROVE  TypeOK'
<1>0. /\ job[r] \in Job /\ job[r].caps \in Caps /\ job[r].feature \in Feature
      /\ call[r].client \in Client \cup {NoOne}
  BY DEF TypeOK, ClientTypeOK, Job, Call
<1>1. CASE ProbeNext(r)
  <2> DEFINE caps == [job[r].caps EXCEPT !.of[job[r].feature] = Verdict(call[r].status)]
  <2>1. caps \in Caps
    BY <1>0 DEF Caps, Answer, Verdict
  <2>2. \/ \E f \in job[r].todo : job' = [job EXCEPT ![r] = Probing(job[r].todo, f, caps)]
        \/ job' = [job EXCEPT ![r] = [Idle EXCEPT !.pc = "detail", !.caps = caps]]
        \/ job' = [job EXCEPT ![r] = [Idle EXCEPT !.pc = "save", !.caps = caps]]
    BY <1>1 DEF ProbeNext
  <2> HIDE DEF caps
  <2>3. /\ [Idle EXCEPT !.pc = "detail", !.caps = caps] \in Job
        /\ [Idle EXCEPT !.pc = "save", !.caps = caps] \in Job
        /\ \A f \in job[r].todo : Probing(job[r].todo, f, caps) \in Job
    BY <1>0, <2>1, Constants DEF Job, Idle, Probing
  <2>4. job' \in [Request -> Job]
    BY <2>2, <2>3 DEF TypeOK
  <2>5. \/ Calls(r, call[r].client)
        \/ call' = [call EXCEPT ![r] = [NoCall EXCEPT !.client = call[r].client]]
    BY <1>1 DEF ProbeNext
  <2>6. call' \in [Request -> Call]
    BY <1>0, <2>5, CallsType
  <2> QED BY <1>1, <2>4, <2>6 DEF ProbeNext, ovh, TypeOK, ClientTypeOK
<1>2. CASE derive_capabilities(r)
  <2> DEFINE caps == [job[r].caps EXCEPT !.detail = (call[r].status = "ok")]
  <2>1. job' = [job EXCEPT ![r] = [Idle EXCEPT !.pc = "save", !.caps = caps]]
    BY <1>2 DEF derive_capabilities
  <2>2. caps \in Caps
    BY <1>0 DEF Caps
  <2> HIDE DEF caps
  <2>4. [Idle EXCEPT !.pc = "save", !.caps = caps] \in Job
    BY <2>2, Constants DEF Job, Idle
  <2>5. job' \in [Request -> Job]
    BY <2>1, <2>4 DEF TypeOK
  <2>6. call' \in [Request -> Call]
    BY <1>0, <1>2, CallsType DEF derive_capabilities, Back
  <2> QED BY <1>2, <2>5, <2>6 DEF derive_capabilities, ovh, TypeOK, ClientTypeOK
<1>3. CASE save_server_capabilities(r)
  <2>1. cache' \in [age : {"none", "fresh", "stale"}, caps : Caps]
    BY <1>0, <1>3 DEF save_server_capabilities, TypeOK
  <2>2. faults' \in 0 .. MaxFaults
    BY <1>3 DEF save_server_capabilities, TypeOK, Fine, Fault
  <2> QED BY <1>3, <2>1, <2>2, EndsType
        DEF save_server_capabilities, clientVars, ovh, TypeOK, ClientTypeOK
<1> QED BY <1>1, <1>2, <1>3

LEMMA SurroundingsType ==
  ASSUME TypeOK, TimePasses \/ CredentialsChange
  PROVE  TypeOK'
<1>1. CASE TimePasses
  BY <1>1 DEF TimePasses, Fault, ClockSteps, clientVars, ovh, TypeOK, ClientTypeOK
<1>2. CASE CredentialsChange
  <2>1. has' \in [Feature -> {"unasked", "present", "absent", "barred"}]
    BY <1>2 DEF CredentialsChange, TypeOK
  <2>2. hist' \in [times : [Request -> Nat], posted : [Request -> Nat],
               hid : SUBSET Request,
               booted : [Request -> Request \cup {NoOne}],
               met : SUBSET (Request \X Request),
               undid : SUBSET (Request \X Request),
               vague : SUBSET (Feature \cup {"detail"}),
               barred : SUBSET Feature]
    BY <1>2 DEF CredentialsChange, TypeOK
  <2> QED BY <1>2, <2>1, <2>2 DEF CredentialsChange, reset_ovh_service, Fault, TypeOK, ClientTypeOK
<1> QED BY <1>1, <1>2

LEMMA LockType ==
  ASSUME TypeOK, NEW r \in Request, Lock(r)
  PROVE  TypeOK'
<1>1. [call[r] EXCEPT !.pc = "send"] \in Call
  <2>1. call[r] \in Call
    BY DEF TypeOK, ClientTypeOK
  <2> QED BY <2>1 DEF Call
<1>2. call' \in [Request -> Call]
  BY <1>1 DEF Lock, Acquire, TypeOK, ClientTypeOK
<1> QED BY <1>2 DEF Lock, Acquire, ovh, TypeOK, ClientTypeOK

(* What a step may be.                                                     *)
LEMMA StepCases ==
  ASSUME [Next]_vars
  PROVE  \/ UNCHANGED vars
         \/ TimePasses \/ CredentialsChange
         \/ \E r \in Request :
              \/ Rejects(r) \/ FromCache(r)
              \/ \E first : FirstJob(first) /\ Takes(r, first)
              \/ Lock(r) \/ OvhActs(r) \/ OvhRefuses(r) \/ OvhAnswers(r)
              \/ Succeeds(r) \/ Fails(r) \/ Reboots(r) \/ RebootAnswered(r)
              \/ ProbeNext(r) \/ derive_capabilities(r) \/ save_server_capabilities(r)
<1>1. CASE \E r \in Request : Handle(r)
  BY <1>1, HandleCases
<1> QED BY <1>1, Zenon DEF Next

LEMMA TypeStep == TypeOK /\ [Next]_vars => TypeOK'
<1> SUFFICES ASSUME TypeOK, [Next]_vars PROVE TypeOK'
  OBVIOUS
<1>1. CASE UNCHANGED vars
  BY <1>1 DEF vars, clientVars, ovh, TypeOK, ClientTypeOK
<1> QED BY <1>1, StepCases, TakesType, OvhType, HandlerType, ProbeType, SurroundingsType,
           LockType, Zenon

(* Every variable of the control panel keeps its type (servers.py,         *)
(* OVHService): for any requests, service objects and features.            *)
THEOREM TypeCorrect == Spec => []TypeOK
BY InitType, TypeStep, PTL DEF Spec

-----------------------------------------------------------------------------
(* What one step does to a request and to all others.                      *)

(* The request takes no part in the step.                                  *)
Kept(q) ==
  /\ job'[q] = job[q] /\ call'[q] = call[q] /\ answer'[q] = answer[q]
  /\ hist'.times[q] = hist.times[q] /\ hist'.posted[q] = hist.posted[q]
  /\ hist'.booted[q] = hist.booted[q]
  /\ q \in hist'.hid <=> q \in hist.hid

(* Nothing is carried out.                                                 *)
Quiet ==
  /\ last' = last
  /\ hist'.times = hist.times /\ hist'.posted = hist.posted
  /\ hist'.booted = hist.booted /\ hist'.hid = hist.hid /\ hist'.undid = hist.undid

(* The request is turned away, or answered from the cache.                 *)
LEMMA EndsAtOnce ==
  ASSUME TypeOK, NEW r \in Request,
         \/ Rejects(r) \/ FromCache(r)
         \/ registry = NoOne /\ \E first : Takes(r, first)
  PROVE  /\ job[r].pc = "idle" /\ job'[r].pc = "end" /\ job'[r].reboot = job[r].reboot
         /\ answer'[r] \in {"invalid", "caps", "unconfigured"}
         /\ call' = call /\ lock' = lock /\ hist' = hist /\ last' = last
         /\ cache' = cache /\ has' = has
         /\ \A q \in Request \ {r} : Kept(q)
<1>1. /\ job[r].pc = "idle"
      /\ Ends(r, "invalid") \/ Ends(r, "caps") \/ Ends(r, "unconfigured")
      /\ call' = call /\ lock' = lock /\ hist' = hist /\ last' = last
      /\ cache' = cache /\ has' = has
  BY DEF Rejects, FromCache, Takes, clientVars, ovh
<1>2. /\ \A q \in Request \ {r} : job'[q] = job[q] /\ answer'[q] = answer[q]
      /\ answer'[r] \in {"invalid", "caps", "unconfigured"}
  BY <1>1 DEF Ends, TypeOK
<1>3. job'[r] = [Idle EXCEPT !.pc = "end", !.reboot = job[r].reboot]
  BY <1>1 DEF Ends, TypeOK
<1>4. job'[r].pc = "end" /\ job'[r].reboot = job[r].reboot
  BY <1>3 DEF Idle
<1> QED BY <1>1, <1>2, <1>4 DEF Kept

(* The request takes the service.                                          *)
LEMMA Begins ==
  ASSUME TypeOK, NEW r \in Request, NEW first, FirstJob(first), Takes(r, first),
         registry # NoOne
  PROVE  /\ job[r].pc = "idle" /\ job'[r] = first /\ answer' = answer
         /\ call'[r].pc = "wait" /\ call'[r].client \in Client
         /\ lock' = lock /\ Quiet /\ cache' = cache /\ has' = has
         /\ hist'.vague = hist.vague /\ hist'.barred = hist.barred
         /\ hist'.met = hist.met \cup {<<r, q>> : q \in {p \in Request : Active(p)}}
                                 \cup {<<q, r>> : q \in {p \in Request : Active(p)}}
         /\ \A q \in Request \ {r} : Kept(q)
<1>1. /\ job[r].pc = "idle"
      /\ job' = [job EXCEPT ![r] = first] /\ Calls(r, registry) /\ answer' = answer
      /\ lock' = lock /\ last' = last /\ cache' = cache /\ has' = has
  BY DEF Takes, ovh
<1>2. hist' = Meet(r)
  BY DEF Takes
<1>3. /\ hist'.times = hist.times /\ hist'.posted = hist.posted
      /\ hist'.booted = hist.booted /\ hist'.hid = hist.hid /\ hist'.undid = hist.undid
      /\ hist'.vague = hist.vague /\ hist'.barred = hist.barred
      /\ hist'.met = hist.met \cup {<<r, q>> : q \in {p \in Request : Active(p)}}
                              \cup {<<q, r>> : q \in {p \in Request : Active(p)}}
  BY <1>2 DEF Meet, TypeOK
<1>4. /\ call'[r] = [NoCall EXCEPT !.pc = "wait", !.client = registry]
      /\ \A q \in Request \ {r} : call'[q] = call[q]
  BY <1>1 DEF Calls, TypeOK, ClientTypeOK
<1>5. /\ call'[r].pc = "wait" /\ call'[r].client = registry
  BY <1>4 DEF NoCall
<1>6. job'[r] = first /\ \A q \in Request \ {r} : job'[q] = job[q]
  BY <1>1 DEF TypeOK
<1>7. registry \in Client
  BY DEF TypeOK, ClientTypeOK
<1>8. \A q \in Request \ {r} : Kept(q)
  BY <1>1, <1>3, <1>4, <1>6 DEF Kept
<1> HIDE DEF Idle, NoCall
<1> QED BY <1>1, <1>3, <1>5, <1>6, <1>7, <1>8 DEF Quiet

(* One try of the call.                                                    *)
LEMMA Tries ==
  ASSUME TypeOK, NEW r \in Request, NEW verb, NEW s \in Status, _call(r, verb, s)
  PROVE  /\ \A q \in Request \ {r} : call'[q] = call[q]
         /\ call'[r].client = call[r].client
         /\ \/ call'[r].pc = call[r].pc /\ lock' = lock /\ Repeatable(verb, s)
            \/ /\ call'[r].pc = "back" /\ call'[r].status = s
               /\ \A c \in Client : c # call[r].client => lock'[c] = lock[c]
<1>0. call \in [Request -> Call] /\ call[r] \in Call /\ lock \in [Client -> Request \cup {NoOne}]
  BY DEF TypeOK, ClientTypeOK
<1>1. \/ /\ call' = [call EXCEPT ![r] = [call[r] EXCEPT !.again = TRUE]]
         /\ lock' = lock /\ Repeatable(verb, s)
      \/ /\ call' = [call EXCEPT ![r] = [call[r] EXCEPT !.pc = "back", !.status = s]]
         /\ lock' = [lock EXCEPT ![call[r].client] = NoOne]
  BY <1>0 DEF _call
<1>2. /\ [call[r] EXCEPT !.again = TRUE].pc = call[r].pc
      /\ [call[r] EXCEPT !.again = TRUE].client = call[r].client
      /\ [call[r] EXCEPT !.pc = "back", !.status = s].pc = "back"
      /\ [call[r] EXCEPT !.pc = "back", !.status = s].status = s
      /\ [call[r] EXCEPT !.pc = "back", !.status = s].client = call[r].client
  BY <1>0 DEF Call
<1> QED BY <1>0, <1>1, <1>2

(* OVH carries the request out.                                            *)
LEMMA Acts ==
  ASSUME TypeOK, NEW r \in Request, OvhActs(r)
  PROVE  /\ call[r].pc = "send" /\ job[r].op.verb # "GET" /\ job[r].op \in Op
         /\ job' = job /\ answer' = answer /\ cache' = cache /\ has' = has
         /\ \A q \in Request \ {r} : Kept(q)
         /\ call'[r].client = call[r].client
         /\ \E s \in {"ok", "5xx", "lost"} :
              /\ s # "ok" => r \in hist'.hid
              /\ \/ call'[r].pc = "send" /\ lock' = lock /\ s = "5xx"
                    /\ job[r].op.verb # "POST"
                 \/ /\ call'[r].pc = "back" /\ call'[r].status = s
                    /\ \A c \in Client : c # call[r].client => lock'[c] = lock[c]
         /\ hist'.times[r] = hist.times[r] + 1
         /\ hist'.posted[r] = IF job[r].op.verb = "POST" THEN hist.posted[r] + 1
                              ELSE hist.posted[r]
         /\ hist'.booted[r] = IF "power" \in job[r].op.sets THEN last["bootId"]
                              ELSE hist.booted[r]
         /\ hist'.met = hist.met /\ hist'.vague = hist.vague /\ hist'.barred = hist.barred
         /\ \A x \in Resource : last'[x] = IF x \in Changed(job[r].op) THEN r ELSE last[x]
         /\ hist'.undid = IF hist.times[r] > 0 /\ job[r].op.verb # "POST"
              THEN hist.undid \cup
                     {<<r, q>> : q \in {last[x] : x \in Changed(job[r].op)} \ {r, NoOne}}
              ELSE hist.undid
<1>1. PICK s \in {"ok", "5xx", "lost"} :
        CarriesOut(r, s) /\ _call(r, job[r].op.verb, s)
  BY DEF OvhActs
<1>2. /\ call[r].pc = "send" /\ job[r].op.verb # "GET"
      /\ job' = job /\ answer' = answer /\ cache' = cache /\ has' = has
  BY DEF OvhActs, Sending
<1>3. job[r].op \in Op
  BY DEF TypeOK, Job
<1>4. \A x \in Resource : last'[x] = IF x \in Changed(job[r].op) THEN r ELSE last[x]
  BY <1>1 DEF CarriesOut
<1> DEFINE op   == job[r].op
           over == {last[x] : x \in Changed(op)} \ {r, NoOne}
           repeats == {<<r, q>> : q \in over}
<1>5. hist' = [hist EXCEPT
       !.times[r] = @ + 1,
       !.posted[r] = IF op.verb = "POST" THEN @ + 1 ELSE @,
       !.booted[r] = IF "power" \in op.sets THEN last["bootId"] ELSE @,
       !.hid = IF s = "ok" THEN @ ELSE @ \cup {r},
       !.undid = IF hist.times[r] > 0 /\ op.verb # "POST"
                   THEN @ \cup repeats ELSE @]
  BY <1>1, Zenon DEF CarriesOut
<1> HIDE DEF op, over, repeats
<1>6. /\ hist'.times = [hist.times EXCEPT ![r] = hist.times[r] + 1]
      /\ hist'.posted = [hist.posted EXCEPT ![r] =
                           IF op.verb = "POST" THEN hist.posted[r] + 1 ELSE hist.posted[r]]
      /\ hist'.booted = [hist.booted EXCEPT ![r] =
                           IF "power" \in op.sets THEN last["bootId"] ELSE hist.booted[r]]
      /\ hist'.hid = IF s = "ok" THEN hist.hid ELSE hist.hid \cup {r}
      /\ hist'.undid = IF hist.times[r] > 0 /\ op.verb # "POST"
                         THEN hist.undid \cup repeats ELSE hist.undid
      /\ hist'.met = hist.met /\ hist'.vague = hist.vague /\ hist'.barred = hist.barred
  BY <1>5 DEF TypeOK
<1>7. /\ hist.times \in [Request -> Nat] /\ hist.posted \in [Request -> Nat]
      /\ hist.booted \in [Request -> Request \cup {NoOne}]
  BY DEF TypeOK
<1>8. /\ hist'.times[r] = hist.times[r] + 1
      /\ hist'.posted[r] = IF op.verb = "POST" THEN hist.posted[r] + 1 ELSE hist.posted[r]
      /\ hist'.booted[r] = IF "power" \in op.sets THEN last["bootId"] ELSE hist.booted[r]
      /\ \A q \in Request \ {r} :
           /\ hist'.times[q] = hist.times[q] /\ hist'.posted[q] = hist.posted[q]
           /\ hist'.booted[q] = hist.booted[q] /\ (q \in hist'.hid <=> q \in hist.hid)
      /\ s # "ok" => r \in hist'.hid
  BY <1>6, <1>7
<1>9. /\ \A q \in Request \ {r} : call'[q] = call[q]
      /\ call'[r].client = call[r].client
      /\ \/ call'[r].pc = "send" /\ lock' = lock /\ s = "5xx" /\ op.verb # "POST"
         \/ /\ call'[r].pc = "back" /\ call'[r].status = s
            /\ \A c \in Client : c # call[r].client => lock'[c] = lock[c]
  BY <1>1, <1>2, Tries DEF Status, Repeatable, op
<1>10. \A q \in Request \ {r} : Kept(q)
  BY <1>2, <1>8, <1>9 DEF Kept
<1>11. hist'.undid = IF hist.times[r] > 0 /\ job[r].op.verb # "POST"
              THEN hist.undid \cup
                     {<<r, q>> : q \in {last[x] : x \in Changed(job[r].op)} \ {r, NoOne}}
              ELSE hist.undid
  BY <1>6 DEF repeats, over, op
<1>12. \E t \in {"ok", "5xx", "lost"} :
         /\ t # "ok" => r \in hist'.hid
         /\ \/ call'[r].pc = "send" /\ lock' = lock /\ t = "5xx" /\ op.verb # "POST"
            \/ /\ call'[r].pc = "back" /\ call'[r].status = t
               /\ \A c \in Client : c # call[r].client => lock'[c] = lock[c]
  BY <1>8, <1>9
<1> QED BY <1>2, <1>3, <1>4, <1>6, <1>8, <1>9, <1>10, <1>11, <1>12 DEF op

(* The lock is taken.                                                      *)
LEMMA Locks ==
  ASSUME TypeOK, NEW r \in Request, Lock(r)
  PROVE  /\ call[r].pc = "wait" /\ lock[call[r].client] = NoOne
         /\ call'[r].pc = "send" /\ call'[r].client = call[r].client
         /\ job' = job /\ answer' = answer /\ cache' = cache /\ has' = has
         /\ hist' = hist /\ Quiet
         /\ lock' = [lock EXCEPT ![call[r].client] = r]
         /\ \A q \in Request \ {r} : Kept(q)
<1>1. /\ call[r].pc = "wait" /\ lock[call[r].client] = NoOne
      /\ lock' = [lock EXCEPT ![call[r].client] = r]
      /\ call' = [call EXCEPT ![r].pc = "send"]
      /\ job' = job /\ answer' = answer /\ cache' = cache /\ has' = has
      /\ hist' = hist /\ last' = last
  BY DEF Lock, Acquire, ovh
<1>2. call \in [Request -> Call] /\ call[r] \in Call
  BY DEF TypeOK, ClientTypeOK
<1>3. /\ call'[r].pc = "send" /\ call'[r].client = call[r].client
      /\ \A q \in Request \ {r} : call'[q] = call[q]
  BY <1>1, <1>2 DEF Call
<1> QED BY <1>1, <1>3 DEF Kept, Quiet

(* OVH does nothing for the request, or answers a GET.                     *)
LEMMA Answers ==
  ASSUME TypeOK, NEW r \in Request, OvhRefuses(r) \/ OvhAnswers(r)
  PROVE  /\ call[r].pc = "send"
         /\ job' = job /\ answer' = answer /\ cache' = cache /\ Quiet
         /\ hist'.met = hist.met
         /\ OvhRefuses(r) => job[r].op.verb # "GET" /\ has' = has /\ hist' = hist
         /\ OvhAnswers(r) => job[r].op.verb = "GET"
         /\ \A q \in Request \ {r} : Kept(q)
         /\ call'[r].client = call[r].client
         /\ \/ call'[r].pc = "send" /\ lock' = lock
            \/ /\ call'[r].pc = "back"
               /\ call'[r].status \notin {"none", "ok"} \/ OvhAnswers(r)
               /\ \A c \in Client : c # call[r].client => lock'[c] = lock[c]
<1>1. PICK s \in Status : /\ _call(r, job[r].op.verb, s)
                          /\ s \notin {"none", "ok"} \/ OvhAnswers(r)
  BY DEF OvhRefuses, OvhAnswers, Status, Asking
<1>2. /\ call[r].pc = "send"
      /\ job' = job /\ answer' = answer /\ cache' = cache /\ last' = last
      /\ OvhRefuses(r) => job[r].op.verb # "GET" /\ has' = has /\ hist' = hist
      /\ OvhAnswers(r) => job[r].op.verb = "GET"
  BY DEF OvhRefuses, OvhAnswers, Sending, Asking, ovh
<1>3. \/ hist' = hist
      \/ \E S : hist' = [hist EXCEPT !.barred = S]
      \/ \E S : hist' = [hist EXCEPT !.vague = S]
  BY DEF OvhRefuses, OvhAnswers
<1>4. /\ hist'.times = hist.times /\ hist'.posted = hist.posted
      /\ hist'.booted = hist.booted /\ hist'.hid = hist.hid /\ hist'.undid = hist.undid
      /\ hist'.met = hist.met
  BY <1>3 DEF TypeOK
<1> QED BY <1>1, <1>2, <1>4, Tries DEF Kept, Quiet

(* The handler answers.                                                    *)
LEMMA Returns ==
  ASSUME TypeOK, NEW r \in Request, Succeeds(r) \/ Fails(r) \/ RebootAnswered(r)
  PROVE  /\ call[r].pc = "back" /\ job'[r].pc = "end" /\ job'[r].reboot = job[r].reboot
         /\ call'[r].pc = "none" /\ call'[r].client = call[r].client
         /\ \/ job[r].pc = "call" /\ call[r].status = "ok" /\ answer'[r] = "ok"
            \/ /\ job[r].pc = "call" /\ call[r].status # "ok"
               /\ answer'[r] = raise_ovh_http_error(call[r].status)
            \/ job[r].pc = "reboot" /\ answer'[r] \in {"ok", "bootOnly"}
         /\ lock' = lock /\ Quiet /\ hist' = hist /\ cache' = cache /\ has' = has
         /\ \A q \in Request \ {r} : Kept(q)
<1>1. /\ call[r].pc = "back"
      /\ call' = [call EXCEPT ![r] = [NoCall EXCEPT !.client = call[r].client]]
      /\ lock' = lock /\ hist' = hist /\ last' = last /\ cache' = cache /\ has' = has
  BY DEF Succeeds, Fails, RebootAnswered, Back, ovh
<1>2. \E what :
        /\ Ends(r, what)
        /\ \/ job[r].pc = "call" /\ call[r].status = "ok" /\ what = "ok"
           \/ /\ job[r].pc = "call" /\ call[r].status # "ok"
              /\ what = raise_ovh_http_error(call[r].status)
           \/ job[r].pc = "reboot" /\ what \in {"ok", "bootOnly"}
  BY DEF Succeeds, Fails, RebootAnswered
<1>3. /\ \A q \in Request \ {r} : job'[q] = job[q] /\ answer'[q] = answer[q]
      /\ job'[r] = [Idle EXCEPT !.pc = "end", !.reboot = job[r].reboot]
      /\ \/ job[r].pc = "call" /\ call[r].status = "ok" /\ answer'[r] = "ok"
         \/ /\ job[r].pc = "call" /\ call[r].status # "ok"
            /\ answer'[r] = raise_ovh_http_error(call[r].status)
         \/ job[r].pc = "reboot" /\ answer'[r] \in {"ok", "bootOnly"}
  BY <1>2 DEF Ends, TypeOK
<1>4. job'[r].pc = "end" /\ job'[r].reboot = job[r].reboot
  BY <1>3 DEF Idle
<1>5. /\ call'[r].pc = "none" /\ call'[r].client = call[r].client
      /\ \A q \in Request \ {r} : call'[q] = call[q]
  <2>1. /\ call'[r] = [NoCall EXCEPT !.client = call[r].client]
        /\ \A q \in Request \ {r} : call'[q] = call[q]
    BY <1>1 DEF TypeOK, ClientTypeOK
  <2> QED BY <2>1 DEF NoCall
<1>6. \A q \in Request \ {r} : Kept(q)
  BY <1>1, <1>3, <1>5 DEF Kept
<1> QED BY <1>1, <1>3, <1>4, <1>5, <1>6 DEF Quiet

(* The boot is set, and the reboot is asked for.                           *)
LEMMA AsksReboot ==
  ASSUME TypeOK, NEW r \in Request, Reboots(r)
  PROVE  /\ job[r].pc = "call" /\ call[r].pc = "back" /\ call[r].status = "ok"
         /\ job[r].reboot = TRUE
         /\ job'[r].pc = "reboot" /\ job'[r].reboot = job[r].reboot
         /\ job'[r].op = Post({"power"})
         /\ call'[r].pc = "wait" /\ call'[r].client = call[r].client
         /\ answer' = answer /\ lock' = lock /\ Quiet /\ hist' = hist
         /\ cache' = cache /\ has' = has
         /\ \A q \in Request \ {r} : Kept(q)
<1>1. /\ job[r].pc = "call" /\ call[r].pc = "back" /\ call[r].status = "ok"
      /\ job[r].reboot = TRUE
      /\ job' = [job EXCEPT ![r] = [job[r] EXCEPT !.pc = "reboot", !.op = Post({"power"})]]
      /\ Calls(r, call[r].client)
      /\ answer' = answer /\ lock' = lock /\ hist' = hist /\ last' = last
      /\ cache' = cache /\ has' = has
  BY DEF Reboots, ovh
<1>2. /\ \A q \in Request \ {r} : job'[q] = job[q] /\ call'[q] = call[q]
      /\ job'[r] = [job[r] EXCEPT !.pc = "reboot", !.op = Post({"power"})]
      /\ call'[r] = [NoCall EXCEPT !.pc = "wait", !.client = call[r].client]
  BY <1>1 DEF Calls, TypeOK, ClientTypeOK
<1>3. job[r] \in Job
  BY DEF TypeOK
<1>4. /\ job'[r].pc = "reboot" /\ job'[r].reboot = job[r].reboot
      /\ job'[r].op = Post({"power"})
  BY <1>2, <1>3 DEF Job
<1>5. call'[r].pc = "wait" /\ call'[r].client = call[r].client
  BY <1>2 DEF NoCall
<1> QED BY <1>1, <1>2, <1>4, <1>5 DEF Kept, Quiet

(* The probe goes on, to its next call or to the write of its result.      *)
LEMMA Probes ==
  ASSUME TypeOK, NEW r \in Request, ProbeNext(r) \/ derive_capabilities(r)
  PROVE  /\ job[r].pc \in {"probe", "detail"} /\ call[r].pc = "back"
         /\ job'[r].pc \in {"probe", "detail", "save"}
         /\ job'[r].op = Get /\ job'[r].reboot = FALSE
         /\ IF job'[r].pc = "save" THEN call'[r].pc = "none" ELSE call'[r].pc = "wait"
         /\ call'[r].client = call[r].client
         /\ answer' = answer /\ lock' = lock /\ Quiet /\ hist' = hist
         /\ cache' = cache /\ has' = has
         /\ \A q \in Request \ {r} : Kept(q)
<1>1. /\ job[r].pc \in {"probe", "detail"} /\ call[r].pc = "back"
      /\ answer' = answer /\ lock' = lock /\ hist' = hist /\ last' = last
      /\ cache' = cache /\ has' = has
  BY DEF ProbeNext, derive_capabilities, Back, ovh
<1>2. \E caps, todo, f :
        \/ /\ job' = [job EXCEPT ![r] = Probing(todo, f, caps)]
           /\ Calls(r, call[r].client)
        \/ /\ job' = [job EXCEPT ![r] = [Idle EXCEPT !.pc = "detail", !.caps = caps]]
           /\ Calls(r, call[r].client)
        \/ /\ job' = [job EXCEPT ![r] = [Idle EXCEPT !.pc = "save", !.caps = caps]]
           /\ call' = [call EXCEPT ![r] = [NoCall EXCEPT !.client = call[r].client]]
  <2>1. CASE ProbeNext(r)
    BY <2>1, Zenon DEF ProbeNext
  <2>2. CASE derive_capabilities(r)
    BY <2>2, Zenon DEF derive_capabilities, Back
  <2> QED BY <2>1, <2>2
<1>3. PICK caps, todo, f :
        \/ /\ job' = [job EXCEPT ![r] = Probing(todo, f, caps)]
           /\ Calls(r, call[r].client)
        \/ /\ job' = [job EXCEPT ![r] = [Idle EXCEPT !.pc = "detail", !.caps = caps]]
           /\ Calls(r, call[r].client)
        \/ /\ job' = [job EXCEPT ![r] = [Idle EXCEPT !.pc = "save", !.caps = caps]]
           /\ call' = [call EXCEPT ![r] = [NoCall EXCEPT !.client = call[r].client]]
  BY <1>2
<1>4. /\ \A q \in Request \ {r} : job'[q] = job[q] /\ call'[q] = call[q]
      /\ \/ /\ job'[r] = Probing(todo, f, caps)
            /\ call'[r] = [NoCall EXCEPT !.pc = "wait", !.client = call[r].client]
         \/ /\ job'[r] = [Idle EXCEPT !.pc = "detail", !.caps = caps]
            /\ call'[r] = [NoCall EXCEPT !.pc = "wait", !.client = call[r].client]
         \/ /\ job'[r] = [Idle EXCEPT !.pc = "save", !.caps = caps]
            /\ call'[r] = [NoCall EXCEPT !.client = call[r].client]
  BY <1>3 DEF Calls, TypeOK, ClientTypeOK
<1>5. /\ job'[r].pc \in {"probe", "detail", "save"}
      /\ job'[r].op = Get /\ job'[r].reboot = FALSE
      /\ IF job'[r].pc = "save" THEN call'[r].pc = "none" ELSE call'[r].pc = "wait"
      /\ call'[r].client = call[r].client
  BY <1>4 DEF Probing, Idle, NoCall
<1> QED BY <1>1, <1>4, <1>5 DEF Kept, Quiet

(* The result of a probe is stored and answered.                           *)
LEMMA Saves ==
  ASSUME TypeOK, NEW r \in Request, save_server_capabilities(r)
  PROVE  /\ job[r].pc = "save" /\ job'[r].pc = "end" /\ job'[r].reboot = job[r].reboot
         /\ answer'[r] = "caps" /\ call' = call /\ lock' = lock
         /\ cache' = cache \/ cache' = [age |-> "fresh", caps |-> job[r].caps]
         /\ Quiet /\ hist' = hist /\ has' = has
         /\ \A q \in Request \ {r} : Kept(q)
<1>1. /\ job[r].pc = "save" /\ Ends(r, "caps") /\ call' = call /\ lock' = lock
      /\ cache' = cache \/ cache' = [age |-> "fresh", caps |-> job[r].caps]
      /\ hist' = hist /\ has' = has /\ last' = last
  BY DEF save_server_capabilities, clientVars, ovh
<1>2. /\ \A q \in Request \ {r} : job'[q] = job[q] /\ answer'[q] = answer[q]
      /\ answer'[r] = "caps"
      /\ job'[r] = [Idle EXCEPT !.pc = "end", !.reboot = job[r].reboot]
  BY <1>1 DEF Ends, TypeOK
<1>3. job'[r].pc = "end" /\ job'[r].reboot = job[r].reboot
  BY <1>2 DEF Idle
<1> QED BY <1>1, <1>2, <1>3 DEF Kept, Quiet

(* The surroundings leave every request alone.                             *)
LEMMA Surrounds ==
  ASSUME TypeOK, TimePasses \/ CredentialsChange \/ UNCHANGED vars
  PROVE  /\ job' = job /\ call' = call /\ answer' = answer /\ lock' = lock /\ Quiet
         /\ hist'.met = hist.met /\ hist'.vague = hist.vague
         /\ \A q \in Request : Kept(q)
<1>1. /\ job' = job /\ call' = call /\ answer' = answer /\ lock' = lock /\ last' = last
      /\ hist' = hist \/ \E S : hist' = [hist EXCEPT !.barred = S]
  BY DEF TimePasses, ClockSteps, CredentialsChange, reset_ovh_service, vars, clientVars, ovh
<1> QED BY <1>1 DEF Kept, Quiet, TypeOK

-----------------------------------------------------------------------------
(* Each request by itself.                                                 *)

(* Where a request is in its handler, where it is in its call, and what    *)
(* the call is for.                                                        *)
Phases(r) ==
  /\ job[r].pc \in {"idle", "end", "save"} => call[r].pc = "none"
  /\ job[r].pc \in {"call", "reboot", "probe", "detail"}
       => call[r].pc \in {"wait", "send", "back"} /\ call[r].client \in Client
  /\ job[r].pc = "call" =>
       job[r].op.verb # "GET" /\ (job[r].reboot = TRUE => job[r].op = Put("bootId"))
  /\ job[r].pc = "reboot" => job[r].op = Post({"power"})
  /\ job[r].pc \in {"probe", "detail"} => job[r].op = Get

(* A POST is carried out once at most: when it is, it is not sent again.   *)
Counts(r) ==
  /\ hist.posted[r] <= 1 /\ (hist.posted[r] > 0 => hist.times[r] > 0)
  /\ job[r].pc \in {"idle", "probe", "detail", "save"} => hist.times[r] = 0
  /\ job[r].pc = "call" /\ job[r].op.verb # "POST" => hist.posted[r] = 0
  /\ job[r].pc \in {"call", "reboot"} /\ call[r].pc \in {"wait", "send"} => hist.posted[r] = 0
  /\ job[r].pc = "call" /\ call[r].pc = "wait" => hist.times[r] = 0

(* What the caller of an operation knows of it, before and after it is     *)
(* answered.                                                               *)
Knows(r) ==
  /\ job[r].pc # "end" => answer[r] = "none"
  /\ job[r].pc = "reboot" => hist.times[r] > 0
  /\ job[r].pc = "call" /\ call[r].pc = "send" => hist.times[r] = 0 \/ r \in hist.hid
  /\ job[r].pc = "call" /\ call[r].pc = "back" =>
       /\ call[r].status = "ok" => hist.times[r] > 0
       /\ call[r].status # "ok" => hist.times[r] = 0 \/ r \in hist.hid
       /\ raise_ovh_http_error(call[r].status) = "refused" => hist.posted[r] = 0
  /\ answer[r] \in {"ok", "bootOnly"} => hist.times[r] > 0
  /\ answer[r] \in {"refused", "failed", "invalid", "unconfigured"}
       => hist.times[r] = 0 \/ r \in hist.hid
  /\ answer[r] = "refused" => hist.posted[r] = 0

Local(r) == Phases(r) /\ Counts(r) /\ Knows(r)

LEMMA LocalInit == Init => \A r \in Request : Local(r)
BY DEF Init, ClientInit, Local, Phases, Counts, Knows, Idle, NoCall

(* No step breaks what is known of a request: its own follow the handler,  *)
(* the steps of others leave it alone.                                     *)
LEMMA LocalStep ==
  ASSUME TypeOK, TypeOK', NEW r \in Request, Local(r), [Next]_vars
  PROVE  Local(r)'
<1>t. /\ hist.times[r] \in Nat /\ hist.posted[r] \in Nat
      /\ job[r] \in Job /\ job'[r] \in Job /\ call'[r] \in Call
      /\ Get.verb = "GET" /\ Put("bootId").verb = "PUT" /\ Post({"power"}).verb = "POST"
  BY DEF TypeOK, ClientTypeOK, Get, Put, Post
<1>p. job[r].pc \in {"idle", "call", "reboot", "probe", "detail", "save", "end"}
  BY <1>t DEF Job
<1>k. ASSUME Kept(r) PROVE Local(r)'
  BY <1>k DEF Kept, Local, Phases, Counts, Knows
<1>1. CASE Rejects(r) \/ FromCache(r) \/ (registry = NoOne /\ \E first : Takes(r, first))
  BY <1>t, <1>1, EndsAtOnce DEF Local, Phases, Counts, Knows
<1>2. CASE registry # NoOne /\ \E first : FirstJob(first) /\ Takes(r, first)
  <2>1. PICK first : FirstJob(first) /\ Takes(r, first)
    BY <1>2
  <2>2. /\ job[r].pc = "idle" /\ job'[r] = first /\ answer' = answer
        /\ call'[r].pc = "wait" /\ call'[r].client \in Client /\ Quiet
    BY <1>2, <2>1, Begins
  <2>3. first.pc \in {"call", "probe"}
    BY <2>1 DEF FirstJob
  <2>4. Phases(r)'
    BY <1>t, <2>1, <2>2, <2>3 DEF Phases, FirstJob
  <2> QED BY <1>t, <2>2, <2>3, <2>4 DEF Local, Counts, Knows, Quiet
<1>3. CASE Lock(r)
  BY <1>t, <1>3, Locks DEF Local, Phases, Counts, Knows
<1>4. CASE OvhActs(r)
  <2>1. job[r].pc \in {"call", "reboot"}
    BY <1>t, <1>p, <1>4, Acts DEF Local, Phases
  <2>2. raise_ovh_http_error("ok") = "failed" /\ raise_ovh_http_error("5xx") = "failed"
        /\ raise_ovh_http_error("lost") = "failed"
    BY DEF raise_ovh_http_error
  <2>3. /\ call[r].pc = "send" /\ job' = job /\ answer' = answer
        /\ call'[r].client = call[r].client
        /\ hist'.times[r] = hist.times[r] + 1
        /\ hist'.posted[r] = IF job[r].op.verb = "POST" THEN hist.posted[r] + 1
                             ELSE hist.posted[r]
    BY <1>4, Acts
  <2>4. \E s \in {"ok", "5xx", "lost"} :
           /\ s # "ok" => r \in hist'.hid
           /\ \/ call'[r].pc = "send" /\ s = "5xx" /\ job[r].op.verb # "POST"
              \/ call'[r].pc = "back" /\ call'[r].status = s
    BY <1>4, Acts
  <2>5. Phases(r)'
    BY <1>t, <2>1, <2>3, <2>4 DEF Local, Phases
  <2>6. Counts(r)'
    BY <1>t, <2>1, <2>3, <2>4 DEF Local, Phases, Counts
  <2>7. Knows(r)'
    BY <1>t, <2>1, <2>2, <2>3, <2>4 DEF Local, Counts, Knows
  <2> QED BY <2>5, <2>6, <2>7 DEF Local
<1>5. CASE OvhRefuses(r) \/ OvhAnswers(r)
  <2>1. OvhRefuses(r) => job[r].pc \in {"call", "reboot"}
    BY <1>t, <1>p, <1>5, Answers DEF Local, Phases
  <2>2. OvhAnswers(r) => job[r].pc \in {"probe", "detail"}
    BY <1>t, <1>p, <1>5, Answers DEF Local, Phases
  <2>3. /\ call[r].pc = "send" /\ job' = job /\ answer' = answer /\ Quiet
        /\ call'[r].client = call[r].client
        /\ \/ call'[r].pc = "send"
           \/ call'[r].pc = "back" /\ (call'[r].status # "ok" \/ OvhAnswers(r))
    BY <1>5, Answers
  <2>4. Phases(r)' /\ Counts(r)'
    BY <1>t, <2>1, <2>2, <2>3 DEF Local, Phases, Counts, Quiet
  <2>5. Knows(r)'
    BY <1>t, <1>5, <2>1, <2>2, <2>3 DEF Local, Counts, Knows, Quiet
  <2> QED BY <2>4, <2>5 DEF Local
<1>6. CASE Succeeds(r) \/ Fails(r) \/ RebootAnswered(r)
  <2>1. raise_ovh_http_error(call[r].status) \in {"refused", "failed"}
    BY DEF raise_ovh_http_error
  <2> QED BY <1>t, <1>6, <2>1, Returns DEF Local, Phases, Counts, Knows
<1>7. CASE Reboots(r)
  BY <1>t, <1>7, AsksReboot DEF Local, Phases, Counts, Knows
<1>8. CASE ProbeNext(r) \/ derive_capabilities(r)
  BY <1>t, <1>8, Probes DEF Local, Phases, Counts, Knows
<1>9. CASE save_server_capabilities(r)
  BY <1>t, <1>9, Saves DEF Local, Phases, Counts, Knows
<1>10. CASE TimePasses \/ CredentialsChange \/ UNCHANGED vars
  BY <1>k, <1>10, Surrounds
<1>11. CASE \E q \in Request \ {r} :
              \/ Rejects(q) \/ FromCache(q)
              \/ \E first : FirstJob(first) /\ Takes(q, first)
              \/ Lock(q) \/ OvhActs(q) \/ OvhRefuses(q) \/ OvhAnswers(q)
              \/ Succeeds(q) \/ Fails(q) \/ Reboots(q) \/ RebootAnswered(q)
              \/ ProbeNext(q) \/ derive_capabilities(q) \/ save_server_capabilities(q)
  BY <1>k, <1>11, EndsAtOnce, Begins, Locks, Acts, Answers, Returns, AsksReboot,
     Probes, Saves, Zenon
<1> QED BY <1>1, <1>2, <1>3, <1>4, <1>5, <1>6, <1>7, <1>8, <1>9, <1>10, <1>11, StepCases, Zenon

-----------------------------------------------------------------------------
(* Requests together.                                                      *)

(* One service, one call at a time.                                        *)
LockHeld == \A r \in Request : call[r].pc = "send" => lock[call[r].client] = r

(* Requests in progress at the same time have met.                         *)
AllMet ==
  \A r, q \in Request : Active(r) /\ Active(q) /\ r # q => <<r, q>> \in hist.met

(* Who changed a resource last has had something carried out.              *)
LastActed ==
  \A x \in Resource : last[x] \in Request => hist.times[last[x]] > 0

(* The boot that a set_boot has set stays, or one that it has met sets     *)
(* another; it is into one of these that the server is rebooted.           *)
Boots(r) ==
  /\ job[r].pc \in {"call", "reboot"} /\ job[r].reboot = TRUE /\ hist.times[r] > 0
       => last["bootId"] = r \/ <<r, last["bootId"]>> \in hist.met
  /\ job[r].reboot = TRUE /\ hist.posted[r] > 0
       => hist.booted[r] = r \/ <<r, hist.booted[r]>> \in hist.met

(* Between the tries of a call nobody with the same service changes        *)
(* anything.                                                               *)
Guards(r) ==
  call[r].pc = "send" /\ hist.times[r] > 0 /\ job[r].op.verb \in {"PUT", "DELETE"} =>
    \A x \in Changed(job[r].op) :
      last[x] \in Request /\ last[x] # r => call[last[x]].client # call[r].client

(* The pairs of which one undid what the other did.                        *)
Undone ==
  \A pair \in hist.undid :
    /\ hist.times[pair[1]] > 0 /\ hist.times[pair[2]] > 0
    /\ call[pair[1]].client # call[pair[2]].client

Inv ==
  /\ TypeOK /\ (\A r \in Request : Local(r))
  /\ LockHeld /\ AllMet /\ LastActed /\ Undone
  /\ \A r \in Request : Boots(r) /\ Guards(r)

LEMMA InvInit == Init => Inv
<1> SUFFICES ASSUME Init PROVE Inv
  OBVIOUS
<1>1. /\ \A r \in Request : /\ job[r] = Idle /\ call[r] = NoCall /\ hist.times[r] = 0
                            /\ hist.posted[r] = 0
      /\ \A x \in Resource : last[x] = NoOne
      /\ hist.undid = {}
  BY DEF Init, ClientInit
<1>2. Idle.pc = "idle" /\ NoCall.pc = "none"
  BY DEF Idle, NoCall
<1>3. LockHeld /\ AllMet
  BY <1>1, <1>2 DEF LockHeld, AllMet, Active
<1>4. LastActed /\ Undone
  BY <1>1 DEF LastActed, Undone
<1>5. \A r \in Request : Boots(r) /\ Guards(r)
  <2> TAKE r \in Request
  <2>1. ~ hist.times[r] > 0 /\ ~ hist.posted[r] > 0
    BY <1>1
  <2> QED BY <2>1, Zenon DEF Boots, Guards
<1> QED BY <1>3, <1>4, <1>5, InitType, LocalInit DEF Inv

(* Nothing is forgotten, and a request that has had something carried out  *)
(* keeps its service.                                                      *)
LEMMA Grows ==
  ASSUME TypeOK, TypeOK', NEW r \in Request, Local(r), [Next]_vars
  PROVE  /\ hist.met \subseteq hist'.met
         /\ hist.times[r] > 0 => hist'.times[r] > 0 /\ call'[r].client = call[r].client
<1>t. hist.times[r] \in Nat /\ hist'.times[r] \in Nat
  BY DEF TypeOK
<1> DEFINE Goal == /\ hist.met \subseteq hist'.met
                   /\ hist.times[r] > 0 =>
                        hist'.times[r] > 0 /\ call'[r].client = call[r].client
<1>0. job[r].pc = "idle" => hist.times[r] = 0
  BY DEF Local, Counts
<1>1. CASE TimePasses \/ CredentialsChange \/ UNCHANGED vars
  BY <1>1, Surrounds DEF Kept
<1>2. ASSUME NEW q \in Request,
             Rejects(q) \/ FromCache(q) \/ (registry = NoOne /\ \E first : Takes(q, first))
      PROVE  Goal
  BY <1>2, EndsAtOnce
<1>3. ASSUME NEW q \in Request, registry # NoOne,
             \E first : FirstJob(first) /\ Takes(q, first)
      PROVE  Goal
  BY <1>0, <1>3, Begins DEF Kept, Quiet
<1>4. ASSUME NEW q \in Request, Lock(q)
      PROVE  Goal
  BY <1>4, Locks DEF Kept
<1>5. ASSUME NEW q \in Request, OvhActs(q)
      PROVE  Goal
  <2>1. hist'.met = hist.met /\ (q = r => hist'.times[r] = hist.times[r] + 1)
    BY <1>5, Acts
  <2>2. q = r => call'[r].client = call[r].client
    BY <1>5, Acts
  <2>3. q # r => Kept(r)
    BY <1>5, Acts
  <2> QED BY <1>t, <2>1, <2>2, <2>3 DEF Kept
<1>6. ASSUME NEW q \in Request, OvhRefuses(q) \/ OvhAnswers(q)
      PROVE  Goal
  BY <1>6, Answers DEF Kept, Quiet
<1>7. ASSUME NEW q \in Request, Succeeds(q) \/ Fails(q) \/ RebootAnswered(q)
      PROVE  Goal
  BY <1>7, Returns DEF Kept
<1>8. ASSUME NEW q \in Request, Reboots(q)
      PROVE  Goal
  BY <1>8, AsksReboot DEF Kept
<1>9. ASSUME NEW q \in Request, ProbeNext(q) \/ derive_capabilities(q)
      PROVE  Goal
  BY <1>9, Probes DEF Kept
<1>10. ASSUME NEW q \in Request, save_server_capabilities(q)
      PROVE  Goal
  BY <1>10, Saves DEF Kept
<1> QED BY <1>1, <1>2, <1>3, <1>4, <1>5, <1>6, <1>7, <1>8, <1>9, <1>10, StepCases, Zenon

(* The lock is held by whoever sends.                                      *)
LEMMA LockStep ==
  ASSUME Inv, TypeOK', [Next]_vars PROVE LockHeld'
<1>t. /\ lock \in [Client -> Request \cup {NoOne}]
      /\ \A r \in Request : Local(r) /\ (call[r].pc = "send" => lock[call[r].client] = r)
      /\ \A r \in Request : call[r].pc \in {"wait", "send"} => call[r].client \in Client
  <2>1. \A r \in Request : Local(r) /\ job[r].pc \in
          {"idle", "call", "reboot", "probe", "detail", "save", "end"}
    BY DEF Inv, TypeOK, Job
  <2> QED BY <2>1 DEF Inv, TypeOK, ClientTypeOK, LockHeld, Local, Phases
<1> SUFFICES ASSUME NEW r \in Request, call'[r].pc = "send"
             PROVE  lock'[call'[r].client] = r
  BY DEF LockHeld
<1>1. CASE lock' = lock /\ call'[r].client = call[r].client /\ call[r].pc = "send"
  BY <1>t, <1>1
<1>2. ASSUME NEW q \in Request, Lock(q)
      PROVE  lock'[call'[r].client] = r
  <2>1. /\ call[q].pc = "wait" /\ lock[call[q].client] = NoOne
        /\ call'[q].client = call[q].client
        /\ lock' = [lock EXCEPT ![call[q].client] = q]
        /\ q # r => call'[r] = call[r]
    BY <1>2, Locks DEF Inv, Kept
  <2> QED BY <1>t, <2>1
<1>3. ASSUME NEW q \in Request, OvhActs(q) \/ OvhRefuses(q) \/ OvhAnswers(q)
      PROVE  lock'[call'[r].client] = r
  <2>1. /\ call[q].pc = "send"
        /\ call'[q].client = call[q].client
        /\ \/ lock' = lock /\ call'[q].pc = "send"
           \/ /\ call'[q].pc = "back"
              /\ \A c \in Client : c # call[q].client => lock'[c] = lock[c]
        /\ q # r => call'[r] = call[r]
    BY <1>3, Acts, Answers DEF Inv, Kept
  <2>2. CASE q = r
    BY <1>t, <2>1, <2>2
  <2>3. CASE q # r
    BY <1>t, <2>1, <2>3
  <2> QED BY <2>2, <2>3
<1>4. CASE \/ TimePasses \/ CredentialsChange \/ UNCHANGED vars
           \/ \E q \in Request :
                \/ Rejects(q) \/ FromCache(q)
                \/ (registry = NoOne /\ \E first : Takes(q, first))
                \/ save_server_capabilities(q)
  BY <1>1, <1>4, Surrounds, EndsAtOnce, Saves DEF Inv
<1>5. ASSUME NEW q \in Request,
             \/ registry # NoOne /\ \E first : FirstJob(first) /\ Takes(q, first)
             \/ Succeeds(q) \/ Fails(q) \/ RebootAnswered(q) \/ Reboots(q)
             \/ ProbeNext(q) \/ derive_capabilities(q)
      PROVE  lock'[call'[r].client] = r
  <2>1. lock' = lock /\ call'[q].pc \in {"wait", "none"} /\ (q # r => Kept(r))
    BY <1>5, Begins, Returns, AsksReboot, Probes DEF Inv
  <2> QED BY <1>1, <2>1 DEF Kept
<1> QED BY <1>2, <1>3, <1>4, <1>5, StepCases, Zenon

(* Requests in progress have met when the later one began.                 *)
LEMMA MetStep ==
  ASSUME Inv, TypeOK', [Next]_vars PROVE AllMet'
<1> SUFFICES ASSUME NEW r \in Request, NEW q \in Request, r # q,
                    Active(r)', Active(q)'
             PROVE  <<r, q>> \in hist'.met
  BY DEF AllMet
<1>t. TypeOK /\ AllMet /\ hist.met \subseteq hist'.met
  BY Grows DEF Inv
<1>1. CASE Active(r) /\ Active(q)
  BY <1>t, <1>1 DEF AllMet
<1>2. ASSUME NEW p \in Request, registry # NoOne,
             \E first : FirstJob(first) /\ Takes(p, first)
      PROVE  <<r, q>> \in hist'.met
  <2>1. /\ hist'.met = hist.met \cup {<<p, x>> : x \in {y \in Request : Active(y)}}
                                \cup {<<x, p>> : x \in {y \in Request : Active(y)}}
        /\ \A x \in Request \ {p} : job'[x] = job[x]
    BY <1>t, <1>2, Begins DEF Kept
  <2>2. \A x \in Request \ {p} : Active(x)' = Active(x)
    BY <2>1 DEF Active
  <2>3. CASE p = r
    BY <2>1, <2>2, <2>3
  <2>4. CASE p = q
    BY <2>1, <2>2, <2>4
  <2>5. CASE p # r /\ p # q
    BY <1>1, <2>2, <2>5
  <2> QED BY <2>3, <2>4, <2>5
<1>3. ASSUME NEW p \in Request,
             job[p].pc \notin {"idle", "end"} \/ job'[p].pc = "end",
             \A x \in Request \ {p} : job'[x] = job[x]
      PROVE  Active(r) /\ Active(q)
  BY <1>3 DEF Active
<1>4. CASE TimePasses \/ CredentialsChange \/ UNCHANGED vars
  BY <1>t, <1>1, <1>4, Surrounds DEF Active
<1>5. ASSUME NEW p \in Request,
             \/ Rejects(p) \/ FromCache(p) \/ (registry = NoOne /\ \E first : Takes(p, first))
             \/ Succeeds(p) \/ Fails(p) \/ RebootAnswered(p) \/ Reboots(p)
             \/ ProbeNext(p) \/ derive_capabilities(p) \/ save_server_capabilities(p)
      PROVE  <<r, q>> \in hist'.met
  <2>1. /\ job[p].pc \notin {"idle", "end"} \/ job'[p].pc = "end"
        /\ \A x \in Request \ {p} : job'[x] = job[x]
    BY <1>t, <1>5, EndsAtOnce, Returns, AsksReboot, Probes, Saves DEF Kept
  <2> QED BY <1>1, <1>3, <2>1
<1>6. ASSUME NEW p \in Request, Lock(p) \/ OvhActs(p) \/ OvhRefuses(p) \/ OvhAnswers(p)
      PROVE  <<r, q>> \in hist'.met
  BY <1>t, <1>1, <1>6, Locks, Acts, Answers DEF Active
<1> QED BY <1>2, <1>4, <1>5, <1>6, StepCases, Zenon

(* Only OvhActs carries anything out.                                      *)
LEMMA QuietOrActs ==
  ASSUME Inv, [Next]_vars
  PROVE  \/ \E q \in Request : OvhActs(q)
         \/ /\ Quiet
            /\ \A r \in Request :
                 \/ hist.times[r] = 0 /\ hist.posted[r] = 0
                 \/ /\ job'[r].reboot = TRUE => job[r].reboot = TRUE
                    /\ job'[r].reboot = TRUE /\ job'[r].pc \in {"call", "reboot"}
                         => job[r].pc \in {"call", "reboot"}
<1> DEFINE Goal(q) ==
      /\ Quiet
      /\ \A r \in Request :
           \/ hist.times[r] = 0 /\ hist.posted[r] = 0
           \/ /\ job'[r].reboot = TRUE => job[r].reboot = TRUE
              /\ job'[r].reboot = TRUE /\ job'[r].pc \in {"call", "reboot"}
                   => job[r].pc \in {"call", "reboot"}
<1>t. TypeOK /\ \A r \in Request : job[r].pc = "idle" => hist.times[r] = 0 /\ hist.posted[r] = 0
  BY DEF Inv, Local, Counts, TypeOK
<1>1. CASE TimePasses \/ CredentialsChange \/ UNCHANGED vars
  BY <1>t, <1>1, Surrounds
<1>2. ASSUME NEW q \in Request,
             \/ Rejects(q) \/ FromCache(q) \/ (registry = NoOne /\ \E first : Takes(q, first))
      PROVE  Goal(q)
  BY <1>t, <1>2, EndsAtOnce DEF Kept, Quiet
<1>3. ASSUME NEW q \in Request, registry # NoOne,
             \E first : FirstJob(first) /\ Takes(q, first)
      PROVE  Goal(q)
  BY <1>t, <1>3, Begins DEF Kept
<1>4. ASSUME NEW q \in Request, Lock(q) \/ OvhRefuses(q) \/ OvhAnswers(q)
      PROVE  Goal(q)
  BY <1>t, <1>4, Locks, Answers
<1>5. ASSUME NEW q \in Request, Succeeds(q) \/ Fails(q) \/ RebootAnswered(q)
      PROVE  Goal(q)
  BY <1>t, <1>5, Returns DEF Kept
<1>6. ASSUME NEW q \in Request, Reboots(q)
      PROVE  Goal(q)
  BY <1>t, <1>6, AsksReboot DEF Kept
<1>7. ASSUME NEW q \in Request, ProbeNext(q) \/ derive_capabilities(q)
      PROVE  Goal(q)
  BY <1>t, <1>7, Probes DEF Kept
<1>8. ASSUME NEW q \in Request, save_server_capabilities(q)
      PROVE  Goal(q)
  BY <1>t, <1>8, Saves DEF Kept
<1> QED BY <1>1, <1>2, <1>3, <1>4, <1>5, <1>6, <1>7, <1>8, StepCases, Zenon

LEMMA LastStep ==
  ASSUME Inv, TypeOK', [Next]_vars PROVE LastActed'
<1>t. /\ TypeOK /\ LastActed
      /\ \A r \in Request : hist.times[r] > 0 => hist'.times[r] > 0
  BY Grows DEF Inv
<1>1. CASE Quiet
  BY <1>t, <1>1 DEF LastActed, Quiet
<1>2. ASSUME NEW q \in Request, OvhActs(q) PROVE LastActed'
  <2>1. /\ hist'.times[q] = hist.times[q] + 1 /\ hist.times[q] \in Nat
        /\ \A x \in Resource : last'[x] = q \/ last'[x] = last[x]
    BY <1>t, <1>2, Acts DEF TypeOK
  <2> QED BY <1>t, <2>1 DEF LastActed
<1> QED BY <1>1, <1>2, QuietOrActs

LEMMA BootsStep ==
  ASSUME Inv, TypeOK', [Next]_vars, NEW r \in Request PROVE Boots(r)'
<1>t. /\ TypeOK /\ Local(r) /\ Boots(r) /\ AllMet
      /\ hist.met \subseteq hist'.met
  BY Grows DEF Inv
<1>n. /\ hist.times[r] \in Nat /\ hist.posted[r] \in Nat
  BY <1>t DEF TypeOK
<1>1. CASE /\ Quiet
           /\ \/ hist.times[r] = 0 /\ hist.posted[r] = 0
              \/ /\ job'[r].reboot = TRUE => job[r].reboot = TRUE
                 /\ job'[r].reboot = TRUE /\ job'[r].pc \in {"call", "reboot"}
                      => job[r].pc \in {"call", "reboot"}
  BY <1>t, <1>n, <1>1 DEF Boots, Quiet
<1>2. ASSUME NEW q \in Request, q # r, OvhActs(q) PROVE Boots(r)'
  <2>1. /\ Kept(r) /\ call[q].pc = "send" /\ job[q].op.verb # "GET"
        /\ (last'["bootId"] = q \/ last'["bootId"] = last["bootId"])
    <3>1. "bootId" \in Resource
      BY DEF Resource
    <3>2. /\ Kept(r) /\ call[q].pc = "send" /\ job[q].op.verb # "GET"
          /\ \A x \in Resource :
               last'[x] = IF x \in Changed(job[q].op) THEN q ELSE last[x]
      BY <1>t, <1>2, Acts
    <3> QED BY <3>1, <3>2
  <2>2. Active(q)
    <3>1. Local(q) /\ Get.verb = "GET"
      BY DEF Inv, Get
    <3> QED BY <2>1, <3>1 DEF Local, Phases, Active
  <2>3. job[r].pc \in {"call", "reboot"} => <<r, q>> \in hist'.met
    BY <1>t, <1>2, <2>2 DEF AllMet, Active
  <2> QED BY <1>t, <2>1, <2>3 DEF Boots, Kept
<1>3. CASE OvhActs(r)
  <2>1. /\ job' = job /\ call[r].pc = "send" /\ job[r].op.verb # "GET"
        /\ hist'.posted[r] = IF job[r].op.verb = "POST" THEN hist.posted[r] + 1
                             ELSE hist.posted[r]
        /\ hist'.booted[r] = IF "power" \in job[r].op.sets THEN last["bootId"]
                             ELSE hist.booted[r]
        /\ last'["bootId"] = IF "bootId" \in Changed(job[r].op) THEN r ELSE last["bootId"]
    BY <1>t, <1>3, Acts DEF Resource
  <2>2. job[r].pc \in {"call", "reboot"}
    <3>1. /\ Get.verb = "GET"
          /\ job[r].pc \in {"idle", "call", "reboot", "probe", "detail", "save", "end"}
      BY <1>t DEF Get, TypeOK, Job
    <3> QED BY <1>t, <2>1, <3>1 DEF Local, Phases
  <2>3. CASE job[r].pc = "call" /\ job[r].reboot = TRUE
    <3>1. job[r].op = Put("bootId")
      BY <1>t, <2>3 DEF Local, Phases
    <3>2. "bootId" \in Changed(job[r].op) /\ job[r].op.verb = "PUT"
      BY <3>1 DEF Put, Changed
    <3>3. hist'.posted[r] = 0
      BY <1>t, <2>1, <2>3, <3>2 DEF Local, Counts
    <3> QED BY <2>1, <2>3, <3>2, <3>3 DEF Boots
  <2>4. CASE job[r].pc = "reboot"
    <3>1. job[r].op = Post({"power"}) /\ hist.times[r] > 0
      BY <1>t, <2>4 DEF Local, Phases, Knows
    <3>2. "bootId" \notin Changed(job[r].op) /\ "power" \in job[r].op.sets
      BY <3>1 DEF Post, Changed
    <3> QED BY <1>t, <2>1, <2>4, <3>1, <3>2 DEF Boots
  <2>5. CASE job[r].reboot # TRUE
    BY <2>1, <2>5 DEF Boots
  <2> QED BY <2>2, <2>3, <2>4, <2>5
<1> QED BY <1>1, <1>2, <1>3, QuietOrActs

LEMMA GuardsStep ==
  ASSUME Inv, TypeOK', [Next]_vars, NEW r \in Request PROVE Guards(r)'
<1>t. /\ TypeOK /\ Local(r) /\ Guards(r) /\ LockHeld /\ LastActed
      /\ \A q \in Request : hist.times[q] > 0 => call'[q].client = call[q].client
      /\ job[r].op \in Op /\ Changed(job[r].op) \subseteq Resource
      /\ \A q \in Request : hist.times[q] \in Nat
  BY Grows DEF Inv, TypeOK, Job, Op, Changed, Resource, Part
<1>s. ASSUME job'[r] = job[r], call[r].pc = "send", call'[r].client = call[r].client,
             Quiet
      PROVE  Guards(r)'
  BY <1>t, <1>s DEF Guards, LastActed, Quiet
<1>n. CASE call'[r].pc # "send"
  BY <1>n DEF Guards
<1>1. CASE Lock(r)
  <2>1. /\ call[r].pc = "wait" /\ job' = job /\ hist' = hist
    BY <1>t, <1>1, Locks
  <2>2. Get.verb = "GET" /\ Post({"power"}).verb = "POST"
        /\ job[r].pc \in {"idle", "call", "reboot", "probe", "detail", "save", "end"}
    BY <1>t DEF Get, Post, TypeOK, Job
  <2>3. job[r].op.verb \in {"PUT", "DELETE"} => hist.times[r] = 0
    BY <1>t, <2>1, <2>2 DEF Local, Phases, Counts
  <2> QED BY <2>1, <2>3 DEF Guards
<1>2. CASE OvhActs(r)
  <2>1. /\ job' = job
        /\ \A x \in Changed(job[r].op) : last'[x] = r
    BY <1>t, <1>2, Acts
  <2> QED BY <2>1 DEF Guards
<1>3. ASSUME NEW q \in Request, q # r, OvhActs(q), call'[r].pc = "send" PROVE Guards(r)'
  <2>1. /\ Kept(r) /\ call[q].pc = "send" /\ call'[q].client = call[q].client
        /\ \A x \in Resource : last'[x] = q \/ last'[x] = last[x]
    BY <1>t, <1>3, Acts
  <2>2. call[q].client # call[r].client
    BY <1>t, <1>3, <2>1 DEF LockHeld, Kept
  <2> QED BY <1>t, <2>1, <2>2 DEF Guards, LastActed, Kept
<1>4. CASE OvhRefuses(r) \/ OvhAnswers(r)
  <2>1. job' = job /\ call[r].pc = "send" /\ call'[r].client = call[r].client /\ Quiet
    BY <1>t, <1>4, Answers
  <2> QED BY <1>s, <2>1
<1>5. CASE Kept(r) /\ Quiet
  BY <1>s, <1>n, <1>5 DEF Kept
<1>6. CASE TimePasses \/ CredentialsChange \/ UNCHANGED vars
  BY <1>t, <1>5, <1>6, Surrounds
<1>7. CASE \/ Rejects(r) \/ FromCache(r) \/ (registry = NoOne /\ \E first : Takes(r, first))
           \/ save_server_capabilities(r)
  <2>1. call' = call /\ job[r].pc \in {"idle", "save"}
    BY <1>t, <1>7, EndsAtOnce, Saves
  <2> QED BY <1>t, <1>n, <2>1 DEF Local, Phases
<1>8. CASE \/ registry # NoOne /\ \E first : FirstJob(first) /\ Takes(r, first)
           \/ Succeeds(r) \/ Fails(r) \/ RebootAnswered(r) \/ Reboots(r)
           \/ ProbeNext(r) \/ derive_capabilities(r)
  <2>1. call'[r].pc # "send"
    BY <1>t, <1>8, Begins, Returns, AsksReboot, Probes
  <2> QED BY <1>n, <2>1
<1>9. ASSUME NEW q \in Request \ {r},
             \/ Rejects(q) \/ FromCache(q)
             \/ \E first : FirstJob(first) /\ Takes(q, first)
             \/ Lock(q) \/ OvhRefuses(q) \/ OvhAnswers(q)
             \/ Succeeds(q) \/ Fails(q) \/ Reboots(q) \/ RebootAnswered(q)
             \/ ProbeNext(q) \/ derive_capabilities(q) \/ save_server_capabilities(q)
      PROVE  Kept(r) /\ Quiet
  <2>1. CASE Rejects(q) \/ FromCache(q) \/ (registry = NoOne /\ \E first : Takes(q, first))
    BY <1>t, <2>1, EndsAtOnce DEF Quiet
  <2>2. CASE registry # NoOne /\ \E first : FirstJob(first) /\ Takes(q, first)
    BY <1>t, <2>2, Begins
  <2>3. CASE Lock(q) \/ OvhRefuses(q) \/ OvhAnswers(q)
    BY <1>t, <2>3, Locks, Answers
  <2>4. CASE Succeeds(q) \/ Fails(q) \/ Reboots(q) \/ RebootAnswered(q)
    BY <1>t, <2>4, Returns, AsksReboot
  <2>5. CASE ProbeNext(q) \/ derive_capabilities(q) \/ save_server_capabilities(q)
    BY <1>t, <2>5, Probes, Saves
  <2> QED BY <1>9, <2>1, <2>2, <2>3, <2>4, <2>5, Zenon
<1>10. ASSUME NEW q \in Request, q # r, OvhActs(q) PROVE Guards(r)'
  BY <1>n, <1>3, <1>10
<1> QED BY <1>1, <1>2, <1>10, <1>4, <1>5, <1>6, <1>7, <1>8, <1>9, StepCases, Zenon

LEMMA UndoneStep ==
  ASSUME Inv, TypeOK', [Next]_vars PROVE Undone'
<1>t. /\ TypeOK /\ Undone /\ LastActed
      /\ \A q \in Request : hist.times[q] > 0
           => hist'.times[q] > 0 /\ call'[q].client = call[q].client
      /\ \A q \in Request : hist.times[q] \in Nat /\ Guards(q)
  BY Grows DEF Inv, TypeOK
<1>u. \A pair \in hist.undid : pair[1] \in Request /\ pair[2] \in Request
  BY <1>t DEF TypeOK
<1>1. CASE Quiet
  BY <1>t, <1>u, <1>1 DEF Undone, Quiet
<1>2. ASSUME NEW q \in Request, OvhActs(q) PROVE Undone'
  <2>1. /\ call[q].pc = "send" /\ job[q].op.verb # "GET" /\ job[q].op \in Op
        /\ hist'.times[q] = hist.times[q] + 1
        /\ hist'.undid = IF hist.times[q] > 0 /\ job[q].op.verb # "POST"
             THEN hist.undid \cup
                    {<<q, p>> : p \in {last[x] : x \in Changed(job[q].op)} \ {q, NoOne}}
             ELSE hist.undid
    BY <1>t, <1>2, Acts
  <2>2. CASE ~ (hist.times[q] > 0 /\ job[q].op.verb # "POST")
    BY <1>t, <1>u, <2>1, <2>2 DEF Undone
  <2>3. CASE hist.times[q] > 0 /\ job[q].op.verb # "POST"
    <3>1. job[q].op.verb \in {"PUT", "DELETE"} /\ Changed(job[q].op) \subseteq Resource
      BY <2>1, <2>3 DEF Op, Verb, Changed, Resource, Part
    <3>2. \A x \in Changed(job[q].op) : last[x] \in Request \cup {NoOne}
      BY <1>t, <3>1 DEF TypeOK
    <3>3. \A x \in Changed(job[q].op) : last[x] \notin {q, NoOne} =>
            /\ last[x] \in Request /\ hist.times[last[x]] > 0
            /\ call[last[x]].client # call[q].client
      BY <1>t, <2>1, <2>3, <3>1, <3>2 DEF Guards, LastActed
    <3>4. \A pair \in hist'.undid :
            \/ pair \in hist.undid
            \/ \E x \in Changed(job[q].op) : last[x] \notin {q, NoOne} /\ pair = <<q, last[x]>>
      BY <2>1, <2>3
    <3> SUFFICES ASSUME NEW pair \in hist'.undid
                 PROVE  /\ hist'.times[pair[1]] > 0 /\ hist'.times[pair[2]] > 0
                        /\ call'[pair[1]].client # call'[pair[2]].client
      BY DEF Undone
    <3>5. CASE pair \in hist.undid
      BY <1>t, <1>u, <3>5 DEF Undone
    <3>6. CASE \E x \in Changed(job[q].op) : last[x] \notin {q, NoOne} /\ pair = <<q, last[x]>>
      BY <1>t, <2>3, <3>3, <3>6
    <3> QED BY <3>4, <3>5, <3>6
  <2> QED BY <2>2, <2>3
<1> QED BY <1>1, <1>2, QuietOrActs

LEMMA InvStep == Inv /\ [Next]_vars => Inv'
<1> SUFFICES ASSUME Inv, [Next]_vars PROVE Inv'
  OBVIOUS
<1>1. TypeOK'
  BY TypeStep DEF Inv
<1>2. \A r \in Request : Local(r)'
  BY <1>1, LocalStep DEF Inv
<1> QED BY <1>1, <1>2, LockStep, MetStep, LastStep, UndoneStep, BootsStep, GuardsStep DEF Inv

LEMMA Invariance == Spec => []Inv
BY InvInit, InvStep, PTL DEF Spec

(* No failure, time-out or clock step has one request's POST carried out   *)
(* twice by OVHService._call: not for any number of requests.              *)
THEOREM PostsOnce == Spec => []CarriedOutOnce
<1>1. Inv => CarriedOutOnce
  BY DEF Inv, Local, Counts, CarriedOutOnce
<1> QED BY <1>1, Invariance, PTL

(* What the handlers of servers.py tell their callers is so, whatever      *)
(* other requests do meanwhile.                                            *)
THEOREM AnswersHold == Spec => []AnswersAreTrue
<1>1. Inv => AnswersAreTrue
  BY DEF Inv, Local, Knows, Boots, AnswersAreTrue
<1> QED BY <1>1, Invariance, PTL

(* The lock that _call holds over both tries keeps a repeat from undoing   *)
(* what others did with the same service.                                  *)
THEOREM RepeatsAreHarmless == Spec => []RepeatUndoesNothing
<1>1. Inv => RepeatUndoesNothing
  BY DEF Inv, Undone, RepeatUndoesNothing
<1> QED BY <1>1, Invariance, PTL

-----------------------------------------------------------------------------
(* Capabilities.                                                           *)

(* What an answer about a feature rests on: OVH has said so, or a refusal  *)
(* whose reason is gone, or no answer at all.                              *)
Grounded(verdict, f) ==
  /\ verdict = "yes" => has[f] = "present"
  /\ verdict = "no" => has[f] \in {"absent", "barred"} \/ f \in hist.barred
  /\ verdict = "unknown" => f \in hist.vague

Detailed(read) == read \/ "detail" \in hist.vague \/ Ipmi \in hist.barred

(* The result of a whole probe.                                            *)
Sound(caps) ==
  /\ \A f \in Feature : Grounded(caps.of[f], f)
  /\ caps.of[Ipmi] = "yes" => Detailed(caps.detail)

(* What a running probe has so far, and the answer it has in hand.         *)
Probed(r) ==
  /\ job[r].pc = "probe" =>
       \A f \in Feature \ (job[r].todo \cup {job[r].feature}) : Grounded(job[r].caps.of[f], f)
  /\ job[r].pc = "probe" /\ call[r].pc = "back" => Grounded(Verdict(call[r].status), job[r].feature)
  /\ job[r].pc = "detail" =>
       /\ job[r].feature = Ipmi /\ has[Ipmi] = "present"
       /\ \A f \in Feature : Grounded(job[r].caps.of[f], f)
       /\ call[r].pc = "back" => Detailed(call[r].status = "ok")
  /\ job[r].pc = "save" => Sound(job[r].caps)

CapsInv == (\A r \in Request : Probed(r)) /\ (cache.age # "none" => Sound(cache.caps))

LEMMA CapsInit == Init => CapsInv
<1> SUFFICES ASSUME Init PROVE CapsInv
  OBVIOUS
<1>1. cache.age = "none" /\ \A r \in Request : job[r].pc = "idle"
  BY DEF Init, Idle
<1> QED BY <1>1 DEF CapsInv, Probed

(* What OVH has said of a feature it goes on saying, but for a refusal,    *)
(* which new credentials may end; and no excuse is forgotten.              *)
LEMMA FeaturesKeep ==
  ASSUME TypeOK, [Next]_vars
  PROVE  /\ hist.vague \subseteq hist'.vague /\ hist.barred \subseteq hist'.barred
         /\ \A f \in Feature :
              /\ has[f] \in {"present", "absent"} => has'[f] = has[f]
              /\ has[f] = "barred" => has'[f] = "barred" \/ f \in hist'.barred
<1> DEFINE Goal == /\ hist.vague \subseteq hist'.vague /\ hist.barred \subseteq hist'.barred
                   /\ \A f \in Feature :
                        /\ has[f] \in {"present", "absent"} => has'[f] = has[f]
                        /\ has[f] = "barred" => has'[f] = "barred" \/ f \in hist'.barred
<1>0. ASSUME hist' = hist, has' = has PROVE Goal
  BY <1>0
<1>1. ASSUME NEW r \in Request,
             \/ Rejects(r) \/ FromCache(r) \/ (registry = NoOne /\ \E first : Takes(r, first))
             \/ Lock(r) \/ OvhRefuses(r)
             \/ Succeeds(r) \/ Fails(r) \/ Reboots(r) \/ RebootAnswered(r)
             \/ ProbeNext(r) \/ derive_capabilities(r) \/ save_server_capabilities(r)
      PROVE  Goal
  <2>1. hist' = hist /\ has' = has
    BY <1>1, EndsAtOnce, Locks, Answers, Returns, AsksReboot, Probes, Saves
  <2> QED BY <1>0, <2>1
<1>2. ASSUME NEW r \in Request, registry # NoOne, \E first : FirstJob(first) /\ Takes(r, first)
      PROVE  Goal
  BY <1>2, Begins
<1>3. ASSUME NEW r \in Request, OvhActs(r) PROVE Goal
  BY <1>3, Acts
<1>4. ASSUME NEW r \in Request, OvhAnswers(r) PROVE Goal
  <2>1. has' = has \/ \E h \in IF has[job[r].feature] = "unasked"
                                 THEN {"present", "absent", "barred"} ELSE {has[job[r].feature]} :
                        has' = [has EXCEPT ![job[r].feature] = h]
    BY <1>4 DEF OvhAnswers
  <2>2. \/ hist' = hist
        \/ \E f : hist' = [hist EXCEPT !.barred = @ \cup {f}]
        \/ \E f : hist' = [hist EXCEPT !.vague = @ \cup {f}]
    BY <1>4, Zenon DEF OvhAnswers
  <2>3. hist.vague \subseteq hist'.vague /\ hist.barred \subseteq hist'.barred
    BY <2>2 DEF TypeOK
  <2> QED BY <2>1, <2>3 DEF TypeOK
<1>5. CASE TimePasses \/ UNCHANGED vars
  BY <1>0, <1>5 DEF TimePasses, vars, ovh
<1>6. CASE CredentialsChange
  <2>1. /\ has' = [f \in Feature |-> IF has[f] = "barred" THEN "present" ELSE has[f]]
        /\ hist' = [hist EXCEPT !.barred = @ \cup {f \in Feature : has[f] = "barred"}]
    BY <1>6 DEF CredentialsChange
  <2>2. /\ hist'.vague = hist.vague
        /\ hist'.barred = hist.barred \cup {f \in Feature : has[f] = "barred"}
    BY <2>1 DEF TypeOK
  <2> QED BY <2>1, <2>2
<1> QED BY <1>1, <1>2, <1>3, <1>4, <1>5, <1>6, StepCases, Zenon

(* A request whose job is untouched and whose call has no new answer.      *)
LEMMA ProbedKeeps ==
  ASSUME TypeOK, [Next]_vars, NEW r \in Request, Probed(r), job'[r] = job[r],
         call'[r] = call[r] \/ call'[r].pc # "back"
  PROVE  Probed(r)'
<1>1. job[r].feature \in Feature
  BY DEF TypeOK, Job
<1> QED BY <1>1, FeaturesKeep DEF Probed, Grounded, Detailed, Sound

(* OVH's answer to a probe grounds the verdict on it.                      *)
LEMMA Hears ==
  ASSUME TypeOK, TypeOK', [Next]_vars, NEW r \in Request, Phases(r), Probed(r), OvhAnswers(r)
  PROVE  Probed(r)'
<1> DEFINE f == job[r].feature
<1>1. /\ f \in Feature /\ job' = job /\ call[r].pc = "send"
      /\ job[r].pc \in {"probe", "detail"}
  <2>1. job[r] \in Job /\ call[r].pc = "send" /\ job[r].op.verb = "GET" /\ job' = job
    BY Answers DEF TypeOK
  <2>2. Post({"power"}).verb = "POST"
    BY DEF Post
  <2> QED BY <2>1, <2>2 DEF Job, Phases
<1>2. CASE call'[r].pc # "back"
  BY <1>1, <1>2, ProbedKeeps
<1>3. ASSUME NEW s \in Status, _call(r, "GET", s), call'[r].pc = "back",
             /\ s = "ok" => has'[f] = "present"
             /\ s = "absent" => has'[f] = "absent"
             /\ s = "forbidden" => has'[f] = "barred"
             /\ s = "signature" => f \in hist'.barred
             /\ s \in {"5xx", "lost"} =>
                  IF job[r].pc = "detail" THEN "detail" \in hist'.vague ELSE f \in hist'.vague,
             s \in {"ok", "absent", "forbidden", "signature", "5xx", "lost"}
      PROVE  Probed(r)'
  <2>1. call'[r].status = s
    BY <1>1, <1>3, Tries
  <2>2. CASE job[r].pc = "probe"
    <3> DEFINE v == Verdict(s)
    <3>1. /\ v = "yes" => has'[f] = "present"
          /\ v = "no" => has'[f] \in {"absent", "barred"} \/ f \in hist'.barred
          /\ v = "unknown" => f \in hist'.vague
      BY <1>3, <2>2 DEF Verdict
    <3> QED BY <1>1, <2>1, <2>2, <3>1, FeaturesKeep DEF Probed, Grounded
  <2>3. CASE job[r].pc = "detail"
    <3>1. f = Ipmi /\ has[Ipmi] = "present" /\ has'[Ipmi] = "present"
      BY <2>3, FeaturesKeep DEF Probed
    <3>2. s = "ok" \/ "detail" \in hist'.vague \/ Ipmi \in hist'.barred
      BY <1>3, <2>3, <3>1
    <3> QED BY <1>1, <2>1, <2>3, <3>1, <3>2, FeaturesKeep DEF Probed, Grounded, Detailed
  <2> QED BY <1>1, <2>2, <2>3
<1>4. CASE /\ _call(r, "GET", "signature")
           /\ hist' = IF call[r].again THEN [hist EXCEPT !.barred = @ \cup {f}] ELSE hist
  <2>1. call'[r].pc = "back" => call[r].again
    <3>1. ~ call[r].again => call' = [call EXCEPT ![r].again = TRUE]
      BY <1>4 DEF _call, Repeatable
    <3>2. call[r] \in Call /\ call \in [Request -> Call]
      BY DEF TypeOK, ClientTypeOK
    <3>3. ~ call[r].again => call'[r].pc = call[r].pc
      BY <3>1, <3>2 DEF Call
    <3> QED BY <1>1, <3>3
  <2>2. call'[r].pc = "back" => f \in hist'.barred
    BY <1>4, <2>1 DEF TypeOK
  <2> QED BY <1>2, <1>3, <1>4, <2>2 DEF Status
<1>5. ASSUME NEW h \in {"present", "absent", "barred"}, has' = [has EXCEPT ![f] = h],
             _call(r, "GET", IF h = "present" THEN "ok"
                             ELSE IF h = "absent" THEN "absent" ELSE "forbidden")
      PROVE  Probed(r)'
  <2>1. has'[f] = h
    BY <1>1, <1>5 DEF TypeOK
  <2>2. CASE h = "present"
    BY <1>2, <1>3, <1>5, <2>1, <2>2 DEF Status
  <2>3. CASE h = "absent"
    BY <1>2, <1>3, <1>5, <2>1, <2>3 DEF Status
  <2>4. CASE h = "barred"
    BY <1>2, <1>3, <1>5, <2>1, <2>4 DEF Status
  <2> QED BY <2>2, <2>3, <2>4
<1>6. CASE /\ \E s \in {"5xx", "lost"} : _call(r, "GET", s)
           /\ hist' = [hist EXCEPT !.vague = @ \cup
                                     {IF job[r].pc = "detail" THEN "detail" ELSE f}]
  <2>1. IF job[r].pc = "detail" THEN "detail" \in hist'.vague ELSE f \in hist'.vague
    BY <1>6 DEF TypeOK
  <2> QED BY <1>2, <1>3, <1>6, <2>1 DEF Status
<1>7. has[f] \in {"unasked", "present", "absent", "barred"}
  BY <1>1 DEF TypeOK
<1> QED BY <1>4, <1>5, <1>6, <1>7 DEF OvhAnswers

(* A probe goes from one grounded answer to the next, and to its end.      *)
LEMMA ProbeGoesOn ==
  ASSUME TypeOK, [Next]_vars, NEW r \in Request, Probed(r),
         ProbeNext(r) \/ derive_capabilities(r)
  PROVE  Probed(r)'
<1>1. /\ job[r] \in Job /\ job[r].feature \in Feature /\ job[r].todo \subseteq Feature
      /\ job[r].caps \in Caps
  BY DEF TypeOK, Job
<1>2. /\ call[r].pc = "back"
      /\ IF job'[r].pc = "save" THEN call'[r].pc = "none" ELSE call'[r].pc = "wait"
      /\ has' = has /\ hist' = hist
  BY Probes
<1>3. CASE ProbeNext(r)
  <2>0. PICK caps : caps = [job[r].caps EXCEPT !.of[job[r].feature] = Verdict(call[r].status)]
    OBVIOUS
  <2>1. /\ job[r].pc = "probe"
        /\ \/ \E f \in job[r].todo : job' = [job EXCEPT ![r] = Probing(job[r].todo, f, caps)]
           \/ /\ job[r].todo = {} /\ caps.of[Ipmi] = "yes"
              /\ job' = [job EXCEPT ![r] = [Idle EXCEPT !.pc = "detail", !.caps = caps]]
           \/ /\ job[r].todo = {} /\ caps.of[Ipmi] # "yes"
              /\ job' = [job EXCEPT ![r] = [Idle EXCEPT !.pc = "save", !.caps = caps]]
    BY <1>3, <2>0 DEF ProbeNext
  <2>2. \A f \in Feature \ job[r].todo : Grounded(caps.of[f], f)
    <3> SUFFICES ASSUME NEW f \in Feature \ job[r].todo PROVE Grounded(caps.of[f], f)
      OBVIOUS
    <3>1. caps.of[f] = IF f = job[r].feature THEN Verdict(call[r].status) ELSE job[r].caps.of[f]
      BY <1>1, <2>0 DEF Caps
    <3> QED BY <1>2, <2>1, <3>1 DEF Probed
  <2>3. \A f \in Feature \ job[r].todo : Grounded(caps.of[f], f)'
    BY <1>2, <2>2 DEF Grounded
  <2>4. ASSUME NEW f \in job[r].todo, job' = [job EXCEPT ![r] = Probing(job[r].todo, f, caps)]
        PROVE  Probed(r)'
    <3>1. job'[r] = [Idle EXCEPT !.pc = "probe", !.feature = f, !.todo = job[r].todo \ {f},
                                 !.caps = caps]
      BY <2>4 DEF TypeOK, Probing
    <3>2. /\ job'[r].pc = "probe" /\ job'[r].feature = f /\ job'[r].caps = caps
          /\ job'[r].todo = job[r].todo \ {f}
      BY <3>1 DEF Idle
    <3> QED BY <1>2, <2>3, <2>4, <3>2 DEF Probed
  <2>5. CASE /\ job[r].todo = {} /\ caps.of[Ipmi] = "yes"
             /\ job' = [job EXCEPT ![r] = [Idle EXCEPT !.pc = "detail", !.caps = caps]]
    <3>1. job'[r] = [Idle EXCEPT !.pc = "detail", !.caps = caps]
      BY <2>5 DEF TypeOK
    <3>2. job'[r].pc = "detail" /\ job'[r].feature = Ipmi /\ job'[r].caps = caps
      BY <3>1 DEF Idle
    <3>3. has'[Ipmi] = "present"
      BY <1>1, <2>3, <2>5 DEF Grounded
    <3> QED BY <1>2, <2>3, <2>5, <3>2, <3>3 DEF Probed
  <2>6. CASE /\ job[r].todo = {} /\ caps.of[Ipmi] # "yes"
             /\ job' = [job EXCEPT ![r] = [Idle EXCEPT !.pc = "save", !.caps = caps]]
    <3>1. job'[r] = [Idle EXCEPT !.pc = "save", !.caps = caps]
      BY <2>6 DEF TypeOK
    <3>2. job'[r].pc = "save" /\ job'[r].caps = caps
      BY <3>1 DEF Idle
    <3>3. (Sound(caps))'
      BY <1>1, <2>3, <2>6 DEF Sound
    <3> QED BY <3>2, <3>3 DEF Probed
  <2> QED BY <2>1, <2>4, <2>5, <2>6
<1>4. CASE derive_capabilities(r)
  <2>0. PICK caps : caps = [job[r].caps EXCEPT !.detail = (call[r].status = "ok")]
    OBVIOUS
  <2>1. job[r].pc = "detail" /\ job' = [job EXCEPT ![r] = [Idle EXCEPT !.pc = "save", !.caps = caps]]
    BY <1>4, <2>0 DEF derive_capabilities
  <2>2. caps.of = job[r].caps.of /\ caps.detail = (call[r].status = "ok")
    BY <1>1, <2>0 DEF Caps
  <2>3. job'[r] = [Idle EXCEPT !.pc = "save", !.caps = caps]
    BY <2>1 DEF TypeOK
  <2>4. job'[r].pc = "save" /\ job'[r].caps = caps
    BY <2>3 DEF Idle
  <2>5. Sound(caps)
    BY <1>2, <2>1, <2>2 DEF Probed, Sound
  <2>6. (Sound(caps))'
    BY <1>2, <2>5 DEF Sound, Grounded, Detailed
  <2> QED BY <2>4, <2>6 DEF Probed
<1> QED BY <1>3, <1>4

LEMMA CapsStep ==
  ASSUME Inv, TypeOK', CapsInv, [Next]_vars
  PROVE  CapsInv'
<1>t. /\ TypeOK /\ \A r \in Request : Phases(r) /\ Probed(r)
  BY DEF Inv, Local, CapsInv
<1>1. ASSUME NEW r \in Request PROVE Probed(r)'
  <2>k. ASSUME Kept(r) PROVE Probed(r)'
    BY <1>t, <2>k, ProbedKeeps DEF Kept
  <2>1. ASSUME job'[r].pc \in {"call", "reboot", "end"} PROVE Probed(r)'
    BY <2>1 DEF Probed
  <2>2. CASE \/ Rejects(r) \/ FromCache(r) \/ (registry = NoOne /\ \E first : Takes(r, first))
             \/ Succeeds(r) \/ Fails(r) \/ Reboots(r) \/ RebootAnswered(r)
             \/ save_server_capabilities(r)
    <3>1. job'[r].pc \in {"call", "reboot", "end"}
      BY <1>t, <2>2, EndsAtOnce, Returns, AsksReboot, Saves
    <3> QED BY <2>1, <3>1
  <2>3. CASE registry # NoOne /\ \E first : FirstJob(first) /\ Takes(r, first)
    <3>1. PICK first : FirstJob(first) /\ Takes(r, first)
      BY <2>3
    <3>2. job'[r] = first /\ call'[r].pc = "wait"
      BY <1>t, <2>3, <3>1, Begins
    <3> QED BY <3>1, <3>2 DEF FirstJob, Probed
  <2>4. CASE Lock(r)
    BY <1>t, <2>4, Locks, ProbedKeeps
  <2>5. CASE OvhActs(r) \/ OvhRefuses(r)
    <3>1. job' = job /\ job[r].op.verb # "GET"
      BY <1>t, <2>5, Acts, Answers
    <3>2. job[r].pc \notin {"probe", "detail", "save"}
      <4>1. call[r].pc = "send"
        BY <1>t, <2>5, Acts, Answers
      <4> QED BY <1>t, <3>1, <4>1 DEF Phases, Get
    <3> QED BY <3>1, <3>2 DEF Probed
  <2>6. CASE OvhAnswers(r)
    BY <1>t, <2>6, Hears
  <2>7. CASE ProbeNext(r) \/ derive_capabilities(r)
    BY <1>t, <2>7, ProbeGoesOn
  <2>8. CASE TimePasses \/ CredentialsChange \/ UNCHANGED vars
    BY <1>t, <2>k, <2>8, Surrounds
  <2>9. CASE \E q \in Request \ {r} :
              \/ Rejects(q) \/ FromCache(q)
              \/ \E first : FirstJob(first) /\ Takes(q, first)
              \/ Lock(q) \/ OvhActs(q) \/ OvhRefuses(q) \/ OvhAnswers(q)
              \/ Succeeds(q) \/ Fails(q) \/ Reboots(q) \/ RebootAnswered(q)
              \/ ProbeNext(q) \/ derive_capabilities(q) \/ save_server_capabilities(q)
    BY <1>t, <2>k, <2>9, EndsAtOnce, Begins, Locks, Acts, Answers, Returns, AsksReboot,
       Probes, Saves, Zenon
  <2> QED BY <2>2, <2>3, <2>4, <2>5, <2>6, <2>7, <2>8, <2>9, StepCases, Zenon
<1>2. cache'.age # "none" =>
        \/ Sound(cache.caps) /\ cache'.caps = cache.caps
        \/ \E r \in Request : Sound(job[r].caps) /\ cache'.caps = job[r].caps
  <2>0. ASSUME cache' = cache
        PROVE  cache'.age # "none" => Sound(cache.caps) /\ cache'.caps = cache.caps
    BY <2>0 DEF CapsInv
  <2>1. ASSUME NEW r \in Request, save_server_capabilities(r), cache' # cache
        PROVE  Sound(job[r].caps) /\ cache'.caps = job[r].caps
    BY <1>t, <2>1, Saves DEF Probed
  <2>2. ASSUME NEW r \in Request,
              \/ Rejects(r) \/ FromCache(r)
              \/ \E first : FirstJob(first) /\ Takes(r, first)
              \/ Lock(r) \/ OvhActs(r) \/ OvhRefuses(r) \/ OvhAnswers(r)
              \/ Succeeds(r) \/ Fails(r) \/ Reboots(r) \/ RebootAnswered(r)
              \/ ProbeNext(r) \/ derive_capabilities(r)
        PROVE  cache' = cache
    BY <1>t, <2>2, EndsAtOnce, Begins, Locks, Acts, Answers, Returns, AsksReboot, Probes, Zenon
  <2>3. CASE TimePasses
    <3>1. \/ cache' = cache
          \/ cache.age = "fresh" /\ cache' = [cache EXCEPT !.age = "stale"]
      BY <2>3 DEF TimePasses, clientVars
    <3>2. cache'.caps = cache.caps /\ (cache'.age # "none" => cache.age # "none")
      BY <3>1 DEF TypeOK
    <3> QED BY <3>2 DEF CapsInv
  <2>4. CASE CredentialsChange \/ UNCHANGED vars
    BY <2>0, <2>4 DEF CredentialsChange, vars
  <2> QED BY <2>0, <2>1, <2>2, <2>3, <2>4, StepCases, Zenon
<1>3. cache'.age # "none" => (Sound(cache.caps))'
  BY <1>t, <1>2, FeaturesKeep DEF Sound, Grounded, Detailed
<1> QED BY <1>1, <1>3 DEF CapsInv

(* What get_capabilities stores and serves for a week is OVH's answer, or  *)
(* has one of the causes that probe_server_capabilities cannot tell apart. *)
THEOREM CapabilitiesHaveCause == Spec => []CapabilityHasCause
<1>1. Inv /\ CapsInv => CapabilityHasCause
  BY DEF CapsInv, Sound, Grounded, Detailed, CapabilityHasCause
<1>2. Init => CapsInv
  BY CapsInit
<1>3. Inv /\ CapsInv /\ [Next]_vars => CapsInv'
  BY CapsStep, TypeStep DEF Inv
<1> QED BY <1>1, <1>2, <1>3, Invariance, PTL DEF Spec

=============================================================================
