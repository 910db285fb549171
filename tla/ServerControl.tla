--------------------------- MODULE ServerControl ---------------------------
(***************************************************************************)
(* The control panel of one dedicated server (app/api/servers.py): the     *)
(* handlers that change something at OVH and the cached capability probe,  *)
(* over the calls of OvhClient.  OVH refuses, fails and answers as it      *)
(* likes; what it has done with each request is kept here.                 *)
(*                                                                         *)
(* An operation is what it does to the resources of the server that other  *)
(* operations see.  OVH's tasks, once started, are only counted.  OVH acts *)
(* on a request before it answers it or not at all.                        *)
(***************************************************************************)
EXTENDS OvhClient

CONSTANTS
  Feature,    \* optional resources of SERVER_RESOURCES
  Ipmi,       \* the one whose detail says which consoles work
  MaxFaults   \* bound: failures, refusals, clock steps, resets, expiries

ASSUME ServerControlAssumption == Ipmi \in Feature /\ MaxFaults \in Nat

VARIABLES
  job,      \* what each request is doing
  answer,   \* what its caller has been told
  last,     \* OVH: the request that changed each resource last
  parts,    \* OVH: the parts of the server that can be added and released
  has,      \* OVH: whether it has a feature, chosen when it is first asked
  cache,    \* server_capabilities
  hist,     \* history, see TypeOK
  faults

ovh  == <<last, parts, has>>
vars == <<clientVars, job, answer, ovh, cache, hist, faults>>

(* field: whatever PUT can change besides the boot.  part: what is added   *)
(* and released (addresses, domains, options, the vRack).  token: what one *)
(* POST creates and another uses up (SPLA licence, termination token).     *)
Part     == {"part", "token"}
Resource == Part \cup {"bootId", "field", "power", "os"}

Op == [verb : Verb, sets : SUBSET Resource, drops : SUBSET Part]

Get       == [verb |-> "GET", sets |-> {}, drops |-> {}]
Put(x)    == [verb |-> "PUT", sets |-> {x}, drops |-> {}]
Delete(x) == [verb |-> "DELETE", sets |-> {}, drops |-> {x}]
Post(X)   == [verb |-> "POST", sets |-> X, drops |-> {}]
Use(x)    == [verb |-> "POST", sets |-> {}, drops |-> {x}]
Task      == Post({})

(* caps: what a probe has found out so far; a key that is not a yes or a   *)
(* no is left out of the stored map.  detail: whether /features/ipmi was   *)
(* read.                                                                   *)
Answer == {"unknown", "yes", "no"}
Caps   == [of : [Feature -> Answer], detail : BOOLEAN]
NoCaps == [of |-> [f \in Feature |-> "unknown"], detail |-> FALSE]

Job == [pc : {"idle", "call", "reboot", "probe", "detail", "save", "end"},
        op : Op, reboot : BOOLEAN, feature : Feature, todo : SUBSET Feature,
        caps : Caps]
Idle == [pc |-> "idle", op |-> Get, reboot |-> FALSE, feature |-> Ipmi,
         todo |-> {}, caps |-> NoCaps]

(* times: how often OVH carried out something for a request; posted: how   *)
(* often a POST.  hid: requests that were not told of what was carried     *)
(* out.  booted: the request whose boot the server was rebooted into.      *)
(* met: requests in progress together.  undid: a repeat changed what       *)
(* another had changed since.  vague: features OVH gave no answer about,   *)
(* the detail as "detail".  barred: features refused for a reason that is  *)
(* gone.                                                                   *)
TypeOK ==
  /\ ClientTypeOK
  /\ job \in [Request -> Job]
  /\ answer \in [Request -> {"none", "ok", "refused", "failed", "bootOnly",
                             "invalid", "unconfigured", "caps"}]
  /\ last \in [Resource -> Request \cup {NoOne}]
  /\ parts \subseteq Part
  /\ has \in [Feature -> {"unasked", "present", "absent", "barred"}]
  /\ cache \in [age : {"none", "fresh", "stale"}, caps : Caps]
  /\ hist \in [times : [Request -> Nat], posted : [Request -> Nat],
               hid : SUBSET Request,
               booted : [Request -> Request \cup {NoOne}],
               met : SUBSET (Request \X Request),
               undid : SUBSET (Request \X Request),
               vague : SUBSET (Feature \cup {"detail"}),
               barred : SUBSET Feature]
  /\ faults \in 0 .. MaxFaults

Active(r) == job[r].pc \notin {"idle", "end"}
Fault == faults < MaxFaults /\ faults' = faults + 1
Fine  == faults' = faults

-----------------------------------------------------------------------------
(* A handler, up to its first call.                                        *)

Meet(r) ==
  [hist EXCEPT !.met = @ \cup {<<r, q>> : q \in {p \in Request : Active(p)}}
                         \cup {<<q, r>> : q \in {p \in Request : Active(p)}}]

Ends(r, what) ==
  /\ job' = [job EXCEPT ![r] = [Idle EXCEPT !.pc = "end", !.reboot = job[r].reboot]]
  /\ answer' = [answer EXCEPT ![r] = what]

(* What the handler's own checks turn away never reaches OVH.              *)
Rejects(r) ==
  /\ job[r].pc = "idle"
  /\ Ends(r, "invalid")
  /\ UNCHANGED <<clientVars, ovh, cache, hist, faults>>

(* _configured_service: the service is fixed for the whole request.        *)
Takes(r, first) ==
  /\ job[r].pc = "idle"
  /\ \/ /\ registry # NoOne
        /\ job' = [job EXCEPT ![r] = first]
        /\ Calls(r, registry)
        /\ hist' = Meet(r)
        /\ UNCHANGED answer
     \/ /\ registry = NoOne
        /\ Ends(r, "unconfigured")
        /\ UNCHANGED <<call, hist>>
  /\ Fine
  /\ UNCHANGED <<registry, lock, drifted, ovh, cache>>

Does(r, op) == Takes(r, [Idle EXCEPT !.pc = "call", !.op = op])

set_boot(r) ==
  \E reboot \in BOOLEAN :
    Takes(r, [Idle EXCEPT !.pc = "call", !.op = Put("bootId"), !.reboot = reboot])
reboot_server(r)              == Does(r, Post({"power"}))
set_properties(r)             == Does(r, Put("field")) \/ Rejects(r)
cancel_task(r)                == Does(r, Task)
schedule_task(r)              == Does(r, Task)
reinstall_server(r)           == Does(r, Post({"os"}))
create_ipmi_access(r)         == Does(r, Task) \/ Rejects(r)
ipmi_action(r)                == Does(r, Task) \/ Rejects(r)
ola_action(r)                 == Does(r, Task) \/ Rejects(r)
vni_action(r)                 == Does(r, Task) \/ Rejects(r)
update_vni(r)                 == Does(r, Put("field"))
move_ip(r)                    == Does(r, Task)
merge_ip_block(r)             == Does(r, Task)
create_virtual_mac(r)         == Does(r, Post({"part"}))
add_virtual_mac_address(r)    == Does(r, Post({"part"}))
remove_virtual_mac_address(r) == Does(r, Delete("part"))
add_secondary_dns(r)          == Does(r, Post({"part"}))
remove_secondary_dns(r)       == Does(r, Delete("part"))
add_spla(r)                   == Does(r, Post({"token"}))
revoke_spla(r)                == Does(r, Use("token"))
release_option(r)             == Does(r, Delete("part"))
remove_from_vrack(r)          == Does(r, Delete("part"))
request_hardware_replacement(r) == Does(r, Task) \/ Rejects(r)
update_service_infos(r)       == Does(r, Put("field"))
terminate_server(r)           == Does(r, Post({"token"}))
confirm_termination(r)        == Does(r, Use("token"))

-----------------------------------------------------------------------------
(* The call at OVH.                                                        *)

Changed(op) == op.sets \cup op.drops

(* OVH carries out what r has in hand; its answer may not say so.          *)
CarriesOut(r, status) ==
  LET op   == job[r].op
      over == {last[x] : x \in Changed(op)} \ {r, NoOne}
  IN
  /\ last' = [x \in Resource |-> IF x \in Changed(op) THEN r ELSE last[x]]
  /\ parts' = (parts \cup (op.sets \cap Part)) \ op.drops
  /\ hist' = [hist EXCEPT
       !.times[r] = @ + 1,
       !.posted[r] = IF op.verb = "POST" THEN @ + 1 ELSE @,
       !.booted[r] = IF "power" \in op.sets THEN last["bootId"] ELSE @,
       !.hid = IF status = "ok" THEN @ ELSE @ \cup {r},
       !.undid = IF hist.times[r] > 0 /\ op.verb # "POST"
                   THEN @ \cup {<<r, q>> : q \in over} ELSE @]

Sending(r) == call[r].pc = "send" /\ job[r].op.verb # "GET"
Signed(r)  == call[r].client \notin drifted

(* The answer to a request that was carried out may be lost on the way.    *)
OvhActs(r) ==
  /\ Sending(r) /\ Signed(r) /\ job[r].op.drops \subseteq parts
  /\ \E s \in {"ok", "5xx", "lost"} :
       /\ CarriesOut(r, s)
       /\ _call(r, job[r].op.verb, s)
       /\ IF s = "ok" THEN Fine ELSE Fault
  /\ UNCHANGED <<job, answer, has, cache>>

(* What is not there cannot be released; anything else may be refused.     *)
OvhRefuses(r) ==
  /\ Sending(r)
  /\ \/ ~ Signed(r) /\ Fine /\ _call(r, job[r].op.verb, "signature")
     \/ /\ Signed(r) /\ ~ job[r].op.drops \subseteq parts
        /\ Fine /\ _call(r, job[r].op.verb, "absent")
     \/ /\ Signed(r) /\ Fault
        /\ \E s \in {"conflict", "5xx", "lost"} : _call(r, job[r].op.verb, s)
  /\ UNCHANGED <<job, answer, ovh, cache, hist>>

-----------------------------------------------------------------------------
(* The end of a handler.                                                   *)

(* raise_ovh_http_error: OVH's 4xx reaches the caller as one, the rest is  *)
(* a 502.                                                                  *)
raise_ovh_http_error(status) ==
  IF status \in {"absent", "forbidden", "conflict", "signature"}
    THEN "refused" ELSE "failed"

Back(r) == call[r].pc = "back" /\ call' = [call EXCEPT ![r] = [NoCall EXCEPT !.client = call[r].client]]

Succeeds(r) ==
  /\ job[r].pc = "call" /\ call[r].status = "ok" /\ ~ job[r].reboot
  /\ Back(r) /\ Ends(r, "ok")
  /\ UNCHANGED <<registry, lock, drifted, ovh, cache, hist, faults>>

Fails(r) ==
  /\ job[r].pc = "call" /\ call[r].status # "ok"
  /\ Back(r) /\ Ends(r, raise_ovh_http_error(call[r].status))
  /\ UNCHANGED <<registry, lock, drifted, ovh, cache, hist, faults>>

(* set_boot: with the boot set, the reboot.                                *)
Reboots(r) ==
  /\ job[r].pc = "call" /\ call[r].pc = "back" /\ call[r].status = "ok" /\ job[r].reboot
  /\ job' = [job EXCEPT ![r].pc = "reboot", ![r].op = Post({"power"})]
  /\ Calls(r, call[r].client)
  /\ UNCHANGED <<registry, lock, drifted, answer, ovh, cache, hist, faults>>

(* Mutant of RebootAnswered: a failed reboot is reported like any failure. *)
RebootAnsweredBare(r) ==
  /\ job[r].pc = "reboot" /\ Back(r)
  /\ Ends(r, IF call[r].status = "ok" THEN "ok" ELSE raise_ovh_http_error(call[r].status))
  /\ UNCHANGED <<registry, lock, drifted, ovh, cache, hist, faults>>

RebootAnswered(r) ==
  /\ job[r].pc = "reboot" /\ Back(r)
  /\ Ends(r, IF call[r].status = "ok" THEN "ok" ELSE "bootOnly")
  /\ UNCHANGED <<registry, lock, drifted, ovh, cache, hist, faults>>

-----------------------------------------------------------------------------
(* get_capabilities.                                                       *)

(* Probe f next, of what is left.                                          *)
Probing(todo, f, caps) ==
  [Idle EXCEPT !.pc = "probe", !.feature = f, !.todo = todo \ {f}, !.caps = caps]

(* A stored answer is good for CAPABILITY_TTL_DAYS, unless refreshed.      *)
get_capabilities(r) ==
  \/ /\ job[r].pc = "idle" /\ registry # NoOne /\ cache.age = "fresh"
     /\ Ends(r, "caps")
     /\ UNCHANGED <<clientVars, ovh, cache, hist, faults>>
  \/ \E f \in Feature : Takes(r, Probing(Feature, f, NoCaps))

Asking(r) ==
  call[r].pc = "send" /\ job[r].op.verb = "GET"

(* OVH's answer to a GET, true or none: the server has the feature, it has *)
(* not (404), or the account may not use it (403).                         *)
OvhAnswers(r) ==
  LET f == job[r].feature IN
  /\ Asking(r)
  /\ \/ /\ ~ Signed(r) /\ Fine /\ _call(r, "GET", "signature")
        /\ hist' = IF call[r].again THEN [hist EXCEPT !.barred = @ \cup {f}] ELSE hist
        /\ UNCHANGED has
     \/ /\ Signed(r) /\ Fine
        /\ \E h \in IF has[f] = "unasked" THEN {"present", "absent", "barred"}
                                        ELSE {has[f]} :
             /\ has' = [has EXCEPT ![f] = h]
             /\ _call(r, "GET", IF h = "present" THEN "ok"
                               ELSE IF h = "absent" THEN "absent" ELSE "forbidden")
        /\ UNCHANGED hist
     \/ /\ Signed(r) /\ Fault
        /\ \E s \in {"5xx", "lost"} : _call(r, "GET", s)
        /\ hist' = [hist EXCEPT !.vague = @ \cup
                                  {IF job[r].pc = "detail" THEN "detail" ELSE f}]
        /\ UNCHANGED has
  /\ UNCHANGED <<job, answer, last, parts, cache>>

(* Mutant of Verdict: whatever fails is absent.                            *)
VerdictOfFailure(status) == IF status = "ok" THEN "yes" ELSE "no"

(* _ABSENT_STATUS; a signature refused twice is a 403 like another.        *)
Verdict(status) ==
  IF status = "ok" THEN "yes"
  ELSE IF status \in {"absent", "forbidden", "signature"} THEN "no" ELSE "unknown"

(* probe_server_capabilities, from one answer to the next call, and the    *)
(* detail of a server that has IPMI.                                       *)
ProbeNext(r) ==
  LET caps == [job[r].caps EXCEPT !.of[job[r].feature] = Verdict(call[r].status)]
  IN
  /\ job[r].pc = "probe" /\ call[r].pc = "back"
  /\ \/ /\ job[r].todo # {}
        /\ \E f \in job[r].todo : job' = [job EXCEPT ![r] = Probing(job[r].todo, f, caps)]
        /\ Calls(r, call[r].client)
     \/ /\ job[r].todo = {} /\ caps.of[Ipmi] = "yes"
        /\ job' = [job EXCEPT ![r] = [Idle EXCEPT !.pc = "detail", !.caps = caps]]
        /\ Calls(r, call[r].client)
     \/ /\ job[r].todo = {} /\ caps.of[Ipmi] # "yes"
        /\ job' = [job EXCEPT ![r] = [Idle EXCEPT !.pc = "save", !.caps = caps]]
        /\ call' = [call EXCEPT ![r] = [NoCall EXCEPT !.client = call[r].client]]
  /\ UNCHANGED <<registry, lock, drifted, answer, ovh, cache, hist, faults>>

(* derive_capabilities: without the detail no console type is offered.     *)
derive_capabilities(r) ==
  /\ job[r].pc = "detail" /\ Back(r)
  /\ LET caps == [job[r].caps EXCEPT !.detail = (call[r].status = "ok")] IN
       job' = [job EXCEPT ![r] = [Idle EXCEPT !.pc = "save", !.caps = caps]]
  /\ UNCHANGED <<registry, lock, drifted, answer, ovh, cache, hist, faults>>

(* save_server_capabilities, and the answer.  A failing write is only      *)
(* logged; one whose commit failed is visible all the same.                *)
save_server_capabilities(r) ==
  /\ job[r].pc = "save" /\ Ends(r, "caps")
  /\ \/ Fine /\ cache' = [age |-> "fresh", caps |-> job[r].caps]
     \/ Fault /\ cache' = cache
  /\ UNCHANGED <<clientVars, ovh, hist>>

-----------------------------------------------------------------------------
(* The surroundings.                                                       *)

TimePasses ==
  /\ Fault
  /\ \/ ClockSteps /\ UNCHANGED cache
     \/ cache.age = "fresh" /\ cache' = [cache EXCEPT !.age = "stale"]
        /\ UNCHANGED clientVars
  /\ UNCHANGED <<job, answer, ovh, hist>>

(* The account's credentials are replaced, by ones with every right, or    *)
(* go.  The stored capabilities stay.                                      *)
CredentialsChange ==
  /\ Fault /\ reset_ovh_service
  /\ has' = [f \in Feature |-> IF has[f] = "barred" THEN "present" ELSE has[f]]
  /\ hist' = [hist EXCEPT !.barred = @ \cup {f \in Feature : has[f] = "barred"}]
  /\ UNCHANGED <<job, answer, last, parts, cache>>

Init ==
  /\ ClientInit
  /\ job = [r \in Request |-> Idle] /\ answer = [r \in Request |-> "none"]
  /\ last = [x \in Resource |-> NoOne]
  /\ parts = {"part"}
  /\ has = [f \in Feature |-> "unasked"]
  /\ cache = [age |-> "none", caps |-> NoCaps]
  /\ hist = [times |-> [r \in Request |-> 0], posted |-> [r \in Request |-> 0],
             hid |-> {},
             booted |-> [r \in Request |-> NoOne], met |-> {}, undid |-> {},
             vague |-> {}, barred |-> {}]
  /\ faults = 0

Handle(r) ==
  \/ set_boot(r) \/ reboot_server(r) \/ set_properties(r)
  \/ cancel_task(r) \/ schedule_task(r) \/ reinstall_server(r)
  \/ create_ipmi_access(r) \/ ipmi_action(r)
  \/ ola_action(r) \/ vni_action(r) \/ update_vni(r)
  \/ move_ip(r) \/ merge_ip_block(r)
  \/ create_virtual_mac(r) \/ add_virtual_mac_address(r)
  \/ remove_virtual_mac_address(r)
  \/ add_secondary_dns(r) \/ remove_secondary_dns(r)
  \/ add_spla(r) \/ revoke_spla(r) \/ release_option(r) \/ remove_from_vrack(r)
  \/ request_hardware_replacement(r) \/ update_service_infos(r)
  \/ terminate_server(r) \/ confirm_termination(r)
  \/ get_capabilities(r)

Lock(r) == Acquire(r) /\ UNCHANGED <<job, answer, ovh, cache, hist, faults>>

Next ==
  \/ \E r \in Request :
       \/ Handle(r)
       \/ Lock(r) \/ OvhActs(r) \/ OvhRefuses(r) \/ OvhAnswers(r)
       \/ Succeeds(r) \/ Fails(r) \/ Reboots(r) \/ RebootAnswered(r)
       \/ ProbeNext(r) \/ derive_capabilities(r) \/ save_server_capabilities(r)
  \/ TimePasses
  \/ CredentialsChange

Spec == Init /\ [][Next]_vars

-----------------------------------------------------------------------------
(* Properties.                                                             *)

(* No failure, time-out or clock step makes the program have one request's *)
(* POST carried out twice: not a second reboot, nor a second reinstall of  *)
(* a server that is being wiped.                                           *)
CarriedOutOnce == \A r \in Request : hist.posted[r] <= 1

(* What the caller is told is so.  A 4xx after a POST, and any error that  *)
(* was not hidden by one of OVH's own, means that nothing was done; a boot *)
(* that was set is reported although the reboot failed; and a server that  *)
(* was rebooted for a boot change came up in that boot, or in one that a   *)
(* request in progress at the same time had asked for.                     *)
AnswersAreTrue ==
  \A r \in Request :
    /\ answer[r] \in {"ok", "bootOnly"} => hist.times[r] > 0
    /\ answer[r] \in {"refused", "failed", "invalid", "unconfigured"}
         => hist.times[r] = 0 \/ r \in hist.hid
    /\ answer[r] = "refused" => hist.posted[r] = 0
    /\ job[r].reboot /\ hist.posted[r] > 0
         => hist.booted[r] = r \/ <<r, hist.booted[r]>> \in hist.met

(* A PUT or DELETE that is repeated after an error does not undo what      *)
(* another request has had done in the meantime, unless the two held       *)
(* different service objects.                                              *)
RepeatUndoesNothing ==
  \A pair \in hist.undid : call[pair[1]].client # call[pair[2]].client

(* A stored capability is OVH's answer.  A feature that the server has is  *)
(* stored as absent only if it was refused for a reason that is gone, and  *)
(* left out only if a probe got no answer: both for up to a week.          *)
CapabilityHasCause ==
  cache.age # "none" =>
    LET caps == cache.caps IN
    /\ \A f \in Feature :
         /\ caps.of[f] = "yes" => has[f] = "present"
         /\ caps.of[f] = "no" => has[f] # "present" \/ f \in hist.barred
         /\ caps.of[f] = "unknown" => f \in hist.vague
    /\ caps.of[Ipmi] = "yes" =>
         caps.detail \/ "detail" \in hist.vague \/ Ipmi \in hist.barred

=============================================================================
