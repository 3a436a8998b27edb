------------------------------ MODULE Commands ------------------------------
(***************************************************************************)
(* Command-line tools, client daemons and the manager.  Each terminal runs *)
(* the tools of its script one after the other.  A tool sends one request  *)
(* to the daemon on its machine; the daemon's only IPC thread serves the   *)
(* requests of all terminals one at a time and calls the manager over HTTP *)
(* on their behalf, with the one account that the daemon is logged in as.  *)
(*                                                                         *)
(* A call of the manager can fail in two ways: it, or its answer, is late  *)
(* or lost.  The daemon goes on after 30 s with an empty answer; the call  *)
(* may still be executed afterwards.                                       *)
(***************************************************************************)
EXTENDS CmdlineTools, ClientIPC, Naturals, FiniteSets, FiniteSetsExt

CONSTANTS
    Terms,       \* terminals
    Daemons,     \* client daemons (one for each machine)
    Users,       \* accounts
    Admins,      \* the accounts on the list of administrators
    Scripts,     \* what the terminals run: functions from Terms to sequences of commands
    Homes,       \* which daemon serves a terminal: functions from Terms to Daemons
    OldApps,     \* applications that wait from the start: a function from ids to kinds
    ListLimit,   \* rows that /users/listapply returns (5 in the code)
    MaxLost      \* bound: calls of the manager that are late or lost

ASSUME CommandsAssumption ==
    /\ Admins \subseteq Users
    /\ Homes \subseteq [Terms -> Daemons]
    /\ Users \cap {"nobody", "exited"} = {}
    /\ ListLimit \in Nat \ {0}
    /\ MaxLost \in Nat
    /\ \A s \in Scripts, t \in Terms : s[t] \in Seq([cmd : {tool.cmd : tool \in Tools},
                                                     sug : {"", "agree", "reject"}])
    /\ \A i \in DOMAIN OldApps : /\ i # <<>> /\ i \notin Terms \X Nat
                                /\ OldApps[i] \in {"usign", "zregi", "spadd", "spsiz"}

VARIABLES
    script, home,  \* chosen once: the commands of a terminal, and its daemon
    reqs,          \* reqs[t]: the requests that t has made, in order
    out,           \* out[t]: how the tools of t have ended, in order
    session,       \* session[t]: the account as which t takes itself to be logged in
    inbox,         \* inbox[d]: requests that the daemon has not taken yet
    job,           \* job[d]: the request that the daemon serves
    who,           \* who[d]: the account that the daemon is logged in as (ClientUser)
    listed,        \* listed[d]: the applications whose data it holds (apply_id_data)
    calls,         \* calls of the manager that are not executed
    apps,          \* the manager's applications
    done,          \* requests that the manager has carried out
    late,          \* requests with a call that the daemon gave up
    stray,         \* requests made under another account than their terminal's
    lost

cvars == <<script, home, reqs, out, session, inbox, job, who, listed, calls, apps,
          done, late, stray, lost>>

NoJob == [phase |-> "idle"]
Waiting(t) == Len(reqs[t]) > Len(out[t])
Req(r) == reqs[r[1]][r[2]]
Kind(r) == IF Req(r).app \in DOMAIN apps THEN apps[Req(r).app].kind ELSE ""
HandlerFor(r) == HandlerOf([cmd |-> Req(r).cmd, sug |-> Req(r).sug, kind |-> Kind(r)])

(* What the manager's handler of a route can answer; "0" of a route that   *)
(* takes an application means that it is stored.                           *)
Body(route) ==
    CASE route \in {"/users/memberID", "/zone/info", "/mconf/searchCenter", "/mconf/deleteCenter",
                    "/space/spaceusagecheck"}                  -> {"data", "fail"}
      [] route \in {"/users/adminregistration", "/users/modify", "/users/registration",
                    "/space/rename", "/mconf/addCenter"}       -> {"success", "fail"}
      [] route \in {"/resource/register", "/resource/update",
                    "/resource/delete"}                        -> {"ok", "fail"}
      [] route = "/resource/query"                             -> {"data", ""}
      [] route = "/users/login"                                -> {"0", "-1"}
      [] route = "/users/search"                               -> {"data", "-1"}
      [] route \in {"/auth/search", "/auth/modify"}            -> {"error"}   \* no such route
      [] route = "/users/cancel"                               -> {"success", "-1", "-2"}
      [] route \in {"/users/exit", "/users/adcam", "/users/aduam"} -> {"0"}
      [] route \in {"/users/listapply", "/users/adsearcham",
                    "/users/adsearchpool"}                     -> {"data", "1"}
      [] route = "/users/removeapply"                          -> {"0", "1"}
      [] OTHER                                                 -> {"0", "11"}

Applies == {"/users/bufferuserregister", "/zone/registerapply", "/zone/mapaddapply",
            "/space/changesizeapply"}
Checks == {"/users/registration", "/zone/registercheck", "/zone/mapaddcheck", "/space/changesize"}
AppKind(route) == CASE route = "/users/bufferuserregister" -> "usign"
                    [] route = "/zone/registerapply"       -> "zregi"
                    [] route = "/zone/mapaddapply"         -> "spadd"
                    [] route = "/space/changesizeapply"    -> "spsiz"
ForAdmins == {"/users/listapply", "/users/adsearcham", "/users/adsearchpool"}

Pending(kind) == [kind |-> kind, present |-> TRUE, performed |-> FALSE,
                  rejected |-> FALSE, refused |-> FALSE]

CommandsInit ==
    /\ script \in Scripts
    /\ home \in Homes
    /\ reqs = [t \in Terms |-> <<>>]
    /\ out = [t \in Terms |-> <<>>]
    /\ session = [t \in Terms |-> "nobody"]
    /\ inbox = [d \in Daemons |-> {}]
    /\ job = [d \in Daemons |-> NoJob]
    /\ who = [d \in Daemons |-> "nobody"]
    /\ listed = [d \in Daemons |-> {}]
    /\ calls = {}
    /\ apps = [a \in DOMAIN OldApps |-> Pending(OldApps[a])]
    /\ done = {}
    /\ late = {}
    /\ stray = {}
    /\ lost = 0

-----------------------------------------------------------------------------
(* The tools *)

CanStart(t) == ~Waiting(t) /\ Len(out[t]) < Len(script[t])
Typed(t) == script[t][Len(out[t]) + 1]

(* A tool ends before it sends anything if its arguments do not parse or   *)
(* do not pass its own tests.                                              *)
BadArguments(t) ==
    /\ CanStart(t)
    /\ ToolOf(Typed(t).cmd).args # {}
    /\ reqs' = [reqs EXCEPT ![t] = Append(@, [cmd |-> Typed(t).cmd, sug |-> Typed(t).sug,
                                              name |-> "", app |-> <<>>, want |-> session[t]])]
    /\ out' = [out EXCEPT ![t] = Append(@, "usage")]
    /\ UNCHANGED <<script, home, session, inbox, job, who, listed, calls, apps, done, late,
                   stray, lost>>

(* The tools that send an accountName. *)
Named == {"userlogin", "usersearch", "usermodify", "userexit", "usercancel"}

(* A terminal types the name of the account it takes itself to be logged   *)
(* in as.  An administrator can type the id of any application.            *)
Send(t, name, app) ==
    /\ CanStart(t)
    /\ (Typed(t).cmd \in Named) = (name # "")
    /\ name # "" /\ Typed(t).cmd # "userlogin" /\ session[t] \in Users => name = session[t]
    /\ (Typed(t).cmd = "suggestion") = (app # <<>>)
    /\ reqs' = [reqs EXCEPT ![t] = Append(@, [cmd |-> Typed(t).cmd, sug |-> Typed(t).sug,
                                              name |-> name, app |-> app, want |-> session[t]])]
    /\ inbox' = [inbox EXCEPT ![home[t]] = @ \cup {<<t, Len(out[t]) + 1>>}]
    /\ UNCHANGED <<script, home, out, session, job, who, listed, calls, apps, done, late,
                   stray, lost>>

(* wait_for has run out: the tool ends, the request goes on. *)
Timeout(t) ==
    /\ Waiting(t)
    /\ ToolOf(Typed(t).cmd).timed
    /\ out' = [out EXCEPT ![t] = Append(@, "timeout")]
    /\ UNCHANGED <<script, home, reqs, session, inbox, job, who, listed, calls, apps, done,
                   late, stray, lost>>

Verdict(tool, a) == IF a \in tool.index THEN "crash"
                    ELSE IF a \in tool.bad THEN "failure" ELSE "success"

(* The daemon's answer reaches the tool if it still waits for it. *)
Answered(r, a) ==
    LET t == r[1]
        v == Verdict(ToolOf(Req(r).cmd), a)
    IN  IF Len(out[t]) + 1 = r[2]
        THEN /\ out' = [out EXCEPT ![t] = Append(@, v)]
             /\ session' = [session EXCEPT ![t] =
                   IF v = "success" /\ Req(r).cmd = "userlogin" THEN Req(r).name
                   ELSE IF v = "success" /\ Req(r).cmd = "userexit" THEN "exited" ELSE @]
        ELSE UNCHANGED <<out, session>>

-----------------------------------------------------------------------------
(* The daemon *)

Steps(d) == HandlerFor(job[d].req).steps
Step(d) == Steps(d)[job[d].step]
Ended(d) == job[d].step > Len(Steps(d))

(* do_work: the asio thread takes a request that has arrived on one of the *)
(* connections and stays with it until it is answered.                     *)
Take(d, r) ==
    /\ job[d].phase = "idle"
    /\ r \in inbox[d]
    /\ inbox' = [inbox EXCEPT ![d] = @ \ {r}]
    /\ job' = [job EXCEPT ![d] = [phase |-> "run", req |-> r, step |-> 1, ans |-> ""]]
    /\ UNCHANGED <<script, home, reqs, out, session, who, listed, calls, apps, done, late,
                   stray, lost>>

(* deal_with_msg: the answer is written to the connection. *)
Finish(d, a) ==
    /\ Answered(job[d].req, a)
    /\ job' = [job EXCEPT ![d] = NoJob]

Goes(d, step) ==
    CASE step.kind = "login" -> who[d] # "nobody"
      [] step.kind = "name"  -> who[d] \in {"nobody", Req(job[d].req).name}
      [] OTHER               -> TRUE

Stops(d, step) ==
    \/ step.kind \in {"owner", "center"}
    \/ step.kind \in {"login", "name"} /\ ~Goes(d, step)

(* A local test lets the request go on, or ends it. *)
Test(d) ==
    /\ job[d].phase = "run" /\ ~Ended(d) /\ Step(d).route = ""
    /\ \/ /\ Goes(d, Step(d))
          /\ job' = [job EXCEPT ![d].step = @ + 1]
          /\ UNCHANGED <<out, session>>
       \/ Stops(d, Step(d)) /\ Finish(d, "refused")
    /\ UNCHANGED <<script, home, reqs, inbox, who, listed, calls, apps, done, late, stray, lost>>

(* post_request, get_request, delete_request.  The data of an application  *)
(* that is agreed to is what getApply finds for its id.                    *)
Call(d) ==
    LET r == job[d].req
        own == HandlerFor(r).steps[1].kind \in {"login", "name"}
    IN  /\ job[d].phase = "run" /\ ~Ended(d) /\ Step(d).route # ""
        /\ job' = [job EXCEPT ![d].phase = "wait"]
        /\ calls' = calls \cup {[daemon |-> d, req |-> r, step |-> job[d].step,
                                 route |-> Step(d).route, as |-> who[d],
                                 data |-> Req(r).app \in listed[d]]}
        /\ stray' = IF own /\ Step(d).kind = "post" /\ who[d] # Req(r).want
                    THEN stray \cup {r} ELSE stray
        /\ UNCHANGED <<script, home, reqs, out, session, inbox, who, listed, apps, done, late, lost>>

\* Mutant: douserexit leaves the account in place.
KeepsAccount(d, a, rows) ==
    /\ who' = [who EXCEPT ![d] = IF Step(d).kind = "post" /\ Req(job[d].req).cmd = "userlogin" /\ a = "0"
                                 THEN Req(job[d].req).name ELSE @]
    /\ listed' = [listed EXCEPT ![d] = rows]

(* douserlogin, douserexit and dolistapply keep something of the answer.   *)
Keeps(d, a, rows) ==
    LET r == job[d].req
        post == Step(d).kind = "post"
    IN  /\ who' = [who EXCEPT ![d] =
              IF post /\ Req(r).cmd = "userlogin" /\ a = "0" THEN Req(r).name
              ELSE IF post /\ Req(r).cmd = "userexit" /\ a = "0" THEN "exited" ELSE @]
        /\ listed' = [listed EXCEPT ![d] =
              IF post /\ Req(r).cmd = "listapply" /\ a \notin {"1", "33"} THEN rows ELSE @]

Stopped(a) == [phase |-> a]

(* What the handler does with the answer a to the call it waits for.       *)
Return(d, a, rows) ==
    LET kind == Step(d).kind
    IN  /\ Keeps(d, a, rows)
        /\ \/ /\ kind = "id" /\ a = ""            \* ownID[0] of an empty vector
              /\ job' = [job EXCEPT ![d] = Stopped("dead")]
              /\ UNCHANGED <<out, session>>
           \/ kind \in {"id", "ids"} /\ a = "fail" /\ Finish(d, NoMember(Req(job[d].req).cmd))
           \/ kind = "zone" /\ Finish(d, "error") \* no zones, or none that fits
           \/ /\ \/ kind \in {"post", "more"}
                 \/ kind = "ids" /\ a # "fail"
                 \/ kind \in {"id", "zone"} /\ a = "data"
              /\ job' = [job EXCEPT ![d] = [job[d] EXCEPT !.phase = "run", !.step = @ + 1,
                                              !.ans = IF kind = "post" THEN a ELSE @]]
              /\ UNCHANGED <<out, session>>

\* Mutant: post_request waits without a limit.
RpcForever(d) == job[d].phase = "wait" /\ UNCHANGED cvars

(* No answer within 30 s. *)
RpcTimeout(d) ==
    LET open == \E c \in calls : c.req = job[d].req /\ c.step = job[d].step
    IN  /\ job[d].phase = "wait"
        /\ Step(d).route # "/users/login"
        /\ open => lost < MaxLost
        /\ lost' = IF open THEN lost + 1 ELSE lost
        /\ late' = late \cup {job[d].req}
        /\ Return(d, "", {})
        /\ UNCHANGED <<script, home, reqs, inbox, calls, apps, done, stray>>

(* The login has no time limit, and an exception is ignored: without an    *)
(* answer the promise is never set.                                        *)
LoginLost(d) ==
    /\ job[d].phase = "wait"
    /\ Step(d).route = "/users/login"
    /\ \E c \in calls :
          /\ c.req = job[d].req /\ c.step = job[d].step
          /\ lost < MaxLost
          /\ calls' = calls \ {c}
    /\ lost' = lost + 1
    /\ job' = [job EXCEPT ![d] = Stopped("stuck")]
    /\ UNCHANGED <<script, home, reqs, out, session, inbox, who, listed, apps, done, late, stray>>

(* The handler has taken its last step: the answer goes to the tool. *)
Done(d) ==
    /\ job[d].phase = "run" /\ Ended(d)
    /\ \E a \in Reply(HandlerFor(job[d].req).how, job[d].ans) : Finish(d, a)
    /\ UNCHANGED <<script, home, reqs, inbox, who, listed, calls, apps, done, late, stray, lost>>

-----------------------------------------------------------------------------
(* The manager *)

(* An account counts as an administrator if the list can be read and has it. *)
validadminidentity(u) == IF u \in Admins THEN BOOLEAN ELSE {FALSE}

(* The answers that a call can get.  A check without the application's     *)
(* data fails; only an administrator is given the applications.            *)
AnswersTo(c) ==
    IF c.route \in ForAdmins
    THEN UNION {IF ok THEN Body(c.route) ELSE {"33"} : ok \in validadminidentity(c.as)}
    ELSE IF c.route \in Checks /\ ~c.data THEN Body(c.route) \ Good
    ELSE IF c.route = "/users/removeapply" /\ ~apps[Req(c.req).app].present THEN {"1"}
    ELSE Body(c.route)

Present == {a \in DOMAIN apps : apps[a].present}

(* The listing: any ListLimit of the applications, or all if they are fewer. *)
viewbufferList(c, a) ==
    IF c.route = "/users/listapply" /\ a = "data"
    THEN kSubset(IF Cardinality(Present) < ListLimit THEN Cardinality(Present) ELSE ListLimit,
                 Present)
    ELSE {{}}

(* A new application under a fresh id; the id of the request serves as it. *)
bufferUserRegister(id, kind) ==
    [x \in DOMAIN apps \cup {id} |-> IF x = id THEN Pending(kind) ELSE apps[x]]

removeoneofApplyInfo(app, sug) ==
    [apps EXCEPT ![app] = [apps[app] EXCEPT !.present = FALSE, !.rejected = @ \/ sug = "reject"]]

(* The effect of a call on the applications. *)
AppsAfter(c, a) ==
    LET app == Req(c.req).app
    IN  CASE c.route \in Applies /\ a = "0" -> bufferUserRegister(c.req, AppKind(c.route))
          [] c.route \in Checks ->
                 [apps EXCEPT ![app] = [apps[app] EXCEPT !.performed = @ \/ a \in Good,
                                                          !.refused = @ \/ a \notin Good]]
          [] c.route = "/users/removeapply" /\ a = "0" ->
                 removeoneofApplyInfo(app, Req(c.req).sug)
          [] OTHER -> apps

IsPost(c) == HandlerFor(c.req).steps[c.step].kind = "post"

Awaited(c) == LET j == job[c.daemon] IN j.phase = "wait" /\ j.req = c.req /\ j.step = c.step

(* The manager executes a call.  The answer reaches the daemon if it still *)
(* waits for this call, unless it is lost on the way.                      *)
Execute(c, a, rows) ==
    LET d == c.daemon
        awaited == Awaited(c)
    IN  /\ calls' = calls \ {c}
        /\ apps' = AppsAfter(c, a)
        /\ done' = IF IsPost(c) /\ a \in Good THEN done \cup {c.req} ELSE done
        /\ \/ awaited /\ Return(d, a, rows) /\ UNCHANGED lost
           \/ /\ awaited => lost < MaxLost /\ c.route # "/users/login"
              /\ lost' = IF awaited THEN lost + 1 ELSE lost
              /\ UNCHANGED <<job, out, session, who, listed>>
        /\ UNCHANGED <<script, home, reqs, inbox, late, stray>>

-----------------------------------------------------------------------------
Terminal(t) ==
    \/ BadArguments(t)
    \/ \E name \in Users \cup {""}, app \in {<<>>} \cup DOMAIN apps : Send(t, name, app)

Daemon(d) ==
    \/ \E r \in inbox[d] : Take(d, r)
    \/ Test(d)
    \/ Call(d)
    \/ Done(d)
    \/ RpcTimeout(d)

Handle(c) == \E a \in AnswersTo(c) : \E rows \in viewbufferList(c, a) : Execute(c, a, rows)
Manager == \E c \in calls : Handle(c)

AllDone ==
    /\ \A t \in Terms : Waiting(t) => /\ job[home[t]].phase \in {"stuck", "dead"}
                                      /\ ~ToolOf(Typed(t).cmd).timed
    /\ \A t \in Terms : ~CanStart(t)
    /\ \A d \in Daemons : job[d].phase # "idle" \/ inbox[d] = {}
    /\ UNCHANGED cvars

CommandsNext ==
    \/ \E t \in Terms : Terminal(t) \/ Timeout(t)
    \/ \E d \in Daemons : Daemon(d) \/ LoginLost(d)
    \/ Manager
    \/ AllDone

(* The IPC thread and the manager's threads run on; a tool's wait_for runs *)
(* out.  Nobody has to type a command, and a call that the daemon has given *)
(* up may never be executed.                                               *)
CommandsSpec ==
    /\ CommandsInit /\ [][CommandsNext]_cvars
    /\ \A d \in Daemons : WF_cvars(Daemon(d))
    /\ \A t \in Terms : WF_cvars(Timeout(t))
    /\ WF_cvars(\E c \in calls : Awaited(c) /\ Handle(c))

-----------------------------------------------------------------------------
(* Properties *)

Outcome(r) == IF r[2] <= Len(out[r[1]]) THEN out[r[1]][r[2]] ELSE "none"
Requests == UNION {{<<t, n>> : n \in 1 .. Len(reqs[t])} : t \in Terms}

(* State of the right shape; a daemon holds at most the rows of one        *)
(* listing, since dolistapply clears apply_id_data before it fills it.     *)
CommandsTypeOK ==
    /\ \A t \in Terms : /\ Len(out[t]) <= Len(reqs[t]) /\ Len(reqs[t]) <= Len(out[t]) + 1
                        /\ session[t] \in Users \cup {"nobody", "exited"}
    /\ \A d \in Daemons : /\ inbox[d] \subseteq Requests
                          /\ job[d].phase \in {"idle", "run", "wait", "stuck", "dead"}
                          /\ who[d] \in Users \cup {"nobody", "exited"}
                          /\ listed[d] \subseteq DOMAIN apps
                          /\ Cardinality(listed[d]) <= ListLimit
    /\ done \cup late \cup stray \subseteq Requests
    /\ lost \in 0 .. MaxLost

(* The answers that a tool prints as success without having read a success *)
(* in them: an empty answer read into an int without a value, or a tool    *)
(* that looks only for certain failures.                                   *)
Misread(r) ==
    /\ r \in late
    /\ HandlerFor(r).how = "int" \/ ToolOf(Req(r).cmd).bad # NotGood

Queries == {"resourcequery", "searchcenter", "spaceusage", "spaceusage_admin", "zonelist",
            "zonelist_admin", "usersearch", "listapply", "adsearcham", "adseepool"}

(* A tool that is there to change something and prints success had its     *)
(* request carried out by the manager, unless a call was given up and its  *)
(* empty answer misread.                                                   *)
SuccessUnlessMisread ==
    \A r \in Requests : Outcome(r) = "success" /\ Req(r).cmd \notin Queries
                            => r \in done \/ Misread(r)

(* A tool that prints a failure did not change anything, so that the       *)
(* command can be typed again, unless the answer came too late.            *)
FailureUnlessLate ==
    \A r \in Requests : Outcome(r) = "failure" => r \notin done \/ r \in late

(* A request that uses the daemon's account is made for the account that   *)
(* its terminal logged in as, unless another terminal uses the daemon, or  *)
(* an earlier tool of the terminal gave up or was misled about its answer. *)
OwnAccountUnlessShared ==
    \A r \in stray :
        \/ \E t \in Terms \ {r[1]} : home[t] = home[r[1]]
        \/ \E n \in 1 .. r[2] : Outcome(<<r[1], n>>) = "timeout" \/ <<r[1], n>> \in late

(* An application leaves the list because it was performed or rejected, or *)
(* because somebody agreed to it and the check failed or was given up:     *)
(* dosuggestion removes it then, too.                                      *)
NotForgottenUnlessRefused ==
    \A a \in DOMAIN apps :
        apps[a].present \/ apps[a].performed \/ apps[a].rejected \/ apps[a].refused
        \/ \E r \in late : Req(r).app = a

(* Every tool ends, unless it waits without a limit for a daemon that is   *)
(* dead, or stuck in a login.                                              *)
ToolsEnd ==
    \A t \in Terms :
        Waiting(t) ~> \/ ~Waiting(t)
                      \/ /\ job[home[t]].phase \in {"stuck", "dead"}
                         /\ ~ToolOf(Typed(t).cmd).timed

=============================================================================
