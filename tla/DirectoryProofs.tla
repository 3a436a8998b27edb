-------------------------- MODULE DirectoryProofs --------------------------
(***************************************************************************)
(* Proofs about what the manager holds for its clients, as seen from both  *)
(* sides.                                                                  *)
(*                                                                         *)
(* First, about Commands: for any terminals, daemons, users, scripts and   *)
(* lost calls, what a tool prints is what the manager did, under the       *)
(* account that it was meant for, and no application is forgotten, except  *)
(* for the causes that the properties name.                                *)
(*                                                                         *)
(* Then, about the registry and the client's list of centers: for any      *)
(* centers, proxies, resources, threads, requests and faults, the          *)
(* documents are what the requests make of them, except for the causes     *)
(* that the properties name.  The theorems are about the specification of  *)
(* Directory, which has the Registry's steps among its own.                *)
(***************************************************************************)
EXTENDS Directory, Commands, SequenceTheorems, FiniteSetTheorems, TLAPS

-----------------------------------------------------------------------------
(* The table of handlers. *)

Ans(route) == IF route \in ForAdmins THEN Body(route) \cup {"33"} ELSE Body(route)

IsTest(s) == s.kind \in {"login", "name", "owner", "center"} /\ s.route = ""
IsAsk(s) == s.kind \in {"id", "ids", "zone"} /\ s.route \in {"/users/memberID", "/zone/info"}
IsPostOf(s, route) == s.kind = "post" /\ s.route = route
IsMore(s, cmd) == /\ s.kind = "more"
                  /\ s.route \in {"/auth/search", "/zone/info", "/users/removeapply"}
                  /\ s.route = "/users/removeapply" => cmd = "suggestion"

\* The routes that are no post's.
NoPost == {"", "/users/memberID"}

\* A handler tests and asks, then calls once for the request, then may call
\* for more.
HandlerShaped(cmd, h, p, route) ==
  /\ Len(h.steps) \in Nat /\ p \in 1 .. Len(h.steps)
  /\ IsPostOf(h.steps[p], route) /\ route \notin NoPost
  /\ \A n \in 1 .. Len(h.steps) : /\ n < p => IsTest(h.steps[n]) \/ IsAsk(h.steps[n])
                                  /\ n > p => IsMore(h.steps[n], cmd)

\* What a tool prints of the answer says whether the answer was good.
Reads(tool, how, route) ==
  /\ \A a \in Ans(route) : \A x \in Reply(how, a) :
        /\ Verdict(tool, x) = "failure" => a \notin Good
        /\ Verdict(tool, x) = "success" /\ tool.cmd \notin Queries => a \in Good
        /\ tool.cmd \in {"userlogin", "userexit"} => (Verdict(tool, x) = "success" <=> a = "0")
  /\ \A x \in Reply(how, "") :
        Verdict(tool, x) = "success" /\ tool.cmd \notin Queries => how = "int" \/ tool.bad # NotGood

\* A request that is turned down before that call is no success.
TurnsDown(tool, h, p) ==
  /\ \A n \in 1 .. p - 1 :
       tool.cmd \notin Queries => /\ IsTest(h.steps[n]) => "refused" \in tool.bad
                                  /\ IsAsk(h.steps[n]) => {"error", "-1"} \subseteq tool.bad
  /\ tool.cmd \in {"userlogin", "userexit"} => \A n \in 1 .. p - 1 : ~IsAsk(h.steps[n])
  /\ tool.cmd = "userlogin" => p = 1

\* What a step is.
LEMMA StepKinds ==
  /\ IsTest(Login) /\ IsTest(Name) /\ IsTest(Owner) /\ IsTest(Center)
  /\ ~IsAsk(Login) /\ ~IsAsk(Name)
  /\ IsAsk(OwnerID) /\ IsAsk(Members) /\ IsAsk(GetZoneInfo)
BY DEF Login, Name, Owner, Center, Local, OwnerID, Members, getMemberID, GetZoneInfo, IsTest, IsAsk

LEMMA PostKind == ASSUME NEW route PROVE IsPostOf(Post(route), route)
BY DEF IsPostOf, Post

\* Handlers with a call at their end, by what they begin with.
LEMMA Plain ==
  ASSUME NEW cmd, 
         NEW route, route \notin NoPost, NEW how
  PROVE  LET h == Handler(<<Post(route)>>, how) IN HandlerShaped(cmd, h, 1, route) /\ h.how = how
<1> DEFINE h == Handler(<<Post(route)>>, how)
<1>1. h.steps = <<Post(route)>>
  BY DEF Handler
<1>2. h.how = how
  BY DEF Handler
<1> HIDE DEF h
<1>3. Len(h.steps) = 1 /\ h.steps[1] = Post(route)
  BY <1>1
<1>4. IsPostOf(h.steps[1], route)
  BY <1>3, PostKind
<1>5. HandlerShaped(cmd, h, 1, route)
  BY <1>3, <1>4, StepKinds DEF HandlerShaped
<1>6. QED  BY <1>2, <1>5 DEF h

LEMMA After ==
  ASSUME NEW cmd, NEW a, IsTest(a) \/ IsAsk(a), 
         NEW route, route \notin NoPost, NEW how
  PROVE  LET h == Handler(<<a, Post(route)>>, how) IN HandlerShaped(cmd, h, 2, route) /\ h.how = how
<1> DEFINE h == Handler(<<a, Post(route)>>, how)
<1>1. h.steps = <<a, Post(route)>>
  BY DEF Handler
<1>2. h.how = how
  BY DEF Handler
<1> HIDE DEF h
<1>3. Len(h.steps) = 2 /\ h.steps[1] = a /\ h.steps[2] = Post(route)
  BY <1>1
<1>4. IsPostOf(h.steps[2], route)
  BY <1>3, PostKind
<1>5. HandlerShaped(cmd, h, 2, route)
  BY <1>3, <1>4, StepKinds DEF HandlerShaped
<1>6. QED  BY <1>2, <1>5 DEF h

LEMMA User0 ==
  ASSUME NEW cmd, 
         NEW route, route \notin NoPost, NEW how
  PROVE  LET h == User(<<Post(route)>>, how) IN HandlerShaped(cmd, h, 2, route) /\ h.how = how
<1> DEFINE h == User(<<Post(route)>>, how)
<1>1. h.steps = <<Login>> \o <<Post(route)>>
  BY DEF User, Handler
<1>2. h.how = how
  BY DEF User, Handler
<1> HIDE DEF h
<1>3. Len(h.steps) = 2 /\ h.steps[1] = Login /\ h.steps[2] = Post(route)
  BY <1>1
<1>4. IsPostOf(h.steps[2], route)
  BY <1>3, PostKind
<1>5. HandlerShaped(cmd, h, 2, route)
  BY <1>3, <1>4, StepKinds DEF HandlerShaped
<1>6. QED  BY <1>2, <1>5 DEF h

LEMMA User1 ==
  ASSUME NEW cmd, NEW a, IsTest(a) \/ IsAsk(a), 
         NEW route, route \notin NoPost, NEW how
  PROVE  LET h == User(<<a, Post(route)>>, how) IN HandlerShaped(cmd, h, 3, route) /\ h.how = how
<1> DEFINE h == User(<<a, Post(route)>>, how)
<1>1. h.steps = <<Login>> \o <<a, Post(route)>>
  BY DEF User, Handler
<1>2. h.how = how
  BY DEF User, Handler
<1> HIDE DEF h
<1>3. Len(h.steps) = 3 /\ h.steps[1] = Login /\ h.steps[2] = a /\ h.steps[3] = Post(route)
  BY <1>1
<1>4. IsPostOf(h.steps[3], route)
  BY <1>3, PostKind
<1>5. HandlerShaped(cmd, h, 3, route)
  BY <1>3, <1>4, StepKinds DEF HandlerShaped
<1>6. QED  BY <1>2, <1>5 DEF h

LEMMA User2 ==
  ASSUME NEW cmd, NEW a, IsTest(a) \/ IsAsk(a), NEW b, IsTest(b) \/ IsAsk(b), 
         NEW route, route \notin NoPost, NEW how
  PROVE  LET h == User(<<a, b, Post(route)>>, how) IN HandlerShaped(cmd, h, 4, route) /\ h.how = how
<1> DEFINE h == User(<<a, b, Post(route)>>, how)
<1>1. h.steps = <<Login>> \o <<a, b, Post(route)>>
  BY DEF User, Handler
<1>2. h.how = how
  BY DEF User, Handler
<1> HIDE DEF h
<1>3. Len(h.steps) = 4 /\ h.steps[1] = Login /\ h.steps[2] = a /\ h.steps[3] = b /\ h.steps[4] = Post(route)
  BY <1>1
<1>4. IsPostOf(h.steps[4], route)
  BY <1>3, PostKind
<1>5. HandlerShaped(cmd, h, 4, route)
  BY <1>3, <1>4, StepKinds DEF HandlerShaped
<1>6. QED  BY <1>2, <1>5 DEF h

LEMMA Admin0 ==
  ASSUME NEW cmd, 
         NEW route, route \notin NoPost, NEW how
  PROVE  LET h == Admin(<<Post(route)>>, how) IN HandlerShaped(cmd, h, 3, route) /\ h.how = how
<1> DEFINE h == Admin(<<Post(route)>>, how)
<1>1. h.steps = <<Owner, OwnerID>> \o <<Post(route)>>
  BY DEF Admin, Handler
<1>2. h.how = how
  BY DEF Admin, Handler
<1> HIDE DEF h
<1>3. Len(h.steps) = 3 /\ h.steps[1] = Owner /\ h.steps[2] = OwnerID /\ h.steps[3] = Post(route)
  BY <1>1
<1>4. IsPostOf(h.steps[3], route)
  BY <1>3, PostKind
<1>5. HandlerShaped(cmd, h, 3, route)
  BY <1>3, <1>4, StepKinds DEF HandlerShaped
<1>6. QED  BY <1>2, <1>5 DEF h

LEMMA Admin1 ==
  ASSUME NEW cmd, NEW a, IsTest(a) \/ IsAsk(a), 
         NEW route, route \notin NoPost, NEW how
  PROVE  LET h == Admin(<<a, Post(route)>>, how) IN HandlerShaped(cmd, h, 4, route) /\ h.how = how
<1> DEFINE h == Admin(<<a, Post(route)>>, how)
<1>1. h.steps = <<Owner, OwnerID>> \o <<a, Post(route)>>
  BY DEF Admin, Handler
<1>2. h.how = how
  BY DEF Admin, Handler
<1> HIDE DEF h
<1>3. Len(h.steps) = 4 /\ h.steps[1] = Owner /\ h.steps[2] = OwnerID /\ h.steps[3] = a /\ h.steps[4] = Post(route)
  BY <1>1
<1>4. IsPostOf(h.steps[4], route)
  BY <1>3, PostKind
<1>5. HandlerShaped(cmd, h, 4, route)
  BY <1>3, <1>4, StepKinds DEF HandlerShaped
<1>6. QED  BY <1>2, <1>5 DEF h

LEMMA Admin2 ==
  ASSUME NEW cmd, NEW a, IsTest(a) \/ IsAsk(a), NEW b, IsTest(b) \/ IsAsk(b), 
         NEW route, route \notin NoPost, NEW how
  PROVE  LET h == Admin(<<a, b, Post(route)>>, how) IN HandlerShaped(cmd, h, 5, route) /\ h.how = how
<1> DEFINE h == Admin(<<a, b, Post(route)>>, how)
<1>1. h.steps = <<Owner, OwnerID>> \o <<a, b, Post(route)>>
  BY DEF Admin, Handler
<1>2. h.how = how
  BY DEF Admin, Handler
<1> HIDE DEF h
<1>3. Len(h.steps) = 5 /\ h.steps[1] = Owner /\ h.steps[2] = OwnerID /\ h.steps[3] = a /\ h.steps[4] = b /\ h.steps[5] = Post(route)
  BY <1>1
<1>4. IsPostOf(h.steps[5], route)
  BY <1>3, PostKind
<1>5. HandlerShaped(cmd, h, 5, route)
  BY <1>3, <1>4, StepKinds DEF HandlerShaped
<1>6. QED  BY <1>2, <1>5 DEF h

-----------------------------------------------------------------------------
(* How the tools read the answers. *)

LEMMA Replies ==
  /\ \A a : Reply("raw", a) = {a}
  /\ \A a \in Answers : /\ Reply("int", a) = IF a = "" THEN {"success", "error"}
                                             ELSE IF a = "0" THEN {"success"} ELSE {"error"}
                        /\ Reply("text", a) = IF a = "success" THEN {"success"} ELSE {"error"}
BY DEF Reply

LEMMA GoodOrNot ==
  /\ \A a \in NotGood : a \notin Good
  /\ {"success", "0"} \subseteq Good /\ {"error", "", "refused", "-1"} \subseteq NotGood
  /\ Answers = Good \cup NotGood
BY DEF Good, NotGood, Answers

Special == {"userlogin", "userexit"}

\* A tool that takes every answer for a failure that is not good.
LEMMA ReadsInt ==
  ASSUME NEW tool, tool.bad = NotGood, tool.index \subseteq {""}, tool.cmd \notin Special,
         NEW route, Ans(route) \subseteq Answers \ {""}, Ans(route) \cap Good \subseteq {"0"}
  PROVE  Reads(tool, "int", route)
<1>1. \A x \in {"success", "error"} : Verdict(tool, x) = IF x = "success" THEN "success" ELSE "failure"
  BY GoodOrNot DEF Verdict
<1>2. ASSUME NEW a \in Ans(route), NEW x \in Reply("int", a)
      PROVE  (Verdict(tool, x) = "success" <=> a = "0") /\ (Verdict(tool, x) = "failure" <=> a # "0")
  <2>1. x = IF a = "0" THEN "success" ELSE "error"
    BY <1>2, Replies
  <2>2. QED BY <1>1, <2>1
<1>3. QED BY <1>2, GoodOrNot DEF Reads, Special

LEMMA ReadsText ==
  ASSUME NEW tool, tool.bad = NotGood, tool.index \subseteq {""}, tool.cmd \notin Special,
         NEW route, Ans(route) \subseteq Answers, Ans(route) \cap Good \subseteq {"success"}
  PROVE  Reads(tool, "text", route)
<1>1. \A x \in {"success", "error"} : Verdict(tool, x) = IF x = "success" THEN "success" ELSE "failure"
  BY GoodOrNot DEF Verdict
<1>2. ASSUME NEW a \in Answers, NEW x \in Reply("text", a)
      PROVE  /\ Verdict(tool, x) = "success" <=> a = "success"
             /\ Verdict(tool, x) = "failure" <=> a # "success"
  <2>1. x = IF a = "success" THEN "success" ELSE "error"
    BY <1>2, Replies
  <2>2. QED BY <1>1, <2>1
<1>3. QED BY <1>2, GoodOrNot DEF Reads, Special

LEMMA ReadsRaw ==
  ASSUME NEW tool, tool.bad \subseteq NotGood, tool.cmd \notin Special, NEW route,
         Ans(route) \subseteq Good \cup tool.bad \/ tool.cmd \in Queries,
         tool.bad = NotGood => tool.index \subseteq {""}
  PROVE  Reads(tool, "raw", route)
<1>1. ASSUME NEW a, NEW x \in Reply("raw", a)  PROVE  x = a
  <2>1. Reply("raw", a) = {a}  BY Replies
  <2>2. QED BY <2>1
<1>2. \A a : Verdict(tool, a) = "failure" => a \notin Good
  BY GoodOrNot DEF Verdict
<1>3. \A a \in Ans(route) : Verdict(tool, a) = "success" /\ tool.cmd \notin Queries => a \in Good
  BY GoodOrNot DEF Verdict
<1>4. Verdict(tool, "") = "success" => tool.bad # NotGood
  BY GoodOrNot DEF Verdict
<1>5. QED BY <1>1, <1>2, <1>3, <1>4 DEF Reads, Special

-----------------------------------------------------------------------------
(* What the manager answers. *)

\* The calls whose answer is decoded into an int.
IntRoutes == {"/space/changesizeapply", "/space/replica", "/space/changesize",
              "/zone/mapaddapply", "/zone/mapaddcheck", "/zone/mapdeduct", "/zone/add",
              "/zone/cancel", "/zone/registerapply", "/zone/registercheck", "/zone/rename",
              "/zone/share", "/zone/sharecancel"}

LEMMA IntAnswers ==
  /\ \A route \in IntRoutes : Ans(route) = {"0", "11"}
  /\ Ans("/users/removeapply") = {"0", "1"}
BY DEF Ans, ForAdmins, Body, IntRoutes

LEMMA SomeAnswers ==
  /\ Ans("/space/rename") = {"success", "fail"} /\ Ans("/mconf/addCenter") = {"success", "fail"}
  /\ Ans("/mconf/deleteCenter") = {"data", "fail"} /\ Ans("/users/login") = {"0", "-1"}
  /\ Ans("/users/exit") = {"0"}
BY DEF Ans, ForAdmins, Body

LEMMA KnownAnswers == ASSUME NEW route PROVE Ans(route) \subseteq Answers
<1>1. Body(route) \subseteq Answers
  BY DEF Body, Answers, Good, NotGood
<1>2. QED  BY <1>1 DEF Ans, Answers, NotGood

LEMMA IntRoutesPost == \A route \in IntRoutes : route \notin NoPost
BY DEF IntRoutes, NoPost

LEMMA ReadsIntRoute ==
  ASSUME NEW tool, tool.bad = NotGood, tool.index \subseteq {""}, tool.cmd \notin Special,
         NEW route \in IntRoutes \cup {"/users/removeapply"}
  PROVE  Reads(tool, "int", route)
<1>1. Ans(route) \subseteq {"0", "1", "11"}
  BY IntAnswers
<1>2. Ans(route) \cap Good \subseteq {"0"} /\ Ans(route) \subseteq Answers \ {""}
  BY <1>1 DEF Good, NotGood, Answers
<1>3. QED BY <1>2, ReadsInt

-----------------------------------------------------------------------------
(* Every tool of the table fits its handler. *)

Fits(tool, h) ==
  \E p, route : /\ HandlerShaped(tool.cmd, h, p, route) /\ route # "/users/removeapply"
                /\ Reads(tool, h.how, route) /\ TurnsDown(tool, h, p)

LEMMA StrictTurnsDown ==
  ASSUME NEW tool, tool.bad = NotGood, tool.cmd \notin Special, NEW h, NEW p
  PROVE  TurnsDown(tool, h, p)
BY GoodOrNot DEF TurnsDown, Special

LEMMA FitsInt ==
  ASSUME NEW tool, tool.bad = NotGood, tool.index \subseteq {""}, tool.cmd \notin Special,
         NEW h, NEW p, NEW route \in IntRoutes,
         HandlerShaped(tool.cmd, h, p, route) /\ h.how = "int"
  PROVE  Fits(tool, h)
<1>1. route # "/users/removeapply"
  BY DEF IntRoutes
<1>2. Reads(tool, "int", route)
  BY ReadsIntRoute
<1>3. QED BY <1>1, <1>2, StrictTurnsDown DEF Fits

\* The calls whose answer goes to the tool as it is, or its "success" only.
PlainRoutes == {"/resource/delete", "/resource/register", "/resource/update", "/resource/query",
                "/mconf/searchCenter", "/mconf/deleteCenter", "/mconf/addCenter",
                "/space/rename", "/space/spaceusagecheck", "/zone/info", "/users/login",
                "/users/adcam", "/users/aduam", "/users/adsearcham", "/users/adsearchpool",
                "/users/adminregistration", "/users/listapply", "/users/cancel", "/users/exit",
                "/users/modify", "/users/search", "/users/bufferuserregister"}

LEMMA PlainRoutesPost == \A route \in PlainRoutes : route \notin NoPost /\ route # "/users/removeapply"
BY DEF PlainRoutes, NoPost

LEMMA FitsText ==
  ASSUME NEW tool, tool.bad = NotGood, tool.index = {}, tool.cmd \notin Special,
         NEW h, NEW p, HandlerShaped(tool.cmd, h, p, "/space/rename") /\ h.how = "text"
  PROVE  Fits(tool, h)
<1>1. Ans("/space/rename") \subseteq Answers /\ Ans("/space/rename") \cap Good \subseteq {"success"}
  BY SomeAnswers DEF Good, Answers, NotGood
<1>2. Reads(tool, "text", "/space/rename")
  BY <1>1, ReadsText
<1>3. QED BY <1>2, StrictTurnsDown DEF Fits

LEMMA FitsRaw ==
  ASSUME NEW tool, tool.bad = NotGood, tool.index \subseteq {""}, tool.cmd \notin Special,
         NEW h, NEW p, NEW route \in PlainRoutes,
         HandlerShaped(tool.cmd, h, p, route) /\ h.how = "raw"
  PROVE  Fits(tool, h)
<1>1. Ans(route) \subseteq Good \cup tool.bad
  BY KnownAnswers, GoodOrNot
<1>2. Reads(tool, "raw", route)
  BY <1>1, ReadsRaw
<1>3. QED BY <1>2, StrictTurnsDown, PlainRoutesPost DEF Fits

LEMMA QueriesPlain == Queries \cap Special = {}
BY DEF Queries, Special

\* A query has nothing to carry out: its tool need not be strict.
LEMMA FitsQuery ==
  ASSUME NEW tool, tool.bad \subseteq NotGood, tool.index = {}, tool.cmd \in Queries,
         NEW h, NEW p, NEW route \in PlainRoutes,
         HandlerShaped(tool.cmd, h, p, route) /\ h.how = "raw"
  PROVE  Fits(tool, h)
<1>1. tool.cmd \notin Special
  BY QueriesPlain
<1>2. Reads(tool, "raw", route)
  BY <1>1, ReadsRaw
<1>3. TurnsDown(tool, h, p)
  BY <1>1 DEF TurnsDown, Special
<1>4. QED BY <1>2, <1>3, PlainRoutesPost DEF Fits

\* A handler of one call has nothing to turn down.
LEMMA FitsLoose ==
  ASSUME NEW tool, tool.bad \subseteq NotGood, tool.bad # NotGood, tool.cmd \notin Special,
         NEW h, NEW route \in PlainRoutes, Ans(route) \subseteq Good \cup tool.bad,
         HandlerShaped(tool.cmd, h, 1, route) /\ h.how = "raw"
  PROVE  Fits(tool, h)
<1>1. Reads(tool, "raw", route)
  BY ReadsRaw
<1>2. TurnsDown(tool, h, 1)
  BY DEF TurnsDown, Special
<1>3. QED BY <1>1, <1>2, PlainRoutesPost DEF Fits

\* The tools of zones and spaces, whose answer is a code.
IntTools == {spacereplica, spacesizechange_ipc, mapadd_ipc, mapdeduct_ipc,
             mapdeduct_admin, zoneadd_admin, zonecancel_ipc, zonecancel_admin,
             zoneregister_ipc, zonerename_ipc, zonerename_admin, zoneshare_ipc,
             zoneshare_admin, zonesharecancel_ipc, zonesharecancel_admin}

LEMMA IntToolsFit == \A tool \in IntTools : Fits(tool, Dispatch[tool.cmd])
<1> TAKE tool \in IntTools
<1>1. CASE tool = spacereplica
  <2>1. tool.cmd = "spacereplica" /\ tool.bad = NotGood /\ tool.index = {}
    BY <1>1 DEF spacereplica, Tool
  <2>2. Dispatch["spacereplica"] = Handler(<<Post("/space/replica")>>, "int")
    BY DEF Dispatch, dospacereplica
  <2>3. LET h == Dispatch["spacereplica"] IN HandlerShaped("spacereplica", h, 1, "/space/replica") /\ h.how = "int"
    <3>1. "/space/replica" \notin NoPost  BY DEF NoPost
    <3>2. QED  BY <2>2, <3>1, Plain, StepKinds
  <2>4. QED BY <2>1, <2>3, FitsInt DEF IntRoutes, Special
<1>2. CASE tool = spacesizechange_ipc
  <2>1. tool.cmd = "spacesizechange" /\ tool.bad = NotGood /\ tool.index = {}
    BY <1>2 DEF spacesizechange_ipc, Tool
  <2>2. Dispatch["spacesizechange"] = User(<<GetZoneInfo, Post("/space/changesizeapply")>>, "int")
    BY DEF Dispatch, dospacesizechange
  <2>3. LET h == Dispatch["spacesizechange"] IN HandlerShaped("spacesizechange", h, 3, "/space/changesizeapply") /\ h.how = "int"
    <3>1. "/space/changesizeapply" \notin NoPost  BY DEF NoPost
    <3>2. QED  BY <2>2, <3>1, User1, StepKinds
  <2>4. QED BY <2>1, <2>3, FitsInt DEF IntRoutes, Special
<1>3. CASE tool = mapadd_ipc
  <2>1. tool.cmd = "mapadd" /\ tool.bad = NotGood /\ tool.index = {}
    BY <1>3 DEF mapadd_ipc, Tool
  <2>2. Dispatch["mapadd"] = User(<<GetZoneInfo, Center, Post("/zone/mapaddapply")>>, "int")
    BY DEF Dispatch, domapadd
  <2>3. LET h == Dispatch["mapadd"] IN HandlerShaped("mapadd", h, 4, "/zone/mapaddapply") /\ h.how = "int"
    <3>1. "/zone/mapaddapply" \notin NoPost  BY DEF NoPost
    <3>2. QED  BY <2>2, <3>1, User2, StepKinds
  <2>4. QED BY <2>1, <2>3, FitsInt DEF IntRoutes, Special
<1>4. CASE tool = mapdeduct_ipc
  <2>1. tool.cmd = "mapdeduct" /\ tool.bad = NotGood /\ tool.index = {}
    BY <1>4 DEF mapdeduct_ipc, Tool
  <2>2. Dispatch["mapdeduct"] = User(<<GetZoneInfo, Post("/zone/mapdeduct")>>, "int")
    BY DEF Dispatch, domapdeduct
  <2>3. LET h == Dispatch["mapdeduct"] IN HandlerShaped("mapdeduct", h, 3, "/zone/mapdeduct") /\ h.how = "int"
    <3>1. "/zone/mapdeduct" \notin NoPost  BY DEF NoPost
    <3>2. QED  BY <2>2, <3>1, User1, StepKinds
  <2>4. QED BY <2>1, <2>3, FitsInt DEF IntRoutes, Special
<1>5. CASE tool = mapdeduct_admin
  <2>1. tool.cmd = "mapdeduct_admin" /\ tool.bad = NotGood /\ tool.index = {}
    BY <1>5 DEF mapdeduct_admin, Tool
  <2>2. Dispatch["mapdeduct_admin"] = Admin(<<GetZoneInfo, Post("/zone/mapdeduct")>>, "int")
    BY DEF Dispatch, domapdeduct_admin
  <2>3. LET h == Dispatch["mapdeduct_admin"] IN HandlerShaped("mapdeduct_admin", h, 4, "/zone/mapdeduct") /\ h.how = "int"
    <3>1. "/zone/mapdeduct" \notin NoPost  BY DEF NoPost
    <3>2. QED  BY <2>2, <3>1, Admin1, StepKinds
  <2>4. QED BY <2>1, <2>3, FitsInt DEF IntRoutes, Special
<1>6. CASE tool = zoneadd_admin
  <2>1. tool.cmd = "zoneadd_admin" /\ tool.bad = NotGood /\ tool.index = {}
    BY <1>6 DEF zoneadd_admin, Tool
  <2>2. Dispatch["zoneadd_admin"] = Admin(<<Members, Center, Post("/zone/add")>>, "int")
    BY DEF Dispatch, dozoneadd_admin
  <2>3. LET h == Dispatch["zoneadd_admin"] IN HandlerShaped("zoneadd_admin", h, 5, "/zone/add") /\ h.how = "int"
    <3>1. "/zone/add" \notin NoPost  BY DEF NoPost
    <3>2. QED  BY <2>2, <3>1, Admin2, StepKinds
  <2>4. QED BY <2>1, <2>3, FitsInt DEF IntRoutes, Special
<1>7. CASE tool = zonecancel_ipc
  <2>1. tool.cmd = "zonecancel" /\ tool.bad = NotGood /\ tool.index = {}
    BY <1>7 DEF zonecancel_ipc, Tool
  <2>2. Dispatch["zonecancel"] = User(<<GetZoneInfo, Post("/zone/cancel")>>, "int")
    BY DEF Dispatch, dozonecancel
  <2>3. LET h == Dispatch["zonecancel"] IN HandlerShaped("zonecancel", h, 3, "/zone/cancel") /\ h.how = "int"
    <3>1. "/zone/cancel" \notin NoPost  BY DEF NoPost
    <3>2. QED  BY <2>2, <3>1, User1, StepKinds
  <2>4. QED BY <2>1, <2>3, FitsInt DEF IntRoutes, Special
<1>8. CASE tool = zonecancel_admin
  <2>1. tool.cmd = "zonecancel_admin" /\ tool.bad = NotGood /\ tool.index = {}
    BY <1>8 DEF zonecancel_admin, Tool
  <2>2. Dispatch["zonecancel_admin"] = Admin(<<GetZoneInfo, Post("/zone/cancel")>>, "int")
    BY DEF Dispatch, dozonecancel_admin
  <2>3. LET h == Dispatch["zonecancel_admin"] IN HandlerShaped("zonecancel_admin", h, 4, "/zone/cancel") /\ h.how = "int"
    <3>1. "/zone/cancel" \notin NoPost  BY DEF NoPost
    <3>2. QED  BY <2>2, <3>1, Admin1, StepKinds
  <2>4. QED BY <2>1, <2>3, FitsInt DEF IntRoutes, Special
<1>9. CASE tool = zoneregister_ipc
  <2>1. tool.cmd = "zoneregister" /\ tool.bad = NotGood /\ tool.index = {}
    BY <1>9 DEF zoneregister_ipc, Tool
  <2>2. Dispatch["zoneregister"] = User(<<Members, Center, Post("/zone/registerapply")>>, "int")
    BY DEF Dispatch, dozoneregister
  <2>3. LET h == Dispatch["zoneregister"] IN HandlerShaped("zoneregister", h, 4, "/zone/registerapply") /\ h.how = "int"
    <3>1. "/zone/registerapply" \notin NoPost  BY DEF NoPost
    <3>2. QED  BY <2>2, <3>1, User2, StepKinds
  <2>4. QED BY <2>1, <2>3, FitsInt DEF IntRoutes, Special
<1>10. CASE tool = zonerename_ipc
  <2>1. tool.cmd = "zonerename" /\ tool.bad = NotGood /\ tool.index = {}
    BY <1>10 DEF zonerename_ipc, Tool
  <2>2. Dispatch["zonerename"] = User(<<GetZoneInfo, Post("/zone/rename")>>, "int")
    BY DEF Dispatch, dozonerename
  <2>3. LET h == Dispatch["zonerename"] IN HandlerShaped("zonerename", h, 3, "/zone/rename") /\ h.how = "int"
    <3>1. "/zone/rename" \notin NoPost  BY DEF NoPost
    <3>2. QED  BY <2>2, <3>1, User1, StepKinds
  <2>4. QED BY <2>1, <2>3, FitsInt DEF IntRoutes, Special
<1>11. CASE tool = zonerename_admin
  <2>1. tool.cmd = "zonerename_admin" /\ tool.bad = NotGood /\ tool.index = {}
    BY <1>11 DEF zonerename_admin, Tool
  <2>2. Dispatch["zonerename_admin"] = Admin(<<GetZoneInfo, Post("/zone/rename")>>, "int")
    BY DEF Dispatch, dozonerename_admin
  <2>3. LET h == Dispatch["zonerename_admin"] IN HandlerShaped("zonerename_admin", h, 4, "/zone/rename") /\ h.how = "int"
    <3>1. "/zone/rename" \notin NoPost  BY DEF NoPost
    <3>2. QED  BY <2>2, <3>1, Admin1, StepKinds
  <2>4. QED BY <2>1, <2>3, FitsInt DEF IntRoutes, Special
<1>12. CASE tool = zoneshare_ipc
  <2>1. tool.cmd = "zoneshare" /\ tool.bad = NotGood /\ tool.index = {}
    BY <1>12 DEF zoneshare_ipc, Tool
  <2>2. Dispatch["zoneshare"] = User(<<Members, GetZoneInfo, Post("/zone/share")>>, "int")
    BY DEF Dispatch, dozoneshare
  <2>3. LET h == Dispatch["zoneshare"] IN HandlerShaped("zoneshare", h, 4, "/zone/share") /\ h.how = "int"
    <3>1. "/zone/share" \notin NoPost  BY DEF NoPost
    <3>2. QED  BY <2>2, <3>1, User2, StepKinds
  <2>4. QED BY <2>1, <2>3, FitsInt DEF IntRoutes, Special
<1>13. CASE tool = zoneshare_admin
  <2>1. tool.cmd = "zoneshare_admin" /\ tool.bad = NotGood /\ tool.index = {}
    BY <1>13 DEF zoneshare_admin, Tool
  <2>2. Dispatch["zoneshare_admin"] = Admin(<<Members, GetZoneInfo, Post("/zone/share")>>, "int")
    BY DEF Dispatch, dozoneshare_admin
  <2>3. LET h == Dispatch["zoneshare_admin"] IN HandlerShaped("zoneshare_admin", h, 5, "/zone/share") /\ h.how = "int"
    <3>1. "/zone/share" \notin NoPost  BY DEF NoPost
    <3>2. QED  BY <2>2, <3>1, Admin2, StepKinds
  <2>4. QED BY <2>1, <2>3, FitsInt DEF IntRoutes, Special
<1>14. CASE tool = zonesharecancel_ipc
  <2>1. tool.cmd = "zonesharecancel" /\ tool.bad = NotGood /\ tool.index = {}
    BY <1>14 DEF zonesharecancel_ipc, Tool
  <2>2. Dispatch["zonesharecancel"] = User(<<Members, GetZoneInfo, Post("/zone/sharecancel")>>, "int")
    BY DEF Dispatch, dozonesharecancel
  <2>3. LET h == Dispatch["zonesharecancel"] IN HandlerShaped("zonesharecancel", h, 4, "/zone/sharecancel") /\ h.how = "int"
    <3>1. "/zone/sharecancel" \notin NoPost  BY DEF NoPost
    <3>2. QED  BY <2>2, <3>1, User2, StepKinds
  <2>4. QED BY <2>1, <2>3, FitsInt DEF IntRoutes, Special
<1>15. CASE tool = zonesharecancel_admin
  <2>1. tool.cmd = "zonesharecancel_admin" /\ tool.bad = NotGood /\ tool.index = {}
    BY <1>15 DEF zonesharecancel_admin, Tool
  <2>2. Dispatch["zonesharecancel_admin"] = Admin(<<Members, GetZoneInfo, Post("/zone/sharecancel")>>, "int")
    BY DEF Dispatch, dozonesharecancel_admin
  <2>3. LET h == Dispatch["zonesharecancel_admin"] IN HandlerShaped("zonesharecancel_admin", h, 5, "/zone/sharecancel") /\ h.how = "int"
    <3>1. "/zone/sharecancel" \notin NoPost  BY DEF NoPost
    <3>2. QED  BY <2>2, <3>1, Admin2, StepKinds
  <2>4. QED BY <2>1, <2>3, FitsInt DEF IntRoutes, Special
<1>16. QED  BY <1>1, <1>2, <1>3, <1>4, <1>5, <1>6, <1>7, <1>8, <1>9, <1>10, <1>11, <1>12, <1>13, <1>14, <1>15 DEF IntTools

\* The tools that rename spaces.
TextTools == {spacerename_ipc, spacerename_admin}

LEMMA TextToolsFit == \A tool \in TextTools : Fits(tool, Dispatch[tool.cmd])
<1> TAKE tool \in TextTools
<1>1. CASE tool = spacerename_ipc
  <2>1. tool.cmd = "spacerename" /\ tool.bad = NotGood /\ tool.index = {}
    BY <1>1 DEF spacerename_ipc, Tool
  <2>2. Dispatch["spacerename"] = User(<<GetZoneInfo, Post("/space/rename")>>, "text")
    BY DEF Dispatch, dospacerename
  <2>3. LET h == Dispatch["spacerename"] IN HandlerShaped("spacerename", h, 3, "/space/rename") /\ h.how = "text"
    <3>1. "/space/rename" \notin NoPost  BY DEF NoPost
    <3>2. QED  BY <2>2, <3>1, User1, StepKinds
  <2>4. QED BY <2>1, <2>3, FitsText DEF Special
<1>2. CASE tool = spacerename_admin
  <2>1. tool.cmd = "spacerename_admin" /\ tool.bad = NotGood /\ tool.index = {}
    BY <1>2 DEF spacerename_admin, Tool
  <2>2. Dispatch["spacerename_admin"] = Admin(<<GetZoneInfo, Post("/space/rename")>>, "text")
    BY DEF Dispatch, dospacerename_admin
  <2>3. LET h == Dispatch["spacerename_admin"] IN HandlerShaped("spacerename_admin", h, 4, "/space/rename") /\ h.how = "text"
    <3>1. "/space/rename" \notin NoPost  BY DEF NoPost
    <3>2. QED  BY <2>2, <3>1, Admin1, StepKinds
  <2>4. QED BY <2>1, <2>3, FitsText DEF Special
<1>3. QED  BY <1>1, <1>2 DEF TextTools

\* The tools that hand on the answer and know the bad ones.
RawTools == {resourcedelete, resourceregister, resourceupdate, searchcenter,
             spaceusage_ipc, spaceusage_admin, adcreateaccountmap, aduaccountmap,
             adseepool, adminsignup, usercancel_ipc, usermodify_ipc, usersignup_ipc}

LEMMA RawToolsFit == \A tool \in RawTools : Fits(tool, Dispatch[tool.cmd])
<1> TAKE tool \in RawTools
<1>1. CASE tool = resourcedelete
  <2>1. tool.cmd = "resourcedelete" /\ tool.bad = NotGood /\ tool.index = {}
    BY <1>1 DEF resourcedelete, Tool
  <2>2. Dispatch["resourcedelete"] = Handler(<<Post("/resource/delete")>>, "raw")
    BY DEF Dispatch, doresourcedelete
  <2>3. LET h == Dispatch["resourcedelete"] IN HandlerShaped("resourcedelete", h, 1, "/resource/delete") /\ h.how = "raw"
    <3>1. "/resource/delete" \notin NoPost  BY DEF NoPost
    <3>2. QED  BY <2>2, <3>1, Plain, StepKinds
  <2>4. QED BY <2>1, <2>3, FitsRaw DEF PlainRoutes, Special
<1>2. CASE tool = resourceregister
  <2>1. tool.cmd = "resourceregister" /\ tool.bad = NotGood /\ tool.index = {}
    BY <1>2 DEF resourceregister, Tool
  <2>2. Dispatch["resourceregister"] = Handler(<<Center, Post("/resource/register")>>, "raw")
    BY DEF Dispatch, doresourceregister, doregisterupdate
  <2>3. LET h == Dispatch["resourceregister"] IN HandlerShaped("resourceregister", h, 2, "/resource/register") /\ h.how = "raw"
    <3>1. "/resource/register" \notin NoPost  BY DEF NoPost
    <3>2. QED  BY <2>2, <3>1, After, StepKinds
  <2>4. QED BY <2>1, <2>3, FitsRaw DEF PlainRoutes, Special
<1>3. CASE tool = resourceupdate
  <2>1. tool.cmd = "resourceupdate" /\ tool.bad = NotGood /\ tool.index = {}
    BY <1>3 DEF resourceupdate, Tool
  <2>2. Dispatch["resourceupdate"] = Handler(<<Center, Post("/resource/update")>>, "raw")
    BY DEF Dispatch, doresourceupdate, doregisterupdate
  <2>3. LET h == Dispatch["resourceupdate"] IN HandlerShaped("resourceupdate", h, 2, "/resource/update") /\ h.how = "raw"
    <3>1. "/resource/update" \notin NoPost  BY DEF NoPost
    <3>2. QED  BY <2>2, <3>1, After, StepKinds
  <2>4. QED BY <2>1, <2>3, FitsRaw DEF PlainRoutes, Special
<1>4. CASE tool = searchcenter
  <2>1. tool.cmd = "searchcenter" /\ tool.bad = NotGood /\ tool.index = {}
    BY <1>4 DEF searchcenter, Tool
  <2>2. Dispatch["searchcenter"] = Handler(<<Post("/mconf/searchCenter")>>, "raw")
    BY DEF Dispatch, dosearchcenter
  <2>3. LET h == Dispatch["searchcenter"] IN HandlerShaped("searchcenter", h, 1, "/mconf/searchCenter") /\ h.how = "raw"
    <3>1. "/mconf/searchCenter" \notin NoPost  BY DEF NoPost
    <3>2. QED  BY <2>2, <3>1, Plain, StepKinds
  <2>4. QED BY <2>1, <2>3, FitsRaw DEF PlainRoutes, Special
<1>5. CASE tool = spaceusage_ipc
  <2>1. tool.cmd = "spaceusage" /\ tool.bad = NotGood /\ tool.index = {""}
    BY <1>5 DEF spaceusage_ipc, Tool
  <2>2. Dispatch["spaceusage"] = User(<<GetZoneInfo, Post("/space/spaceusagecheck")>>, "raw")
    BY DEF Dispatch, dospaceusage
  <2>3. LET h == Dispatch["spaceusage"] IN HandlerShaped("spaceusage", h, 3, "/space/spaceusagecheck") /\ h.how = "raw"
    <3>1. "/space/spaceusagecheck" \notin NoPost  BY DEF NoPost
    <3>2. QED  BY <2>2, <3>1, User1, StepKinds
  <2>4. QED BY <2>1, <2>3, FitsRaw DEF PlainRoutes, Special
<1>6. CASE tool = spaceusage_admin
  <2>1. tool.cmd = "spaceusage_admin" /\ tool.bad = NotGood /\ tool.index = {""}
    BY <1>6 DEF spaceusage_admin, Tool
  <2>2. Dispatch["spaceusage_admin"] = Admin(<<GetZoneInfo, Post("/space/spaceusagecheck")>>, "raw")
    BY DEF Dispatch, dospaceusage_admin
  <2>3. LET h == Dispatch["spaceusage_admin"] IN HandlerShaped("spaceusage_admin", h, 4, "/space/spaceusagecheck") /\ h.how = "raw"
    <3>1. "/space/spaceusagecheck" \notin NoPost  BY DEF NoPost
    <3>2. QED  BY <2>2, <3>1, Admin1, StepKinds
  <2>4. QED BY <2>1, <2>3, FitsRaw DEF PlainRoutes, Special
<1>7. CASE tool = adcreateaccountmap
  <2>1. tool.cmd = "adcam" /\ tool.bad = NotGood /\ tool.index = {}
    BY <1>7 DEF adcreateaccountmap, Tool
  <2>2. Dispatch["adcam"] = Handler(<<OwnerID, Post("/users/adcam")>>, "raw")
    BY DEF Dispatch, doadcam
  <2>3. LET h == Dispatch["adcam"] IN HandlerShaped("adcam", h, 2, "/users/adcam") /\ h.how = "raw"
    <3>1. "/users/adcam" \notin NoPost  BY DEF NoPost
    <3>2. QED  BY <2>2, <3>1, After, StepKinds
  <2>4. QED BY <2>1, <2>3, FitsRaw DEF PlainRoutes, Special
<1>8. CASE tool = aduaccountmap
  <2>1. tool.cmd = "aduam" /\ tool.bad = NotGood /\ tool.index = {}
    BY <1>8 DEF aduaccountmap, Tool
  <2>2. Dispatch["aduam"] = Handler(<<OwnerID, Post("/users/aduam")>>, "raw")
    BY DEF Dispatch, doaduam
  <2>3. LET h == Dispatch["aduam"] IN HandlerShaped("aduam", h, 2, "/users/aduam") /\ h.how = "raw"
    <3>1. "/users/aduam" \notin NoPost  BY DEF NoPost
    <3>2. QED  BY <2>2, <3>1, After, StepKinds
  <2>4. QED BY <2>1, <2>3, FitsRaw DEF PlainRoutes, Special
<1>9. CASE tool = adseepool
  <2>1. tool.cmd = "adseepool" /\ tool.bad = NotGood /\ tool.index = {}
    BY <1>9 DEF adseepool, Tool
  <2>2. Dispatch["adseepool"] = Handler(<<Post("/users/adsearchpool")>>, "raw")
    BY DEF Dispatch, doadseepool
  <2>3. LET h == Dispatch["adseepool"] IN HandlerShaped("adseepool", h, 1, "/users/adsearchpool") /\ h.how = "raw"
    <3>1. "/users/adsearchpool" \notin NoPost  BY DEF NoPost
    <3>2. QED  BY <2>2, <3>1, Plain, StepKinds
  <2>4. QED BY <2>1, <2>3, FitsRaw DEF PlainRoutes, Special
<1>10. CASE tool = adminsignup
  <2>1. tool.cmd = "adminsignup" /\ tool.bad = NotGood /\ tool.index = {}
    BY <1>10 DEF adminsignup, Tool
  <2>2. Dispatch["adminsignup"] = Handler(<<Post("/users/adminregistration")>>, "raw")
    BY DEF Dispatch, doadminsignup
  <2>3. LET h == Dispatch["adminsignup"] IN HandlerShaped("adminsignup", h, 1, "/users/adminregistration") /\ h.how = "raw"
    <3>1. "/users/adminregistration" \notin NoPost  BY DEF NoPost
    <3>2. QED  BY <2>2, <3>1, Plain, StepKinds
  <2>4. QED BY <2>1, <2>3, FitsRaw DEF PlainRoutes, Special
<1>11. CASE tool = usercancel_ipc
  <2>1. tool.cmd = "usercancel" /\ tool.bad = NotGood /\ tool.index = {}
    BY <1>11 DEF usercancel_ipc, Tool
  <2>2. Dispatch["usercancel"] = Handler(<<Name, Post("/users/cancel")>>, "raw")
    BY DEF Dispatch, dousercancel
  <2>3. LET h == Dispatch["usercancel"] IN HandlerShaped("usercancel", h, 2, "/users/cancel") /\ h.how = "raw"
    <3>1. "/users/cancel" \notin NoPost  BY DEF NoPost
    <3>2. QED  BY <2>2, <3>1, After, StepKinds
  <2>4. QED BY <2>1, <2>3, FitsRaw DEF PlainRoutes, Special
<1>12. CASE tool = usermodify_ipc
  <2>1. tool.cmd = "usermodify" /\ tool.bad = NotGood /\ tool.index = {}
    BY <1>12 DEF usermodify_ipc, Tool
  <2>2. Dispatch["usermodify"] = Handler(<<Name, Post("/users/modify")>>, "raw")
    BY DEF Dispatch, dousermodify
  <2>3. LET h == Dispatch["usermodify"] IN HandlerShaped("usermodify", h, 2, "/users/modify") /\ h.how = "raw"
    <3>1. "/users/modify" \notin NoPost  BY DEF NoPost
    <3>2. QED  BY <2>2, <3>1, After, StepKinds
  <2>4. QED BY <2>1, <2>3, FitsRaw DEF PlainRoutes, Special
<1>13. CASE tool = usersignup_ipc
  <2>1. tool.cmd = "usersignup" /\ tool.bad = NotGood /\ tool.index = {}
    BY <1>13 DEF usersignup_ipc, Tool
  <2>2. Dispatch["usersignup"] = Handler(<<Post("/users/bufferuserregister")>>, "raw")
    BY DEF Dispatch, dousersignup
  <2>3. LET h == Dispatch["usersignup"] IN HandlerShaped("usersignup", h, 1, "/users/bufferuserregister") /\ h.how = "raw"
    <3>1. "/users/bufferuserregister" \notin NoPost  BY DEF NoPost
    <3>2. QED  BY <2>2, <3>1, Plain, StepKinds
  <2>4. QED BY <2>1, <2>3, FitsRaw DEF PlainRoutes, Special
<1>14. QED  BY <1>1, <1>2, <1>3, <1>4, <1>5, <1>6, <1>7, <1>8, <1>9, <1>10, <1>11, <1>12, <1>13 DEF RawTools

\* Queries whose tools print most answers as they come.
QueryTools == {resourcequery, adsearchaccountmap, listapply, usersearch_ipc, zonelist_ipc,
               zonelist_admin}

LEMMA QueryToolsFit == \A tool \in QueryTools : Fits(tool, Dispatch[tool.cmd])
<1> TAKE tool \in QueryTools
<1>1. CASE tool = resourcequery
  <2>1. tool.cmd = "resourcequery" /\ tool.bad = {""} /\ tool.index = {}
    BY <1>1 DEF resourcequery, Tool
  <2>2. Dispatch["resourcequery"] = Handler(<<Post("/resource/query")>>, "raw")
    BY DEF Dispatch, doresourcequery
  <2>3. LET h == Dispatch["resourcequery"] IN HandlerShaped("resourcequery", h, 1, "/resource/query") /\ h.how = "raw"
    <3>1. "/resource/query" \notin NoPost  BY DEF NoPost
    <3>2. QED  BY <2>2, <3>1, Plain, StepKinds
  <2>4. tool.bad \subseteq NotGood /\ tool.cmd \in Queries
    BY <2>1 DEF NotGood, Queries
  <2>5. QED BY <2>1, <2>3, <2>4, FitsQuery DEF PlainRoutes
<1>2. CASE tool = adsearchaccountmap
  <2>1. tool.cmd = "adsearcham" /\ tool.bad = {"1", "33", "-1"} /\ tool.index = {}
    BY <1>2 DEF adsearchaccountmap, Tool
  <2>2. Dispatch["adsearcham"] = Handler(<<OwnerID, Post("/users/adsearcham")>>, "raw")
    BY DEF Dispatch, doadsearcham
  <2>3. LET h == Dispatch["adsearcham"] IN HandlerShaped("adsearcham", h, 2, "/users/adsearcham") /\ h.how = "raw"
    <3>1. "/users/adsearcham" \notin NoPost  BY DEF NoPost
    <3>2. QED  BY <2>2, <3>1, After, StepKinds
  <2>4. tool.bad \subseteq NotGood /\ tool.cmd \in Queries
    BY <2>1 DEF NotGood, Queries
  <2>5. QED BY <2>1, <2>3, <2>4, FitsQuery DEF PlainRoutes
<1>3. CASE tool = listapply
  <2>1. tool.cmd = "listapply" /\ tool.bad = {"1", "33"} /\ tool.index = {}
    BY <1>3 DEF listapply, Tool
  <2>2. Dispatch["listapply"] = Handler(<<Post("/users/listapply")>>, "raw")
    BY DEF Dispatch, dolistapply
  <2>3. LET h == Dispatch["listapply"] IN HandlerShaped("listapply", h, 1, "/users/listapply") /\ h.how = "raw"
    <3>1. "/users/listapply" \notin NoPost  BY DEF NoPost
    <3>2. QED  BY <2>2, <3>1, Plain, StepKinds
  <2>4. tool.bad \subseteq NotGood /\ tool.cmd \in Queries
    BY <2>1 DEF NotGood, Queries
  <2>5. QED BY <2>1, <2>3, <2>4, FitsQuery DEF PlainRoutes
<1>4. CASE tool = usersearch_ipc
  <2>1. tool.cmd = "usersearch" /\ tool.bad = {"-1", "33", "refused"} /\ tool.index = {}
    BY <1>4 DEF usersearch_ipc, Tool
  <2>2. Dispatch["usersearch"] = Handler(<<Name, Post("/users/search")>>, "raw")
    BY DEF Dispatch, dousersearch
  <2>3. LET h == Dispatch["usersearch"] IN HandlerShaped("usersearch", h, 2, "/users/search") /\ h.how = "raw"
    <3>1. "/users/search" \notin NoPost  BY DEF NoPost
    <3>2. QED  BY <2>2, <3>1, After, StepKinds
  <2>4. tool.bad \subseteq NotGood /\ tool.cmd \in Queries
    BY <2>1 DEF NotGood, Queries
  <2>5. QED BY <2>1, <2>3, <2>4, FitsQuery DEF PlainRoutes
<1>5. CASE tool = zonelist_ipc
  <2>1. tool.cmd = "zonelist" /\ tool.bad = {"fail"} /\ tool.index = {}
    BY <1>5 DEF zonelist_ipc, Tool
  <2>2. Dispatch["zonelist"] = User(<<Post("/zone/info")>>, "raw")
    BY DEF Dispatch, dozonelist
  <2>3. LET h == Dispatch["zonelist"] IN HandlerShaped("zonelist", h, 2, "/zone/info") /\ h.how = "raw"
    <3>1. "/zone/info" \notin NoPost  BY DEF NoPost
    <3>2. QED  BY <2>2, <3>1, User0, StepKinds
  <2>4. tool.bad \subseteq NotGood /\ tool.cmd \in Queries
    BY <2>1 DEF NotGood, Queries
  <2>5. QED BY <2>1, <2>3, <2>4, FitsQuery DEF PlainRoutes
<1>6. CASE tool = zonelist_admin
  <2>1. tool.cmd = "zonelist_admin" /\ tool.bad = {"fail"} /\ tool.index = {}
    BY <1>6 DEF zonelist_admin, Tool
  <2>2. Dispatch["zonelist_admin"] = Admin(<<Post("/zone/info")>>, "raw")
    BY DEF Dispatch, dozonelist_admin
  <2>3. LET h == Dispatch["zonelist_admin"] IN HandlerShaped("zonelist_admin", h, 3, "/zone/info") /\ h.how = "raw"
    <3>1. "/zone/info" \notin NoPost  BY DEF NoPost
    <3>2. QED  BY <2>2, <3>1, Admin0, StepKinds
  <2>4. tool.bad \subseteq NotGood /\ tool.cmd \in Queries
    BY <2>1 DEF NotGood, Queries
  <2>5. QED BY <2>1, <2>3, <2>4, FitsQuery DEF PlainRoutes
<1>7. QED  BY <1>1, <1>2, <1>3, <1>4, <1>5, <1>6 DEF QueryTools

\* The tools of centers.
CenterTools == {deletecenter, modifycenter}

LEMMA CenterToolsFit == \A tool \in CenterTools : Fits(tool, Dispatch[tool.cmd])
<1> TAKE tool \in CenterTools
<1>1. CASE tool = deletecenter
  <2>1. tool.cmd = "deletecenter" /\ tool.bad = {"fail"} /\ tool.index = {}
    BY <1>1 DEF deletecenter, Tool
  <2>2. Dispatch["deletecenter"] = Handler(<<Post("/mconf/deleteCenter")>>, "raw")
    BY DEF Dispatch, dodeletecenter
  <2>3. LET h == Dispatch["deletecenter"] IN HandlerShaped("deletecenter", h, 1, "/mconf/deleteCenter") /\ h.how = "raw"
    <3>1. "/mconf/deleteCenter" \notin NoPost  BY DEF NoPost
    <3>2. QED  BY <2>2, <3>1, Plain, StepKinds
  <2>4. tool.bad \subseteq NotGood /\ tool.bad # NotGood
    BY <2>1 DEF NotGood
  <2>5. Ans("/mconf/deleteCenter") \subseteq Good \cup tool.bad
    BY <2>1, SomeAnswers DEF Good
  <2>6. QED BY <2>1, <2>3, <2>4, <2>5, FitsLoose DEF PlainRoutes, Special
<1>2. CASE tool = modifycenter
  <2>1. tool.cmd = "modifycenter" /\ tool.bad = {"fail"} /\ tool.index = {}
    BY <1>2 DEF modifycenter, Tool
  <2>2. Dispatch["modifycenter"] = Handler(<<Post("/mconf/addCenter")>>, "raw")
    BY DEF Dispatch, domodifycenter
  <2>3. LET h == Dispatch["modifycenter"] IN HandlerShaped("modifycenter", h, 1, "/mconf/addCenter") /\ h.how = "raw"
    <3>1. "/mconf/addCenter" \notin NoPost  BY DEF NoPost
    <3>2. QED  BY <2>2, <3>1, Plain, StepKinds
  <2>4. tool.bad \subseteq NotGood /\ tool.bad # NotGood
    BY <2>1 DEF NotGood
  <2>5. Ans("/mconf/addCenter") \subseteq Good \cup tool.bad
    BY <2>1, SomeAnswers DEF Good
  <2>6. QED BY <2>1, <2>3, <2>4, <2>5, FitsLoose DEF PlainRoutes, Special
<1>3. QED  BY <1>1, <1>2 DEF CenterTools

\* Login and exit change whom the daemon acts for: success is the answer "0".
LEMMA LoginFits ==
  ASSUME NEW tool, tool = userlogin_ipc
  PROVE  Fits(tool, Dispatch[tool.cmd])
<1>1. tool.cmd = "userlogin" /\ tool.bad = {"-1"} /\ tool.index = {}
  BY DEF userlogin_ipc, Tool
<1> DEFINE h == Dispatch["userlogin"]
<1>2. h = Handler(<<Post("/users/login"), More("/auth/search"), More("/zone/info")>>, "raw")
  BY DEF Dispatch, douserlogin
<1> HIDE DEF h
<1>3. h.how = "raw"
  BY <1>2 DEF Handler
<1>4. /\ Len(h.steps) = 3 /\ h.steps[1] = Post("/users/login")
      /\ h.steps[2] = More("/auth/search") /\ h.steps[3] = More("/zone/info")
  BY <1>2 DEF Handler
<1>5. IsMore(More("/auth/search"), "userlogin") /\ IsMore(More("/zone/info"), "userlogin")
  BY DEF IsMore, More
<1>6. IsPostOf(h.steps[1], "/users/login") /\ "/users/login" \notin NoPost
  BY <1>4, PostKind DEF NoPost
<1>7. HandlerShaped("userlogin", h, 1, "/users/login")
  <2>1. Len(h.steps) = 3
    BY <1>4
  <2>2. IsMore(h.steps[2], "userlogin") /\ IsMore(h.steps[3], "userlogin")
    BY <1>4, <1>5
  <2>3. QED  BY <1>6, <2>1, <2>2 DEF HandlerShaped
<1>8. Reads(tool, "raw", "/users/login")
  <2>1. \A a : Reply("raw", a) = {a}
    BY Replies
  <2>2. /\ Verdict(tool, "0") = "success" /\ Verdict(tool, "-1") = "failure"
        /\ tool.bad # NotGood
    BY <1>1 DEF Verdict, NotGood
  <2>3. Ans("/users/login") = {"0", "-1"} /\ "0" \in Good /\ "-1" \notin Good
    BY SomeAnswers DEF Good
  <2>4. Verdict(tool, "0") # "failure" /\ Verdict(tool, "-1") # "success"
    BY <2>2
  <2>5. \A a \in Ans("/users/login") : \A x \in Reply("raw", a) : x = a /\ a \in {"0", "-1"}
    BY <2>1, <2>3
  <2>6. QED  BY <1>1, <2>2, <2>3, <2>4, <2>5 DEF Reads
<1>9. TurnsDown(tool, h, 1)
  BY <1>1 DEF TurnsDown, Queries
<1>10. QED  BY <1>1, <1>3, <1>7, <1>8, <1>9 DEF Fits, h

LEMMA ExitFits ==
  ASSUME NEW tool, tool = userexit_ipc
  PROVE  Fits(tool, Dispatch[tool.cmd])
<1>1. tool.cmd = "userexit" /\ tool.bad = {"-1", "33", "refused"} /\ tool.index = {}
  BY DEF userexit_ipc, Tool
<1> DEFINE h == Dispatch["userexit"]
<1>2. h = Handler(<<Name, Post("/users/exit")>>, "raw")
  BY DEF Dispatch, douserexit
<1> HIDE DEF h
<1>3. HandlerShaped("userexit", h, 2, "/users/exit") /\ h.how = "raw"
  <2>1. "/users/exit" \notin NoPost  BY DEF NoPost
  <2>2. QED  BY <1>2, <2>1, After, StepKinds
<1>4. h.steps[1] = Name
  BY <1>2 DEF Handler
<1>5. Reads(tool, "raw", "/users/exit")
  <2>1. \A a : Reply("raw", a) = {a}
    BY Replies
  <2>2. Verdict(tool, "0") = "success" /\ tool.bad # NotGood
    <3>1. "0" \notin tool.index /\ "0" \notin tool.bad /\ "fail" \notin tool.bad
      BY <1>1
    <3>2. "fail" \in NotGood
      BY DEF NotGood
    <3>3. QED  BY <3>1, <3>2 DEF Verdict
  <2>3. "0" \in Good /\ Verdict(tool, "0") # "failure"
    BY <2>2 DEF Good
  <2>4. \A a \in Ans("/users/exit") : \A x \in Reply("raw", a) : x = a /\ a = "0"
    BY <2>1, SomeAnswers
  <2>5. \A a \in Ans("/users/exit") : \A x \in Reply("raw", a) :
           a \in Good /\ a = "0" /\ Verdict(tool, x) = "success"
    BY <2>2, <2>3, <2>4
  <2>6. \A a \in Ans("/users/exit") : \A x \in Reply("raw", a) : Verdict(tool, x) # "failure"
    BY <2>5
  <2>7. QED  BY <2>2, <2>5, <2>6 DEF Reads
<1>6. ~IsAsk(h.steps[1])
  BY <1>4, StepKinds
<1>7. TurnsDown(tool, h, 2)
  BY <1>1, <1>6 DEF TurnsDown
<1>8. QED  BY <1>1, <1>3, <1>5, <1>7 DEF Fits, h

-----------------------------------------------------------------------------
(* The handler of a request. *)

Cmds == {tool.cmd : tool \in Tools}
Kinds == {"usign", "zregi", "spadd", "spsiz"}

LEMMA ToolKnown == ASSUME NEW cmd \in Cmds PROVE ToolOf(cmd) \in Tools /\ ToolOf(cmd).cmd = cmd
<1>1. PICK tool \in Tools : tool.cmd = cmd
  BY DEF Cmds
<1>2. ToolOf(cmd) = CHOOSE x \in Tools : x.cmd = cmd
  BY DEF ToolOf, ToolTable, Cmds
<1>3. QED  BY <1>1, <1>2

LEMMA ToolClasses ==
  Tools = IntTools \cup TextTools \cup RawTools \cup QueryTools \cup CenterTools
          \cup {userlogin_ipc, userexit_ipc, suggestion}
BY DEF Tools, IntTools, TextTools, RawTools, QueryTools, CenterTools

LEMMA ToolFits ==
  ASSUME NEW tool \in Tools, tool.cmd # "suggestion"
  PROVE  Fits(tool, Dispatch[tool.cmd])
<1>1. suggestion.cmd = "suggestion"
  BY DEF suggestion, Tool
<1>2. QED
  BY <1>1, ToolClasses, IntToolsFit, TextToolsFit, RawToolsFit, QueryToolsFit, CenterToolsFit,
     LoginFits, ExitFits

\* What the proofs use of a handler h for a command: its call for the request
\* is step p, to that route.
Proper(cmd, sug, h, p, route) ==
  /\ HandlerShaped(cmd, h, p, route)
  /\ Reads(ToolOf(cmd), h.how, route)
  /\ TurnsDown(ToolOf(cmd), h, p)
  /\ route = "/users/removeapply" => cmd = "suggestion" /\ sug = "reject"
  /\ cmd = "suggestion" /\ sug # "reject" => route \in Checks

LEMMA OtherTools == \A tool \in Tools : tool.cmd = "suggestion" => tool = suggestion
<1> USE DEF Tool
<1>1. \A tool \in IntTools : tool.cmd # "suggestion"
  BY DEF IntTools, spacereplica, spacesizechange_ipc, mapadd_ipc,
         mapdeduct_ipc, mapdeduct_admin, zoneadd_admin, zonecancel_ipc,
         zonecancel_admin, zoneregister_ipc, zonerename_ipc,
         zonerename_admin, zoneshare_ipc, zoneshare_admin,
         zonesharecancel_ipc, zonesharecancel_admin
<1>2. \A tool \in TextTools : tool.cmd # "suggestion"
  BY DEF TextTools, spacerename_ipc, spacerename_admin
<1>3. \A tool \in RawTools : tool.cmd # "suggestion"
  <2>1. /\ resourcedelete.cmd # "suggestion" /\ resourceregister.cmd # "suggestion"
        /\ resourceupdate.cmd # "suggestion" /\ searchcenter.cmd # "suggestion"
        /\ spaceusage_ipc.cmd # "suggestion" /\ spaceusage_admin.cmd # "suggestion"
        /\ adcreateaccountmap.cmd # "suggestion" /\ aduaccountmap.cmd # "suggestion"
        /\ adseepool.cmd # "suggestion" /\ adminsignup.cmd # "suggestion"
        /\ usercancel_ipc.cmd # "suggestion" /\ usermodify_ipc.cmd # "suggestion"
        /\ usersignup_ipc.cmd # "suggestion"
    BY DEF resourcedelete, resourceregister, resourceupdate,
         searchcenter, spaceusage_ipc, spaceusage_admin, adcreateaccountmap,
         aduaccountmap, adseepool, adminsignup, usercancel_ipc,
         usermodify_ipc, usersignup_ipc
  <2>2. QED  BY <2>1 DEF RawTools
<1>4. \A tool \in QueryTools : tool.cmd # "suggestion"
  <2>1. /\ resourcequery.cmd # "suggestion" /\ adsearchaccountmap.cmd # "suggestion"
        /\ listapply.cmd # "suggestion" /\ usersearch_ipc.cmd # "suggestion"
        /\ zonelist_ipc.cmd # "suggestion" /\ zonelist_admin.cmd # "suggestion"
    BY DEF resourcequery, adsearchaccountmap, listapply,
         usersearch_ipc, zonelist_ipc, zonelist_admin
  <2>2. QED  BY <2>1 DEF QueryTools
<1>5. \A tool \in CenterTools : tool.cmd # "suggestion"
  BY DEF CenterTools, deletecenter, modifycenter
<1>6. userlogin_ipc.cmd # "suggestion" /\ userexit_ipc.cmd # "suggestion"
  BY DEF userlogin_ipc, userexit_ipc
<1>7. QED  BY <1>1, <1>2, <1>3, <1>4, <1>5, <1>6, ToolClasses

LEMMA SuggestionTool ==
  ToolOf("suggestion").cmd = "suggestion" /\ ToolOf("suggestion").bad = NotGood
  /\ ToolOf("suggestion").index = {}
<1> USE DEF Tool
<1>1. suggestion.cmd = "suggestion" /\ suggestion \in Tools
  BY DEF suggestion, Tools
<1>2. "suggestion" \in Cmds
  BY <1>1 DEF Cmds
<1>3. ToolOf("suggestion") = suggestion
  <2>1. ToolOf("suggestion") \in Tools /\ ToolOf("suggestion").cmd = "suggestion"
    BY <1>2, ToolKnown
  <2>2. QED  BY <2>1, OtherTools
<1>4. QED  BY <1>3 DEF suggestion

\* An application is agreed to by its check, or by its removal rejected.
LEMMA SuggestionProper ==
  ASSUME NEW sug, NEW kind \in Kinds
  PROVE  \E p, route : Proper("suggestion", sug, dosuggestion(sug, kind), p, route)
<1> DEFINE h == dosuggestion(sug, kind)
<1>1. CASE sug = "reject"
  <2>1. h = Handler(<<Post("/users/removeapply")>>, "int")
    BY <1>1 DEF dosuggestion
  <2> HIDE DEF h
  <2>2. HandlerShaped("suggestion", h, 1, "/users/removeapply") /\ h.how = "int"
    <3>1. "/users/removeapply" \notin NoPost  BY DEF NoPost
    <3>2. QED  BY <2>1, <3>1, Plain
  <2>3. Reads(ToolOf("suggestion"), "int", "/users/removeapply")
    BY SuggestionTool, ReadsIntRoute DEF Special
  <2>4. TurnsDown(ToolOf("suggestion"), h, 1)
    BY SuggestionTool, StrictTurnsDown DEF Special
  <2>5. Proper("suggestion", sug, h, 1, "/users/removeapply")
    BY <1>1, <2>2, <2>3, <2>4 DEF Proper
  <2>6. QED  BY <2>5 DEF h
<1>2. CASE sug # "reject"
  <2>1. PICK route \in Checks, how \in {"raw", "int"} :
           /\ h = Handler(<<Post(route), More("/users/removeapply")>>, how)
           /\ how = "int" => route \in IntRoutes
    BY <1>2 DEF dosuggestion, Checks, Kinds, IntRoutes
  <2> HIDE DEF h
  <2>2. h.how = how
    BY <2>1 DEF Handler
  <2>3. Len(h.steps) = 2 /\ h.steps[1] = Post(route) /\ h.steps[2] = More("/users/removeapply")
    BY <2>1 DEF Handler
  <2>4. IsMore(More("/users/removeapply"), "suggestion")
    BY DEF IsMore, More
  <2>5. IsPostOf(h.steps[1], route) /\ route \notin NoPost /\ route # "/users/removeapply"
    <3>1. IsPostOf(h.steps[1], route)  BY <2>3, PostKind
    <3>2. route \notin NoPost /\ route # "/users/removeapply"  BY DEF Checks, NoPost
    <3>3. QED  BY <3>1, <3>2
  <2>6. HandlerShaped("suggestion", h, 1, route)
    <3>1. Len(h.steps) = 2 /\ IsMore(h.steps[2], "suggestion")
      BY <2>3, <2>4
    <3>2. QED  BY <2>5, <3>1 DEF HandlerShaped
  <2>7. Reads(ToolOf("suggestion"), how, route)
    <3>1. CASE how = "int"
      BY <2>1, <3>1, SuggestionTool, ReadsIntRoute DEF Special
    <3>2. CASE how = "raw"
      <4>1. Ans(route) \subseteq Good \cup NotGood
        BY KnownAnswers, GoodOrNot
      <4>2. QED  BY <3>2, <4>1, SuggestionTool, ReadsRaw DEF Special
    <3>3. QED  BY <3>1, <3>2
  <2>8. TurnsDown(ToolOf("suggestion"), h, 1)
    BY SuggestionTool, StrictTurnsDown DEF Special
  <2>9. Proper("suggestion", sug, h, 1, route)
    BY <1>2, <2>2, <2>5, <2>6, <2>7, <2>8 DEF Proper
  <2>10. QED  BY <2>9 DEF h
<1>3. QED  BY <1>1, <1>2

\* The one call of a handler for its request.
PostAt(h) == CHOOSE p \in 1 .. Len(h.steps) : h.steps[p].kind = "post"

LEMMA OnePost ==
  ASSUME NEW cmd, NEW h, NEW p, NEW route, HandlerShaped(cmd, h, p, route)
  PROVE  /\ PostAt(h) = p
         /\ \A n \in 1 .. Len(h.steps) : h.steps[n].kind = "post" <=> n = p
<1>1. /\ \A x : IsTest(x) \/ IsAsk(x) \/ IsMore(x, cmd) => x.kind # "post"
      /\ \A x : IsPostOf(x, route) => x.kind = "post"
  BY DEF IsTest, IsAsk, IsMore, IsPostOf
<1>2. \A n \in 1 .. Len(h.steps) : h.steps[n].kind = "post" <=> n = p
  BY <1>1 DEF HandlerShaped
<1>3. p \in 1 .. Len(h.steps)
  BY DEF HandlerShaped
<1>4. QED  BY <1>2, <1>3 DEF PostAt
LEMMA HandlerProper ==
  ASSUME NEW cmd \in Cmds, NEW sug, NEW kind, cmd = "suggestion" => kind \in Kinds
  PROVE  \E p, route : Proper(cmd, sug, HandlerOf([cmd |-> cmd, sug |-> sug, kind |-> kind]), p, route)
<1>1. CASE cmd = "suggestion"
  BY <1>1, SuggestionProper DEF HandlerOf
<1>2. CASE cmd # "suggestion"
  <2>1. HandlerOf([cmd |-> cmd, sug |-> sug, kind |-> kind]) = Dispatch[cmd]
    BY <1>2 DEF HandlerOf
  <2>2. ToolOf(cmd) \in Tools /\ ToolOf(cmd).cmd = cmd
    BY ToolKnown
  <2>3. Fits(ToolOf(cmd), Dispatch[cmd])
    BY <1>2, <2>2, ToolFits
  <2>4. QED  BY <1>2, <2>1, <2>2, <2>3 DEF Fits, Proper
<1>3. QED  BY <1>1, <1>2

-----------------------------------------------------------------------------
(* The inductive invariant of the commands, by parts. *)

Accounts == Users \cup {"", "nobody", "exited"}
AppIds == DOMAIN OldApps \cup (Terms \X Nat)
Sugs == {"", "agree", "reject"}
Names == Users \cup {""}
Rec == [cmd : Cmds, sug : Sugs, name : Names,
        app : AppIds \cup {<<>>}, want : Accounts]
AppRec == [kind : Kinds, present : BOOLEAN, performed : BOOLEAN, rejected : BOOLEAN,
           refused : BOOLEAN]
Outcomes == {"usage", "timeout", "crash", "failure", "success"}
Jobs == [phase : {"run", "wait"}, req : Terms \X Nat, step : Nat, ans : Answers]
Halted == {NoJob, Stopped("stuck"), Stopped("dead")}

CommandShapes ==
  /\ \A t \in Terms : script[t] \in Seq([cmd : Cmds, sug : Sugs])
  /\ home \in [Terms -> Daemons]
  /\ reqs \in [Terms -> Seq(Rec)] /\ out \in [Terms -> Seq(Outcomes)]
  /\ \A t \in Terms : Len(out[t]) <= Len(reqs[t]) /\ Len(reqs[t]) <= Len(out[t]) + 1
  /\ session \in [Terms -> Accounts] /\ who \in [Daemons -> Accounts]
  /\ inbox \in [Daemons -> SUBSET (Terms \X Nat)]
  /\ job \in [Daemons -> Jobs \cup Halted]
  /\ apps \in [DOMAIN apps -> AppRec] /\ DOMAIN apps \subseteq AppIds
  /\ done \cup late \cup (DOMAIN apps \ DOMAIN OldApps) \subseteq Requests

Active(d) == job[d].phase \in {"run", "wait"}
Open(r) == Outcome(r) \in {"none", "timeout"}
PostStep(r) == PostAt(HandlerFor(r))
Remote(s) == s.route # ""
NoAnswer == ""
PostRoute(r) == HandlerFor(r).steps[PostStep(r)].route

\* A request that has reached its daemon.
Sent(r) == r \in Requests /\ (Req(r).cmd = "suggestion" => Req(r).app \in DOMAIN apps)
At(r, d) == Sent(r) /\ home[r[1]] = d /\ Open(r)

\* The call for it has not been executed.
Unposted(r) == r \notin done /\ r \notin DOMAIN apps

\* The check of an application that is agreed to has left its mark.
Settled(r) ==
  Req(r).cmd = "suggestion" /\ Req(r).sug # "reject" =>
     apps[Req(r).app].performed \/ apps[Req(r).app].refused \/ r \in late

\* What the answer that a handler has kept says of its request.
Kept(r, ans) ==
  /\ ans \in Good => r \in done
  /\ r \in done => ans \in Good \/ r \in late
  /\ ans \in Ans(PostRoute(r)) \/ (ans = NoAnswer /\ r \in late)
  /\ Settled(r)

Inboxes == \A d \in Daemons : \A r \in inbox[d] :
  At(r, d) /\ Unposted(r) /\ (\A c \in calls : c.req # r) /\ ~(Active(d) /\ job[d].req = r)

\* How far a handler has come: it is at step n of request r, has kept the answer a.
JobAt(d, phase, r, n, a) ==
  /\ At(r, d)
  /\ n \in 1 .. Len(HandlerFor(r).steps) + 1
  /\ phase = "wait" => n <= Len(HandlerFor(r).steps) /\ Remote(HandlerFor(r).steps[n])
  /\ n < PostStep(r) \/ (n = PostStep(r) /\ phase = "run") => Unposted(r)
  /\ n > PostStep(r) => Kept(r, a)
  /\ \A c \in calls : c.req = r => c.step < n \/ (c.step = n /\ phase = "wait")
JobOK(d) == JobAt(d, job[d].phase, job[d].req, job[d].step, job[d].ans)

CallOK(c) ==
  LET h == HandlerFor(c.req)
  IN  /\ c.daemon \in Daemons /\ Sent(c.req) /\ home[c.req[1]] = c.daemon
      /\ c.step \in 1 .. Len(h.steps) /\ c.route = h.steps[c.step].route /\ Remote(h.steps[c.step])
      /\ Awaited(c) \/ c.req \in late
      /\ c.step = PostStep(c.req) => Unposted(c.req)
      /\ c.step > PostStep(c.req) => Settled(c.req)

CallsApart == \A c1, c2 \in calls : c1.req = c2.req /\ c1.step = c2.step => c1 = c2

\* A terminal that has its daemon for itself, and whose requests were all
\* answered in time, takes itself for the account that the daemon has, or
\* will once it has the answer.
Alone(t) == \A u \in Terms \ {t} : home[u] # home[t]
Clean(t, n) == \A m \in 1 .. n : Outcome(<<t, m>>) # "timeout" /\ <<t, m>> \notin late
Becomes(account, j, q, post) ==
  IF j.step > post /\ q.cmd = "userlogin" /\ j.ans = "0" THEN q.name
  ELSE IF j.step > post /\ q.cmd = "userexit" /\ j.ans = "0" THEN "exited" ELSE account
Fitting(t, d, r) ==
  /\ Waiting(t) => Req(r).want = session[t]
  /\ job[d].phase = "idle" => who[d] = session[t]
  /\ Active(d) => /\ job[d].req = r
                  /\ who[d] = Becomes(session[t], job[d], Req(r), PostStep(r))
Own(t) ==
  Alone(t) /\ Clean(t, Len(reqs[t])) => Fitting(t, home[t], <<t, Len(reqs[t])>>)

\* What a tool has printed of a request.
Reported(r) ==
  Outcome(r) \in {"success", "failure"} =>
    /\ Sent(r)
    /\ Outcome(r) = "success" /\ Req(r).cmd \notin Queries => r \in done \/ Misread(r)
    /\ Outcome(r) = "failure" => r \notin done \/ r \in late

CommandsOK ==
  /\ CommandShapes /\ Inboxes /\ CallsApart
  /\ \A d \in Daemons : Active(d) => JobOK(d)
  /\ \A c \in calls : CallOK(c)
  /\ \A r \in Requests : Reported(r)
  /\ NotForgottenUnlessRefused
OwnOK == (\A t \in Terms : Own(t)) /\ stray \subseteq Requests /\ OwnAccountUnlessShared

-----------------------------------------------------------------------------
(* Requests and what a step leaves of them. *)

LEMMA ConstantFacts ==
  /\ \A i \in DOMAIN OldApps : i # <<>> /\ i \notin Terms \X Nat /\ OldApps[i] \in Kinds
  /\ "nobody" \notin Users /\ "exited" \notin Users
BY CommandsAssumption DEF Kinds

LEMMA RequestsAre ==
  ASSUME CommandShapes
  PROVE  /\ \A t \in Terms, n \in Nat : <<t, n>> \in Requests <=> n \in 1 .. Len(reqs[t])
         /\ \A r \in Requests : /\ r \in Terms \X Nat /\ r[1] \in Terms /\ r[2] \in Nat
                                /\ r[2] \in 1 .. Len(reqs[r[1]]) /\ r = <<r[1], r[2]>>
                                /\ Req(r) \in Rec
<1>1. \A t \in Terms : Len(reqs[t]) \in Nat /\ reqs[t] \in Seq(Rec)
  BY DEF CommandShapes
<1>2. \A r : r \in Requests <=> \E t \in Terms : \E n \in 1 .. Len(reqs[t]) : r = <<t, n>>
  BY DEF Requests
<1>3. \A t \in Terms, n \in Nat : <<t, n>> \in Requests <=> n \in 1 .. Len(reqs[t])
  BY <1>2
<1>4. ASSUME NEW r \in Requests
      PROVE  /\ r \in Terms \X Nat /\ r[1] \in Terms /\ r[2] \in Nat
             /\ r[2] \in 1 .. Len(reqs[r[1]]) /\ r = <<r[1], r[2]>>
             /\ Req(r) \in Rec
  <2>1. PICK t \in Terms : \E n \in 1 .. Len(reqs[t]) : r = <<t, n>>
    BY <1>2
  <2>. PICK n \in 1 .. Len(reqs[t]) : r = <<t, n>>
    BY <2>1
  <2>2. r[1] = t /\ r[2] = n /\ n \in Nat
    BY <1>1
  <2>3. Req(r) \in Rec
    BY <1>1, <2>2, ElementOfSeq DEF Req
  <2>4. QED  BY <2>2, <2>3
<1>5. QED  BY <1>3, <1>4

LEMMA OutcomeOf ==
  ASSUME CommandShapes, NEW t \in Terms, NEW n \in Nat
  PROVE  Outcome(<<t, n>>) = IF n <= Len(out[t]) THEN out[t][n] ELSE "none"
BY DEF Outcome

\* A request that reached its daemon has a handler of the table.
LEMMA SentProper ==
  ASSUME CommandShapes, NEW r, Sent(r)
  PROVE  /\ Proper(Req(r).cmd, Req(r).sug, HandlerFor(r), PostStep(r), PostRoute(r))
         /\ PostStep(r) \in 1 .. Len(HandlerFor(r).steps) /\ Len(HandlerFor(r).steps) \in Nat
         /\ \A n \in 1 .. Len(HandlerFor(r).steps) :
               HandlerFor(r).steps[n].kind = "post" <=> n = PostStep(r)
<1>1. Req(r) \in Rec
  BY RequestsAre DEF Sent
<1>2. Req(r).cmd \in Cmds
  BY <1>1 DEF Rec
<1>3. Req(r).cmd = "suggestion" => Kind(r) \in Kinds
  <2>1. ASSUME Req(r).cmd = "suggestion"  PROVE Kind(r) \in Kinds
    <3>1. Req(r).app \in DOMAIN apps
      BY <2>1 DEF Sent
    <3>2. apps[Req(r).app] \in AppRec
      BY <3>1 DEF CommandShapes
    <3>3. QED  BY <3>1, <3>2 DEF Kind, AppRec
  <2>2. QED  BY <2>1
<1>4. PICK p, route : Proper(Req(r).cmd, Req(r).sug, HandlerFor(r), p, route)
  BY <1>2, <1>3, HandlerProper DEF HandlerFor
<1>5. HandlerShaped(Req(r).cmd, HandlerFor(r), p, route)
  BY <1>4 DEF Proper
<1>6. PostStep(r) = p /\ \A n \in 1 .. Len(HandlerFor(r).steps) :
               HandlerFor(r).steps[n].kind = "post" <=> n = p
  BY <1>5, OnePost DEF PostStep
<1>7. PostRoute(r) = route
  <2>1. IsPostOf(HandlerFor(r).steps[p], route)
    BY <1>5 DEF HandlerShaped
  <2>2. QED  BY <1>6, <2>1 DEF PostRoute, IsPostOf
<1>8. p \in 1 .. Len(HandlerFor(r).steps) /\ Len(HandlerFor(r).steps) \in Nat
  BY <1>5 DEF HandlerShaped
<1>9. QED  BY <1>4, <1>6, <1>7, <1>8

\* What every step keeps.
AppKept(a) ==
  /\ a \in DOMAIN apps' /\ apps'[a].kind = apps[a].kind
  /\ apps[a].performed => apps'[a].performed
  /\ apps[a].refused => apps'[a].refused
Steady ==
  /\ \A r \in Requests : r \in Requests' /\ Req(r)' = Req(r)
  /\ \A a \in DOMAIN apps : AppKept(a)
  /\ late \subseteq late' /\ done \subseteq done' /\ home' = home

LEMMA HandlerStays ==
  ASSUME Steady, NEW r, Sent(r)
  PROVE  /\ Sent(r)' /\ HandlerFor(r)' = HandlerFor(r) /\ Req(r)' = Req(r)
         /\ PostStep(r)' = PostStep(r) /\ PostRoute(r)' = PostRoute(r)
<1>1. r \in Requests /\ r \in Requests' /\ Req(r)' = Req(r)
  BY DEF Sent, Steady
<1>2. CASE Req(r).cmd = "suggestion"
  <2>1. Req(r).app \in DOMAIN apps /\ AppKept(Req(r).app)
    BY <1>2 DEF Sent, Steady
  <2>2. Kind(r)' = Kind(r) /\ Sent(r)'
    BY <1>1, <1>2, <2>1 DEF Kind, AppKept, Sent
  <2>3. HandlerFor(r)' = HandlerFor(r)
    BY <1>1, <2>2 DEF HandlerFor
  <2>4. QED  BY <1>1, <2>2, <2>3 DEF PostStep, PostRoute
<1>3. CASE Req(r).cmd # "suggestion"
  <2>1. Sent(r)'
    BY <1>1, <1>3 DEF Sent
  <2>2. HandlerFor(r)' = HandlerFor(r)
    BY <1>1, <1>3 DEF HandlerFor, HandlerOf
  <2>3. QED  BY <1>1, <2>1, <2>2 DEF PostStep, PostRoute
<1>4. QED  BY <1>2, <1>3


-----------------------------------------------------------------------------
(* What a step does, and why it keeps the invariant. *)

\* A request is carried out by the execution of its call.
Posted(r) == \E c \in calls : c \notin calls' /\ c.req = r /\ c.step = PostStep(r)
Posts == \A r : /\ r \in done' => r \in done \/ Posted(r)
                /\ r \in DOMAIN apps' => r \in DOMAIN apps \/ Posted(r)
Unheard(r) == Outcome(r)' = Outcome(r) \/ (Outcome(r) = "none" /\ Outcome(r)' = "timeout")

Rests(d) == job'[d] = job[d] /\ calls' \subseteq calls
Takes(d) ==
  /\ ~Active(d) /\ calls' = calls
  /\ \E r \in inbox[d] : /\ r \notin inbox'[d]
                         /\ job'[d] = [phase |-> "run", req |-> r, step |-> 1, ans |-> NoAnswer]
Asks(d) ==
  LET r == job[d].req
      n == job[d].step
  IN  /\ job[d].phase = "run" /\ n <= Len(HandlerFor(r).steps) /\ Remote(HandlerFor(r).steps[n])
      /\ job'[d] = [phase |-> "wait", req |-> r, step |-> n, ans |-> job[d].ans]
      /\ \E c : /\ c.daemon = d /\ c.req = r /\ c.step = n /\ c.route = HandlerFor(r).steps[n].route
                /\ calls' = calls \cup {c}
KeptNext(r, a) == Kept(r, a)'
MovesTo(d, r, n, a) ==
  /\ r = job[d].req /\ n = job[d].step /\ n <= Len(HandlerFor(r).steps)
  /\ job'[d] = [phase |-> "run", req |-> r, step |-> n + 1, ans |-> a]
  /\ n >= PostStep(r) => KeptNext(r, a)
Moves(d) == \E r, n, a : MovesTo(d, r, n, a)
Proceeds(d) ==
  /\ Active(d) /\ calls' \subseteq calls
  /\ \A c \in calls' : c.daemon = d /\ Awaited(c) => c.req \in late'
  /\ ~Active(d)' \/ Moves(d)

Effect(d) ==
  /\ CommandShapes' /\ Steady /\ Posts
  /\ \A e \in Daemons \ {d} : job'[e] = job[e]
  /\ \A e \in Daemons : \A r \in inbox'[e] :
        r \in inbox[e] \/ (r \notin Requests /\ Sent(r)' /\ home[r[1]] = e /\ Open(r)')
  /\ \A r \in Requests : Unheard(r) \/ (Active(d) /\ ~Active(d)' /\ r = job[d].req /\ Reported(r)')
  /\ \A r \in Requests' : r \notin Requests => Outcome(r)' \in {"none", "usage"}
  /\ Rests(d) \/ Takes(d) \/ Asks(d) \/ Proceeds(d)
  /\ NotForgottenUnlessRefused'

LEMMA ActiveJob ==
  ASSUME CommandShapes, NEW d \in Daemons, Active(d)
  PROVE  /\ job[d] \in Jobs /\ job[d].phase \in {"run", "wait"}
         /\ job[d].step \in Nat /\ job[d].req \in Terms \X Nat
BY DEF CommandShapes, Active, Jobs, Halted, NoJob, Stopped

LEMMA SettledStays ==
  ASSUME Steady, NEW r, Sent(r), Settled(r)
  PROVE  Settled(r)'
<1>1. Req(r)' = Req(r) /\ late \subseteq late'
  BY DEF Steady, Sent
<1>2. Req(r).cmd = "suggestion" => AppKept(Req(r).app)
  BY DEF Steady, Sent
<1>3. PICK q : q = Req(r) /\ Req(r)' = q
  BY <1>1
<1>4. CASE q.cmd = "suggestion" /\ q.sug # "reject"
  <2>1. AppKept(q.app) /\ (apps[q.app].performed \/ apps[q.app].refused \/ r \in late)
    BY <1>2, <1>3, <1>4 DEF Settled
  <2>2. apps'[q.app].performed \/ apps'[q.app].refused \/ r \in late'
    BY <1>1, <2>1 DEF AppKept
  <2>3. QED  BY <1>3, <2>2 DEF Settled
<1>5. QED  BY <1>3, <1>4 DEF Settled

LEMMA UnpostedStays ==
  ASSUME Posts, NEW r, Unposted(r), \A c \in calls : c.req = r => c \in calls' \/ c.step # PostStep(r)
  PROVE  Unposted(r)'
<1>1. ~Posted(r)
  BY DEF Posted
<1>2. QED  BY <1>1 DEF Unposted, Posts

LEMMA KeptStays ==
  ASSUME Steady, Posts, NEW r, Sent(r), NEW a, Kept(r, a),
         \A c \in calls : c.req = r /\ c.step = PostStep(r) => c \in calls' \/ r \in late
  PROVE  Kept(r, a)'
<1>1. PostRoute(r)' = PostRoute(r) /\ late \subseteq late' /\ done \subseteq done'
  BY HandlerStays DEF Steady
<1>2. Settled(r)'
  BY SettledStays DEF Kept
<1>3. r \in done' => r \in done \/ r \in late
  BY DEF Posts, Posted
<1>4. QED  BY <1>1, <1>2, <1>3 DEF Kept

LEMMA AtStays ==
  ASSUME Steady, NEW r, NEW d, At(r, d), Unheard(r)
  PROVE  At(r, d)'
<1>1. Sent(r)' /\ home' = home
  BY HandlerStays DEF At, Steady
<1>2. Open(r)'
  BY DEF At, Open, Unheard
<1>3. QED  BY <1>1, <1>2 DEF At

\* The job of a daemon that does nothing.
LEMMA JobStays ==
  ASSUME Steady, Posts, CommandShapes, NEW d, NEW r, NEW n \in Nat, NEW a, NEW phase,
         job[d].phase = phase /\ job[d].req = r /\ job[d].step = n, phase \in {"run", "wait"},
         JobAt(d, phase, r, n, a), Unheard(r),
         \A c \in calls' : c.req = r => c \in calls,
         \A c \in calls : CallOK(c)
  PROVE  JobAt(d, phase, r, n, a)'
<1>1. Sent(r) /\ home[r[1]] = d
  BY DEF JobAt, At
<1>2. HandlerFor(r)' = HandlerFor(r) /\ PostStep(r)' = PostStep(r) /\ PostStep(r) \in Nat
  BY <1>1, HandlerStays, SentProper
<1>3. At(r, d)'
  BY AtStays DEF JobAt
<1>4. \A c \in calls : c.req = r => c.step < n \/ (c.step = n /\ phase = "wait")
  BY DEF JobAt
<1>5. ASSUME n < PostStep(r) \/ (n = PostStep(r) /\ phase = "run")  PROVE Unposted(r)'
  <2>1. \A c \in calls : c.req = r => c.step \in Nat
    BY <1>1, SentProper DEF CallOK
  <2>2. \A c \in calls : c.req = r => c.step # PostStep(r)
    BY <1>2, <1>4, <1>5, <2>1
  <2>3. QED  BY <1>5, <2>2, UnpostedStays DEF JobAt
<1>6. ASSUME n > PostStep(r)  PROVE Kept(r, a)'
  <2>1. \A c \in calls : c.req = r /\ c.step = PostStep(r) => r \in late
    BY <1>1, <1>2, <1>6 DEF CallOK, Awaited
  <2>2. QED  BY <1>1, <1>6, <2>1, KeptStays DEF JobAt
<1>7. QED  BY <1>2, <1>3, <1>4, <1>5, <1>6 DEF JobAt

\* The handler calls the manager.
LEMMA JobAsks ==
  ASSUME Steady, Posts, CommandShapes, NEW d \in Daemons, Active(d), JobOK(d), Asks(d),
         \A r \in Requests : Unheard(r)
  PROVE  JobOK(d)'
<1>1. PICK r, n, a : r = job[d].req /\ n = job[d].step /\ a = job[d].ans
  OBVIOUS
<1>2. n \in Nat /\ JobAt(d, "run", r, n, a) /\ Unheard(r)
  BY <1>1, ActiveJob DEF JobOK, JobAt, At, Sent, Asks
<1>3. /\ n <= Len(HandlerFor(r).steps) /\ Remote(HandlerFor(r).steps[n])
      /\ job'[d].phase = "wait" /\ job'[d].req = r /\ job'[d].step = n /\ job'[d].ans = a
  BY <1>1 DEF Asks
<1>4. PICK c : c.step = n /\ c.req = r /\ calls' = calls \cup {c}
  BY <1>1 DEF Asks
<1>5. Sent(r)
  BY <1>2 DEF JobAt, At
<1>6. HandlerFor(r)' = HandlerFor(r) /\ PostStep(r)' = PostStep(r) /\ PostStep(r) \in Nat
  BY <1>5, HandlerStays, SentProper
<1>7. At(r, d)'
  BY <1>2, AtStays DEF JobAt
<1>8. n < PostStep(r) => Unposted(r)'
  BY <1>2, <1>4, UnpostedStays DEF JobAt
<1>9. n > PostStep(r) => Kept(r, a)'
  BY <1>2, <1>4, <1>5, KeptStays DEF JobAt
<1>10. \A e \in calls' : e.req = r => e.step < n \/ e.step = n
  BY <1>2, <1>4 DEF JobAt
<1>11. JobAt(d, "wait", r, n, a)'
  BY <1>2, <1>3, <1>6, <1>7, <1>8, <1>9, <1>10 DEF JobAt
<1>12. QED  BY <1>3, <1>11 DEF JobOK

\* The handler goes on to its next step.
LEMMA JobMoves ==
  ASSUME Steady, Posts, CommandShapes, NEW d \in Daemons, Active(d), JobOK(d), Moves(d),
         calls' \subseteq calls, (\A r \in Requests : Unheard(r)), \A c \in calls : CallOK(c)
  PROVE  JobOK(d)'
<1>13. PICK r, n, a : MovesTo(d, r, n, a)
  BY DEF Moves
<1>1. /\ r = job[d].req /\ n = job[d].step /\ n <= Len(HandlerFor(r).steps)
      /\ job'[d] = [phase |-> "run", req |-> r, step |-> n + 1, ans |-> a]
      /\ n >= PostStep(r) => KeptNext(r, a)
  BY <1>13 DEF MovesTo
<1>0. PICK phase, b : phase = job[d].phase /\ b = job[d].ans
  OBVIOUS
<1>2. n \in Nat /\ JobAt(d, phase, r, n, b) /\ Unheard(r) /\ phase \in {"run", "wait"}
  <2>1. JobAt(d, phase, r, n, b)
    BY <1>1, <1>0 DEF JobOK
  <2>2. r \in Requests
    BY <2>1 DEF JobAt, At, Sent
  <2>3. QED  BY <1>1, <1>0, <2>1, <2>2, ActiveJob
<1>5. Sent(r) /\ Len(HandlerFor(r).steps) \in Nat
  BY <1>2, SentProper DEF JobAt, At
<1>6. HandlerFor(r)' = HandlerFor(r) /\ PostStep(r)' = PostStep(r) /\ PostStep(r) \in Nat
  BY <1>5, HandlerStays, SentProper
<1>7. At(r, d)'
  BY <1>2, AtStays DEF JobAt
<1>8. \A c \in calls : c.req = r => c.step \in Nat /\ c.step <= n
  <2>1. \A c \in calls : c.req = r => c.step \in Nat
    BY <1>5, SentProper DEF CallOK
  <2>2. QED  BY <1>2, <2>1 DEF JobAt
<1>9. n + 1 <= PostStep(r) => Unposted(r)'
  BY <1>2, <1>6, <1>8, UnpostedStays DEF JobAt
<1>10. n + 1 > PostStep(r) => Kept(r, a)'
  BY <1>1, <1>2, <1>6 DEF KeptNext
<1>11. JobAt(d, "run", r, n + 1, a)'
  BY <1>1, <1>2, <1>5, <1>6, <1>7, <1>8, <1>9, <1>10 DEF JobAt
<1>12. QED  BY <1>1, <1>11 DEF JobOK

\* The daemon takes a request.
LEMMA JobTakes ==
  ASSUME Steady, Posts, CommandShapes, NEW d \in Daemons, Takes(d), Inboxes,
         \A r \in Requests : Unheard(r)
  PROVE  JobOK(d)'
<1>1. PICK r \in inbox[d] : job'[d] = [phase |-> "run", req |-> r, step |-> 1, ans |-> NoAnswer]
  BY DEF Takes
<1>2. At(r, d) /\ Unposted(r) /\ \A c \in calls : c.req # r
  BY DEF Inboxes
<1>3. Sent(r) /\ r \in Requests
  BY <1>2 DEF At, Sent
<1>4. /\ HandlerFor(r)' = HandlerFor(r) /\ PostStep(r)' = PostStep(r)
      /\ PostStep(r) \in 1 .. Len(HandlerFor(r).steps) /\ Len(HandlerFor(r).steps) \in Nat
  BY <1>3, HandlerStays, SentProper
<1>5. At(r, d)'
  BY <1>2, <1>3, AtStays
<1>6. Unposted(r)'
  BY <1>2, UnpostedStays
<1>7. calls' = calls
  BY DEF Takes
<1>8. JobAt(d, "run", r, 1, NoAnswer)'
  BY <1>2, <1>4, <1>5, <1>6, <1>7 DEF JobAt
<1>9. QED  BY <1>1, <1>8 DEF JobOK

LEMMA JobsKept ==
  ASSUME CommandsOK, NEW d \in Daemons, Effect(d), NEW e \in Daemons, Active(e)'
  PROVE  JobOK(e)'
<1>1. CommandShapes /\ Inboxes /\ (\A c \in calls : CallOK(c)) /\ (Active(e) => JobOK(e))
  BY DEF CommandsOK
<1>2. Steady /\ Posts
  BY DEF Effect
<1>3. ASSUME Active(e)  PROVE job[e].req \in Requests
  BY <1>1, <1>3 DEF JobOK, JobAt, At, Sent
<1>4. ASSUME Active(e), job'[e] = job[e], \A c \in calls' : c.req = job[e].req => c \in calls
      PROVE  JobOK(e)'
  <2>1. PICK r, n, a, phase : r = job[e].req /\ n = job[e].step /\ a = job[e].ans /\ phase = job[e].phase
    OBVIOUS
  <2>2. Unheard(r)
    <3>1. Unheard(r) \/ (Active(d) /\ ~Active(d)' /\ r = job[d].req)
      BY <1>3, <1>4, <2>1 DEF Effect
    <3>2. ASSUME Active(d), ~Active(d)', r = job[d].req  PROVE FALSE
      <4>1. JobOK(d) /\ JobOK(e)
        BY <1>1, <1>4, <3>2 DEF CommandsOK
      <4>2. home[r[1]] = d /\ home[r[1]] = e
        BY <2>1, <3>2, <4>1 DEF JobOK, JobAt, At
      <4>3. QED  BY <1>4, <3>2, <4>2 DEF Active
    <3>3. QED  BY <3>1, <3>2
  <2>3. n \in Nat /\ phase \in {"run", "wait"} /\ JobAt(e, phase, r, n, a)
    BY <1>1, <1>4, <2>1, ActiveJob DEF JobOK
  <2>4. JobAt(e, phase, r, n, a)'
    BY <1>1, <1>2, <1>4, <2>1, <2>2, <2>3, JobStays
  <2>5. QED  BY <1>4, <2>1, <2>4 DEF JobOK
<1>5. CASE e = d
  <2>1. ASSUME Active(d)'  PROVE \A r \in Requests : Unheard(r)
    BY <2>1 DEF Effect
  <2>2. CASE Rests(d)
    <3>1. Active(d)
      BY <1>5, <2>2 DEF Rests, Active
    <3>2. QED  BY <1>4, <1>5, <2>2, <3>1 DEF Rests
  <2>3. CASE Takes(d)
    BY <1>1, <1>2, <1>5, <2>1, <2>3, JobTakes
  <2>4. CASE Asks(d)
    <3>1. Active(d)
      BY <2>4 DEF Asks, Active
    <3>2. QED  BY <1>1, <1>2, <1>3, <1>5, <2>1, <2>4, <3>1, JobAsks
  <2>5. CASE Proceeds(d)
    BY <1>1, <1>2, <1>3, <1>5, <2>1, <2>5, JobMoves DEF Proceeds
  <2>6. QED  BY <2>2, <2>3, <2>4, <2>5 DEF Effect
<1>6. CASE e # d
  <2>1. job'[e] = job[e] /\ Active(e)
    BY <1>6 DEF Effect, Active
  <2>2. CASE calls' \subseteq calls
    BY <1>4, <2>1, <2>2
  <2>3. CASE Asks(d)
    <3>1. PICK c : c.req = job[d].req /\ calls' = calls \cup {c}
      BY <2>3 DEF Asks
    <3>2. JobOK(d) /\ JobOK(e)
      BY <1>1, <2>1, <2>3 DEF CommandsOK, Asks, Active
    <3>3. job[d].req # job[e].req
      BY <1>6, <3>2 DEF JobOK, JobAt, At
    <3>4. QED  BY <1>4, <2>1, <3>1, <3>3
  <2>4. QED  BY <2>2, <2>3 DEF Effect, Rests, Takes, Proceeds
<1>7. QED  BY <1>5, <1>6

\* A call that is not executed.
LEMMA CallStays ==
  ASSUME Steady, Posts, CommandShapes, NEW c \in calls, c \in calls', CallOK(c), CallsApart,
         Awaited(c) => Awaited(c)' \/ c.req \in late'
  PROVE  CallOK(c)'
<1>1. PICK r, n, d : r = c.req /\ n = c.step /\ d = c.daemon
  OBVIOUS
<1>2. Sent(r) /\ home' = home /\ late \subseteq late'
  BY <1>1 DEF CallOK, Steady
<1>3. HandlerFor(r)' = HandlerFor(r) /\ PostStep(r)' = PostStep(r) /\ Sent(r)'
  BY <1>2, HandlerStays
<1>4. n = PostStep(r) => Unposted(r)'
  BY <1>1, UnpostedStays DEF CallOK, CallsApart
<1>5. n > PostStep(r) => Settled(r)'
  BY <1>1, <1>2, SettledStays DEF CallOK
<1>6. QED  BY <1>1, <1>2, <1>3, <1>4, <1>5 DEF CallOK

LEMMA CallsKept ==
  ASSUME CommandsOK, NEW d \in Daemons, Effect(d), NEW c \in calls'
  PROVE  CallOK(c)'
<1>1. CommandShapes /\ CallsApart /\ (\A x \in calls : CallOK(x)) /\ (Active(d) => JobOK(d))
  BY DEF CommandsOK
<1>2. Steady /\ Posts
  BY DEF Effect
<1>3. CASE c \in calls
  <2>1. ASSUME Awaited(c)  PROVE Awaited(c)' \/ c.req \in late'
    <3>1. Active(c.daemon) /\ c.daemon \in Daemons
      BY <1>1, <1>3, <2>1 DEF Awaited, Active, CallOK
    <3>2. ASSUME job'[c.daemon] = job[c.daemon]  PROVE Awaited(c)'
      BY <2>1, <3>2 DEF Awaited
    <3>3. ASSUME c.daemon = d  PROVE Awaited(c)' \/ c.req \in late'
      <4>1. ~Takes(d)
        BY <3>1, <3>3 DEF Takes
      <4>2. ~Asks(d)
        BY <2>1, <3>3 DEF Asks, Awaited
      <4>3. Rests(d) => Awaited(c)'
        BY <3>2, <3>3 DEF Rests
      <4>4. Proceeds(d) => c.req \in late'
        BY <2>1, <3>3 DEF Proceeds
      <4>5. QED  BY <4>1, <4>2, <4>3, <4>4 DEF Effect
    <3>4. QED  BY <3>1, <3>2, <3>3 DEF Effect
  <2>2. QED  BY <1>1, <1>2, <1>3, <2>1, CallStays
<1>4. CASE c \notin calls
  <2>1. Asks(d)
    BY <1>4 DEF Effect, Rests, Takes, Proceeds
  <2>2. PICK r, n, a : r = job[d].req /\ n = job[d].step /\ a = job[d].ans
    OBVIOUS
  <2>3. /\ c.daemon = d /\ c.req = r /\ c.step = n /\ c.route = HandlerFor(r).steps[n].route
        /\ Remote(HandlerFor(r).steps[n]) /\ n <= Len(HandlerFor(r).steps)
        /\ job'[d] = [phase |-> "wait", req |-> r, step |-> n, ans |-> a]
    BY <1>4, <2>1, <2>2 DEF Asks
  <2>4. Active(d)' /\ Awaited(c)'
    BY <2>3 DEF Active, Awaited
  <2>5. JobAt(d, "run", r, n, a) /\ JobOK(d)' /\ calls \subseteq calls'
    BY <1>1, <2>1, <2>2, <2>4, JobsKept DEF Asks, Active, JobOK
  <2>6. JobAt(d, "wait", r, n, a)'
    BY <2>3, <2>5 DEF JobOK
  <2>7. Sent(r)' /\ home'[r[1]] = d /\ Sent(r)
    BY <2>5, <2>6 DEF JobAt, At
  <2>8. HandlerFor(r)' = HandlerFor(r) /\ PostStep(r)' = PostStep(r)
    BY <1>2, <2>7, HandlerStays
  <2>9. n = PostStep(r) => Unposted(r)'
    <3>1. \A x \in calls : x.req = r => x \in calls'
      BY <2>5
    <3>2. n = PostStep(r) => Unposted(r)
      BY <2>5 DEF JobAt
    <3>3. QED  BY <1>2, <3>1, <3>2, UnpostedStays
  <2>10. n > PostStep(r) => Settled(r)'
    BY <2>6, <2>8 DEF JobAt, Kept
  <2>11. n \in 1 .. Len(HandlerFor(r).steps)
    BY <2>3, <2>5, <2>7, SentProper, <1>1 DEF JobAt
  <2>12. QED  BY <2>3, <2>4, <2>7, <2>8, <2>9, <2>10, <2>11 DEF CallOK
<1>5. QED  BY <1>3, <1>4

LEMMA ApartKept ==
  ASSUME CommandsOK, NEW d \in Daemons, Effect(d)
  PROVE  CallsApart'
<1>1. CallsApart
  BY DEF CommandsOK
<1>2. CASE calls' \subseteq calls
  BY <1>1, <1>2 DEF CallsApart
<1>3. CASE Asks(d)
  <2>1. PICK c : c.req = job[d].req /\ c.step = job[d].step /\ calls' = calls \cup {c}
    BY <1>3 DEF Asks
  <2>2. JobOK(d) /\ job[d].phase = "run" /\ job[d].step \in Nat
    BY <1>3, ActiveJob DEF CommandsOK, Asks, Active
  <2>3. \A e \in calls : e.req = c.req => e.step < c.step
    BY <2>1, <2>2 DEF JobOK, JobAt
  <2>4. \A e \in calls : ~(e.req = c.req /\ e.step = c.step)
    BY <2>1, <2>2, <2>3
  <2>5. QED  BY <1>1, <2>1, <2>4 DEF CallsApart
<1>4. QED  BY <1>2, <1>3 DEF Effect, Rests, Takes, Proceeds

LEMMA InboxesKept ==
  ASSUME CommandsOK, NEW d \in Daemons, Effect(d)
  PROVE  Inboxes'
<1>1. Inboxes /\ CommandShapes /\ Steady /\ Posts
  BY DEF CommandsOK, Effect
<1>2. SUFFICES ASSUME NEW e \in Daemons, NEW r \in inbox'[e]
               PROVE  /\ At(r, e)' /\ Unposted(r)'
                      /\ (\A c \in calls' : c.req # r) /\ ~(Active(e)' /\ job'[e].req = r)
  BY DEF Inboxes, Active
<1>3. \A c \in calls' : c \in calls \/ (c.req = job[d].req /\ Active(d))
  BY DEF Effect, Rests, Takes, Asks, Proceeds, Active
<1>4. ASSUME Active(e)'
      PROVE  \/ Active(e) /\ job'[e].req = job[e].req
             \/ e = d /\ job'[e].req \in inbox[e] /\ job'[e].req \notin inbox'[e]
  <2>1. CASE job'[e] = job[e]
    BY <1>4, <2>1 DEF Active
  <2>2. CASE e = d
    <3>0. Active(d)'
      BY <1>4, <2>2 DEF Active
    <3>1. CASE Takes(d)
      BY <2>2, <3>1 DEF Takes
    <3>2. CASE Asks(d)
      BY <2>2, <3>2 DEF Asks, Active
    <3>3. CASE Proceeds(d)
      <4>1. Active(d) /\ Moves(d)
        BY <2>2, <3>0, <3>3 DEF Proceeds
      <4>2. PICK x, n, a : MovesTo(d, x, n, a)
        BY <4>1 DEF Moves
      <4>3. QED  BY <2>2, <4>1, <4>2 DEF MovesTo
    <3>4. QED  BY <2>1, <2>2, <3>1, <3>2, <3>3 DEF Effect, Rests
  <2>3. QED  BY <2>1, <2>2 DEF Effect
<1>5. ASSUME NEW x \in Daemons, Active(x)  PROVE JobOK(x)
  BY <1>5 DEF CommandsOK
<1>6. CASE r \in inbox[e]
  <2>1. /\ At(r, e) /\ Unposted(r) /\ (\A c \in calls : c.req # r)
        /\ ~(Active(e) /\ job[e].req = r)
    BY <1>1, <1>6 DEF Inboxes
  <2>2. ~(Active(d) /\ job[d].req = r)
    <3>1. ASSUME Active(d), job[d].req = r  PROVE d = e
      BY <1>5, <2>1, <3>1 DEF JobOK, JobAt, At
    <3>2. QED  BY <2>1, <3>1
  <2>3. r \in Requests
    BY <2>1 DEF At, Sent
  <2>4. Unheard(r)
    BY <2>2, <2>3 DEF Effect
  <2>5. At(r, e)' /\ Unposted(r)'
    BY <1>1, <2>1, <2>4, AtStays, UnpostedStays
  <2>6. \A c \in calls' : c.req # r
    BY <1>3, <2>1, <2>2
  <2>7. QED  BY <1>4, <2>1, <2>5, <2>6
<1>7. CASE r \notin inbox[e]
  <2>1. r \notin Requests /\ Sent(r)' /\ home[r[1]] = e /\ Open(r)'
    BY <1>7 DEF Effect
  <2>2. At(r, e)'
    BY <1>1, <2>1 DEF At, Steady
  <2>3. \A c \in calls : c.req # r
    BY <2>1 DEF CommandsOK, CallOK, Sent
  <2>4. \A x \in Daemons : Active(x) => job[x].req # r
    BY <1>5, <2>1 DEF JobOK, JobAt, At, Sent
  <2>5. Unposted(r)
    <3>1. r \in DOMAIN apps => r \in DOMAIN OldApps
      BY <1>1, <2>1 DEF CommandShapes
    <3>2. r \in Terms \X Nat
      <4>1. r \in Requests' /\ \A t \in Terms : Len(reqs'[t]) \in Nat
        BY <2>1 DEF Effect, Sent, CommandShapes
      <4>2. QED  BY <4>1 DEF Requests
    <3>3. QED  BY <1>1, <2>1, <3>1, <3>2, ConstantFacts DEF CommandShapes, Unposted
  <2>6. Unposted(r)'
    BY <1>1, <2>3, <2>5, UnpostedStays
  <2>7. QED  BY <1>3, <1>4, <1>7, <2>2, <2>3, <2>4, <2>6
<1>8. QED  BY <1>6, <1>7

LEMMA ReportsKept ==
  ASSUME CommandsOK, NEW d \in Daemons, Effect(d), NEW r \in Requests'
  PROVE  Reported(r)'
<1>1. Steady /\ Posts /\ CommandShapes
  BY DEF CommandsOK, Effect
<1>2. CASE r \notin Requests
  BY <1>2 DEF Effect, Reported
<1>3. CASE r \in Requests /\ Unheard(r)
  <2>1. SUFFICES ASSUME Outcome(r)' \in {"success", "failure"}  PROVE Reported(r)'
    BY DEF Reported
  <2>2. Outcome(r)' = Outcome(r) /\ Reported(r)
    BY <1>3, <2>1 DEF Unheard, CommandsOK
  <2>3. Sent(r)
    BY <2>1, <2>2 DEF Reported
  <2>4. Sent(r)' /\ HandlerFor(r)' = HandlerFor(r) /\ Req(r)' = Req(r) /\ late \subseteq late'
        /\ done \subseteq done'
    BY <1>1, <2>3, HandlerStays DEF Steady
  <2>5. Misread(r) => Misread(r)'
    BY <2>4 DEF Misread
  <2>6. r \in done' => r \in done \/ r \in late
    <3>1. ASSUME NEW c \in calls, c.req = r  PROVE r \in late
      <4>1. CallOK(c)
        BY DEF CommandsOK
      <4>2. ASSUME Awaited(c)  PROVE FALSE
        <5>1. JobOK(c.daemon)
          BY <4>1, <4>2 DEF CommandsOK, CallOK, Awaited, Active
        <5>2. Open(r)
          BY <3>1, <4>2, <5>1 DEF JobOK, JobAt, At, Awaited
        <5>3. QED  BY <2>1, <2>2, <5>2 DEF Open
      <4>3. QED  BY <3>1, <4>1, <4>2 DEF CallOK
    <3>2. QED  BY <1>1, <3>1 DEF Posts, Posted
  <2>7. QED  BY <2>1, <2>2, <2>4, <2>5, <2>6 DEF Reported
<1>4. QED  BY <1>2, <1>3 DEF Effect

\* Every step with such an effect keeps the invariant.
LEMMA EffectKeeps ==
  ASSUME CommandsOK, NEW d \in Daemons, Effect(d)
  PROVE  CommandsOK'
<1>1. CommandShapes' /\ NotForgottenUnlessRefused'
  BY DEF Effect
<1>2. Inboxes' /\ CallsApart'
  BY InboxesKept, ApartKept
<1>3. \A e \in Daemons : Active(e)' => JobOK(e)'
  BY JobsKept
<1>4. \A c \in calls' : CallOK(c)'
  BY CallsKept
<1>5. \A r \in Requests' : Reported(r)'
  BY ReportsKept
<1>6. QED  BY <1>1, <1>2, <1>3, <1>4, <1>5 DEF CommandsOK

-----------------------------------------------------------------------------
(* The steps of the terminals and of the daemons. *)

LEMMA StepFacts ==
  ASSUME CommandShapes, NEW r, Sent(r), NEW n \in 1 .. Len(HandlerFor(r).steps)
  PROVE  LET s == HandlerFor(r).steps[n]
         IN  /\ ~Remote(s) => n < PostStep(r) /\ IsTest(s)
             /\ Remote(s) /\ n < PostStep(r) => IsAsk(s) /\ s.kind \in {"id", "ids", "zone"}
             /\ n = PostStep(r) <=> s.kind = "post"
             /\ n > PostStep(r) <=> s.kind = "more"
             /\ IsTest(s) => s.kind \in {"login", "name", "owner", "center"}
<1>1. PICK s, p : s = HandlerFor(r).steps[n] /\ p = PostStep(r)
  OBVIOUS
<1>2. /\ p \in Nat /\ p \in 1 .. Len(HandlerFor(r).steps) /\ Len(HandlerFor(r).steps) \in Nat
      /\ s.kind = "post" <=> n = p
      /\ HandlerShaped(Req(r).cmd, HandlerFor(r), p, PostRoute(r))
  BY <1>1, SentProper DEF Proper
<1>3. /\ n < p => IsTest(s) \/ IsAsk(s)
      /\ n > p => IsMore(s, Req(r).cmd)
      /\ PostRoute(r) \notin NoPost
      /\ n = p => s.route = PostRoute(r)
  BY <1>1, <1>2 DEF HandlerShaped, IsPostOf
<1>4. /\ IsTest(s) => ~Remote(s) /\ s.kind \in {"login", "name", "owner", "center"}
      /\ IsAsk(s) => Remote(s) /\ s.kind \in {"id", "ids", "zone"}
      /\ IsMore(s, Req(r).cmd) => Remote(s) /\ s.kind = "more"
      /\ PostRoute(r) \notin NoPost /\ s.route = PostRoute(r) => Remote(s)
  BY Zenon DEF IsTest, IsAsk, IsMore, Remote, NoPost
<1>5. n < p \/ n = p \/ n > p
  BY <1>2
<1>6. /\ s.kind = "more" => ~(s.kind \in {"login", "name", "owner", "center"}) /\ ~(s.kind \in {"id", "ids", "zone"})
      /\ s.kind = "more" => s.kind # "post"
  OBVIOUS
<1>7. QED  BY <1>1, <1>2, <1>3, <1>4, <1>5, <1>6

LEMMA SameSteady ==
  ASSUME UNCHANGED <<reqs, apps, done, home>>, late \subseteq late'
  PROVE  Steady /\ Posts
<1>1. \A r : Req(r)' = Req(r)
  BY DEF Req
<1>2. Requests' = Requests
  BY DEF Requests
<1>3. \A a \in DOMAIN apps : AppKept(a)
  BY DEF AppKept
<1>4. Steady
  BY <1>1, <1>2, <1>3 DEF Steady
<1>5. QED  BY <1>4 DEF Posts

LEMMA ForgottenStays ==
  ASSUME Steady, CommandShapes, NotForgottenUnlessRefused, apps' = apps
  PROVE  NotForgottenUnlessRefused'
<1>1. \A r \in late : r \in late' /\ Req(r)' = Req(r)
  BY DEF Steady, CommandShapes
<1>2. QED  BY <1>1 DEF NotForgottenUnlessRefused

LEMMA SameOutcome == ASSUME out' = out, NEW r PROVE Outcome(r)' = Outcome(r) /\ Unheard(r)
BY DEF Outcome, Unheard

\* A tool ends.
LEMMA OutAppend ==
  ASSUME CommandShapes, NEW t \in Terms, NEW v, out' = [out EXCEPT ![t] = Append(@, v)],
         NEW r \in Requests
  PROVE  \/ r = <<t, Len(out[t]) + 1>> /\ Outcome(r) = "none" /\ Outcome(r)' = v
         \/ r # <<t, Len(out[t]) + 1>> /\ Outcome(r)' = Outcome(r)
<1>1. /\ r[1] \in Terms /\ r[2] \in Nat /\ r = <<r[1], r[2]>>
      /\ r[2] \in 1 .. Len(reqs[r[1]])
  BY RequestsAre
<1>2. /\ out \in [Terms -> Seq(Outcomes)] /\ \A u \in Terms : Len(out[u]) \in Nat
      /\ Len(reqs[t]) <= Len(out[t]) + 1 /\ Len(reqs[t]) \in Nat
  BY DEF CommandShapes
<1>3. CASE r[1] # t
  <2>1. out'[r[1]] = out[r[1]]
    BY <1>1, <1>2, <1>3
  <2>2. r # <<t, Len(out[t]) + 1>>
    BY <1>3
  <2>3. PICK q, n, u : q = out[r[1]] /\ n = r[2] /\ u = r[1]
    OBVIOUS
  <2>4. out'[u] = q /\ out[u] = q /\ n = r[2] /\ u = r[1]
    BY <2>1, <2>3
  <2>5. Outcome(r)' = Outcome(r)
    BY <2>4 DEF Outcome
  <2>6. QED  BY <2>2, <2>5
<1>4. CASE r[1] = t
  <2>1. out'[t] = Append(out[t], v)
    BY <1>2
  <2>2. PICK q, n : q = out[t] /\ n = r[2]
    OBVIOUS
  <2>3. /\ q \in Seq(Outcomes) /\ n \in Nat \ {0} /\ n <= Len(q) + 1
        /\ r = <<t, n>> /\ out'[t] = Append(q, v) /\ r[1] = t /\ r[2] = n
    BY <1>1, <1>2, <1>4, <2>1, <2>2
  <2>4. CASE n = Len(q) + 1
    <3>1. ~(n <= Len(q)) /\ n <= Len(Append(q, v)) /\ Append(q, v)[n] = v
      BY <2>3, <2>4
    <3>2. QED  BY <2>2, <2>3, <2>4, <3>1 DEF Outcome
  <2>5. CASE n # Len(q) + 1
    <3>1. n <= Len(q) /\ n <= Len(Append(q, v)) /\ Append(q, v)[n] = q[n]
      BY <2>3, <2>5
    <3>2. r # <<t, Len(out[t]) + 1>>
      BY <2>2, <2>3, <2>5
    <3>3. QED  BY <2>2, <2>3, <3>1, <3>2 DEF Outcome
  <2>6. QED  BY <2>4, <2>5
<1>5. QED  BY <1>3, <1>4

Told == out \in [Terms -> Seq(Outcomes)] /\ session \in [Terms -> Accounts]
        /\ \A t \in Terms : Len(out[t]) <= Len(reqs[t]) /\ Len(reqs[t]) <= Len(out[t]) + 1

LEMMA ToldAppend ==
  ASSUME CommandShapes, NEW t \in Terms, NEW v \in Outcomes, reqs' = reqs,
         out' = [out EXCEPT ![t] = Append(@, v)], Len(out[t]) + 1 <= Len(reqs[t]),
         session' \in [Terms -> Accounts]
  PROVE  Told'
<1>1. /\ out \in [Terms -> Seq(Outcomes)]
      /\ \A u \in Terms : /\ Len(out[u]) \in Nat /\ Len(reqs[u]) \in Nat /\ out[u] \in Seq(Outcomes)
                          /\ Len(out[u]) <= Len(reqs[u]) /\ Len(reqs[u]) <= Len(out[u]) + 1
  BY DEF CommandShapes
<1>2. PICK q : q = out[t]
  OBVIOUS
<1>3. Append(q, v) \in Seq(Outcomes) /\ Len(Append(q, v)) = Len(q) + 1
  BY <1>1, <1>2
<1>4. out'[t] = Append(q, v) /\ \A u \in Terms \ {t} : out'[u] = out[u]
  BY <1>1, <1>2
<1>5. out' \in [Terms -> Seq(Outcomes)]
  BY <1>1, <1>2, <1>3
<1>6. ASSUME NEW u \in Terms
      PROVE  Len(out'[u]) <= Len(reqs'[u]) /\ Len(reqs'[u]) <= Len(out'[u]) + 1
  <2>1. CASE u = t
    BY <1>1, <1>2, <1>3, <1>4, <2>1
  <2>2. CASE u # t
    BY <1>1, <1>4, <2>2
  <2>3. QED  BY <2>1, <2>2
<1>7. QED  BY <1>5, <1>6 DEF Told

\* The daemon answers.
LEMMA ReplyHeard ==
  ASSUME CommandShapes, NEW r \in Requests, reqs' = reqs, NEW a, Answered(r, a)
  PROVE  /\ Told'
         /\ \A x \in Requests : x # r => Outcome(x)' = Outcome(x)
         /\ \/ Outcome(r)' = Outcome(r)
            \/ Outcome(r) = "none" /\ Outcome(r)' = Verdict(ToolOf(Req(r).cmd), a)
<1>1. PICK t, v : t = r[1] /\ v = Verdict(ToolOf(Req(r).cmd), a)
  OBVIOUS
<1>2. /\ t \in Terms /\ r[2] \in Nat /\ r = <<t, r[2]>> /\ r[2] \in 1 .. Len(reqs[t])
      /\ Req(r) \in Rec
  BY <1>1, RequestsAre
<1>3. v \in {"crash", "failure", "success"} /\ v \in Outcomes
  BY <1>1 DEF Verdict, Outcomes
<1>4. CASE Len(out[t]) + 1 = r[2]
  <2>1. /\ out' = [out EXCEPT ![t] = Append(@, v)]
        /\ session' = [session EXCEPT ![t] = IF v = "success" /\ Req(r).cmd = "userlogin" THEN Req(r).name
                   ELSE IF v = "success" /\ Req(r).cmd = "userexit" THEN "exited" ELSE @]
    BY <1>1, <1>4 DEF Answered
  <2>2. session' \in [Terms -> Accounts]
    <3>1. Req(r).name \in Accounts /\ "exited" \in Accounts /\ session \in [Terms -> Accounts]
      <4>1. Req(r).name \in Names
        BY <1>2 DEF Rec
      <4>2. QED  BY <4>1, Zenon DEF Accounts, Names, CommandShapes
    <3>2. QED  BY <2>1, <3>1, <1>2
  <2>3. Len(out[t]) + 1 <= Len(reqs[t])
    BY <1>2, <1>4 DEF CommandShapes
  <2>4. Told'
    BY <1>2, <1>3, <2>1, <2>2, <2>3, ToldAppend
  <2>5. r = <<t, Len(out[t]) + 1>>
    BY <1>2, <1>4
  <2>6. QED  BY <1>1, <1>2, <2>1, <2>4, <2>5, OutAppend
<1>5. CASE Len(out[t]) + 1 # r[2]
  <2>1. out' = out /\ session' = session
    BY <1>1, <1>5 DEF Answered
  <2>2. Told
    BY DEF Told, CommandShapes
  <2>3. Told'
    BY <2>1, <2>2 DEF Told
  <2>4. QED  BY <2>1, <2>3, SameOutcome
<1>6. QED  BY <1>4, <1>5

\* What an answer must say for its tool to report the truth.
TrueAnswer(r, a) ==
  /\ Verdict(ToolOf(Req(r).cmd), a) = "success" /\ Req(r).cmd \notin Queries => r \in done' \/ Misread(r)'
  /\ Verdict(ToolOf(Req(r).cmd), a) = "failure" => r \notin done' \/ r \in late'

LEMMA AnswerReported ==
  ASSUME CommandShapes, Steady, NEW r \in Requests, Sent(r), Open(r), reqs' = reqs, NEW a,
         Answered(r, a), TrueAnswer(r, a)
  PROVE  Reported(r)'
<1>1. Sent(r)' /\ Req(r)' = Req(r)
  BY HandlerStays
<1>2. Outcome(r)' = Outcome(r) \/ Outcome(r)' = Verdict(ToolOf(Req(r).cmd), a)
  BY ReplyHeard
<1>3. CASE Outcome(r)' = Outcome(r)
  <2>1. Outcome(r)' \notin {"success", "failure"}
    BY <1>3 DEF Open
  <2>2. QED  BY <2>1 DEF Reported
<1>4. CASE Outcome(r)' = Verdict(ToolOf(Req(r).cmd), a)
  BY <1>1, <1>4 DEF Reported, TrueAnswer
<1>5. QED  BY <1>2, <1>3, <1>4

\* The handler turns its request down before the call for it.
LEMMA TurnedDown ==
  ASSUME CommandShapes, Steady, Posts, NEW r, Sent(r), Unposted(r),
         \A c \in calls : c.req = r => c \in calls' \/ c.step # PostStep(r),
         NEW n \in 1 .. Len(HandlerFor(r).steps), n < PostStep(r), NEW a,
         \/ IsTest(HandlerFor(r).steps[n]) /\ a = "refused"
         \/ IsAsk(HandlerFor(r).steps[n]) /\ a \in {"error", "-1"}
  PROVE  TrueAnswer(r, a)
<1>1. r \notin done'
  BY UnpostedStays DEF Unposted
<1>2. ToolOf(Req(r).cmd).cmd = Req(r).cmd
  <2>1. Req(r) \in Rec
    BY RequestsAre DEF Sent
  <2>2. QED  BY <2>1, ToolKnown DEF Rec
<1>3. TurnsDown(ToolOf(Req(r).cmd), HandlerFor(r), PostStep(r))
  BY SentProper DEF Proper
<1>4. n \in 1 .. PostStep(r) - 1
  BY SentProper
<1>5. Req(r).cmd \notin Queries => a \in ToolOf(Req(r).cmd).bad
  BY <1>2, <1>3, <1>4 DEF TurnsDown
<1>6. a \in ToolOf(Req(r).cmd).bad => Verdict(ToolOf(Req(r).cmd), a) # "success"
  BY DEF Verdict
<1>7. QED  BY <1>1, <1>5, <1>6 DEF TrueAnswer

LEMMA NoMembers == \A cmd : NoMember(cmd) \in {"error", "-1"}
BY DEF NoMember

\* What the steps of a daemon leave alone.
Locally(d) ==
  /\ UNCHANGED <<script, home, reqs, apps, done>>
  /\ late \subseteq late' /\ late' \subseteq Requests
  /\ \A e \in Daemons \ {d} : job'[e] = job[e]
  /\ job' \in [Daemons -> Jobs \cup Halted]
  /\ who' \in [Daemons -> Accounts]
  /\ inbox' \in [Daemons -> SUBSET (Terms \X Nat)] /\ \A e \in Daemons : inbox'[e] \subseteq inbox[e]
  /\ Told'
TellsTruth(d) ==
  \A r \in Requests : Unheard(r) \/ (Active(d) /\ ~Active(d)' /\ r = job[d].req /\ Reported(r)')

LEMMA LocalEffect ==
  ASSUME CommandsOK, NEW d, Locally(d), TellsTruth(d), Rests(d) \/ Takes(d) \/ Asks(d) \/ Proceeds(d)
  PROVE  Effect(d)
<1>1. CommandShapes /\ NotForgottenUnlessRefused
  BY DEF CommandsOK
<1>2. Steady /\ Posts /\ Requests' = Requests
  BY SameSteady DEF Locally, Requests
<1>3. CommandShapes'
  BY <1>1, <1>2 DEF CommandShapes, Locally, Told
<1>4. NotForgottenUnlessRefused'
  BY <1>1, <1>2, ForgottenStays DEF Locally
<1>5. QED  BY <1>2, <1>3, <1>4 DEF Effect, Locally, TellsTruth

LEMMA TakeDoes ==
  ASSUME CommandsOK, NEW d \in Daemons, NEW q \in inbox[d], Take(d, q)
  PROVE  Effect(d)
<1>1. /\ job[d].phase = "idle" /\ inbox' = [inbox EXCEPT ![d] = @ \ {q}]
      /\ job' = [job EXCEPT ![d] = [phase |-> "run", req |-> q, step |-> 1, ans |-> NoAnswer]]
      /\ UNCHANGED <<script, home, reqs, out, session, who, listed, calls, apps, done, late,
                     stray, lost>>
  BY Zenon DEF Take, NoAnswer
<1>2. CommandShapes
  BY DEF CommandsOK
<1>3. /\ job \in [Daemons -> Jobs \cup Halted] /\ inbox \in [Daemons -> SUBSET (Terms \X Nat)]
      /\ who \in [Daemons -> Accounts] /\ Told /\ late \subseteq Requests
  BY <1>2 DEF CommandShapes, Told
<1>4. [phase |-> "run", req |-> q, step |-> 1, ans |-> NoAnswer] \in Jobs
  <2>1. NoAnswer \in Answers
    BY Zenon, GoodOrNot DEF NoAnswer
  <2>2. q \in Terms \X Nat
    BY <1>3
  <2>3. QED  BY <2>1, <2>2 DEF Jobs
<1>5. Told'
  BY <1>1, <1>3 DEF Told
<1>6. Locally(d)
  BY <1>1, <1>3, <1>4, <1>5 DEF Locally
<1>7. Takes(d)
  <2>1. ~Active(d)
    BY <1>1 DEF Active
  <2>2. q \notin inbox'[d] /\ job'[d] = [phase |-> "run", req |-> q, step |-> 1, ans |-> NoAnswer]
    BY <1>1, <1>3
  <2>3. QED  BY <1>1, <2>1, <2>2 DEF Takes
<1>8. TellsTruth(d)
  BY <1>1, SameOutcome DEF TellsTruth
<1>9. QED  BY <1>6, <1>7, <1>8, LocalEffect

\* What the invariant says of a handler under way.
AtStep(d, r, n, a) ==
  /\ r = job[d].req /\ n = job[d].step /\ a = job[d].ans
  /\ CommandShapes /\ Sent(r) /\ r \in Requests /\ r \in Terms \X Nat /\ Open(r) /\ n \in Nat
  /\ a \in Answers /\ JobAt(d, job[d].phase, r, n, a) /\ home[r[1]] = d
  /\ job[d] = [phase |-> job[d].phase, req |-> r, step |-> n, ans |-> a]
  /\ Steps(d) = HandlerFor(r).steps /\ Step(d) = HandlerFor(r).steps[n]
  /\ Ended(d) <=> n > Len(HandlerFor(r).steps)
  /\ n > 0 /\ n <= Len(HandlerFor(r).steps) + 1 /\ Len(HandlerFor(r).steps) \in Nat
  /\ PostStep(r) \in 1 .. Len(HandlerFor(r).steps)
  /\ \A c \in calls : c.daemon = d /\ Awaited(c) <=> c.req = r /\ c.step = n /\ job[d].phase = "wait"

LEMMA UnderWay ==
  ASSUME CommandsOK, NEW d \in Daemons, Active(d)
  PROVE  \E r, n, a : AtStep(d, r, n, a)
<1>0. PICK r, n, a : r = job[d].req /\ n = job[d].step /\ a = job[d].ans
  OBVIOUS
<1>1. CommandShapes /\ JobAt(d, job[d].phase, r, n, a) /\ \A c \in calls : CallOK(c)
  BY <1>0 DEF CommandsOK, JobOK
<1>2. job[d] \in Jobs /\ n \in Nat /\ r \in Terms \X Nat
  BY <1>0, <1>1, ActiveJob
<1>3. At(r, d) /\ Sent(r) /\ r \in Requests /\ Open(r) /\ home[r[1]] = d
  BY <1>1 DEF JobAt, At, Sent
<1>4. /\ Len(HandlerFor(r).steps) \in Nat /\ n > 0 /\ n <= Len(HandlerFor(r).steps) + 1
      /\ PostStep(r) \in 1 .. Len(HandlerFor(r).steps)
  BY <1>1, <1>2, <1>3, SentProper DEF JobAt
<1>5. Steps(d) = HandlerFor(r).steps /\ Step(d) = HandlerFor(r).steps[n]
  BY <1>0 DEF Steps, Step
<1>6. Ended(d) <=> n > Len(HandlerFor(r).steps)
  BY <1>0, <1>5 DEF Ended
<1>7. \A c \in calls : c.daemon = d /\ Awaited(c) <=> c.req = r /\ c.step = n /\ job[d].phase = "wait"
  BY <1>0, <1>1, <1>3 DEF Awaited, CallOK
<1>8. a \in Answers /\ job[d] = [phase |-> job[d].phase, req |-> r, step |-> n, ans |-> a]
  BY <1>0, <1>2 DEF Jobs
<1>9. AtStep(d, r, n, a)
  BY <1>0, <1>1, <1>2, <1>3, <1>4, <1>5, <1>6, <1>7, <1>8 DEF AtStep
<1>10. QED  BY <1>9

LEMMA ShapesSplit ==
  ASSUME CommandsOK
  PROVE  /\ job \in [Daemons -> Jobs \cup Halted] /\ inbox \in [Daemons -> SUBSET (Terms \X Nat)]
         /\ who \in [Daemons -> Accounts] /\ Told /\ late \subseteq Requests
         /\ NoJob \in Halted /\ Stopped("dead") \in Halted /\ Stopped("stuck") \in Halted
BY DEF CommandsOK, CommandShapes, Told, Halted

LEMMA TestDoes ==
  ASSUME CommandsOK, NEW d \in Daemons, Test(d)
  PROVE  Effect(d)
<1>1. /\ job[d].phase = "run" /\ ~Ended(d) /\ ~Remote(Step(d))
      /\ \/ /\ job' = [job EXCEPT ![d].step = @ + 1]
            /\ UNCHANGED <<out, session>>
         \/ Finish(d, "refused")
      /\ UNCHANGED <<script, home, reqs, inbox, who, listed, calls, apps, done, late, stray, lost>>
  BY Zenon DEF Test, Remote
<1>2. Active(d)
  BY <1>1 DEF Active
<1>3. PICK r, n, a : AtStep(d, r, n, a)
  BY <1>2, UnderWay
<1>4. /\ r = job[d].req /\ CommandShapes /\ Sent(r) /\ r \in Requests /\ r \in Terms \X Nat /\ Open(r) /\ n \in Nat
      /\ a \in Answers /\ JobAt(d, "run", r, n, a)
      /\ job[d] = [phase |-> "run", req |-> r, step |-> n, ans |-> a]
      /\ n \in 1 .. Len(HandlerFor(r).steps) /\ ~Remote(HandlerFor(r).steps[n])
      /\ \A c \in calls : ~(c.daemon = d /\ Awaited(c))
  BY <1>1, <1>3 DEF AtStep
<1>5. n < PostStep(r) /\ IsTest(HandlerFor(r).steps[n]) /\ PostStep(r) \in Nat
  BY <1>4, StepFacts, SentProper
<1>6. Steady /\ Posts
  BY <1>1, SameSteady
<1>7. Unposted(r)
  BY <1>4, <1>5 DEF JobAt
<1>8. CASE job' = [job EXCEPT ![d].step = @ + 1] /\ UNCHANGED <<out, session>>
  <2>1. job'[d] = [phase |-> "run", req |-> r, step |-> n + 1, ans |-> a]
    BY <1>4, <1>8, ShapesSplit
  <2>2. [phase |-> "run", req |-> r, step |-> n + 1, ans |-> a] \in Jobs
    BY <1>4 DEF Jobs
  <2>3. Told'
    BY <1>1, <1>8, ShapesSplit DEF Told
  <2>4. Locally(d)
    BY <1>1, <1>8, <2>1, <2>2, <2>3, ShapesSplit DEF Locally
  <2>5. MovesTo(d, r, n, a)
    BY <1>3, <1>4, <1>5, <2>1 DEF MovesTo, AtStep
  <2>6. Proceeds(d)
    BY <1>1, <1>2, <1>4, <2>5 DEF Proceeds, Moves
  <2>7. TellsTruth(d)
    BY <1>8, SameOutcome DEF TellsTruth
  <2>8. QED  BY <2>4, <2>6, <2>7, LocalEffect
<1>9. CASE Finish(d, "refused")
  <2>1. job' = [job EXCEPT ![d] = NoJob] /\ Answered(r, "refused")
    BY <1>4, <1>9 DEF Finish
  <2>2. TrueAnswer(r, "refused")
    BY <1>1, <1>4, <1>5, <1>6, <1>7, TurnedDown
  <2>3. Reported(r)' /\ Told' /\ \A x \in Requests : x # r => Outcome(x)' = Outcome(x)
    BY <1>1, <1>4, <1>6, <2>1, <2>2, AnswerReported, ReplyHeard
  <2>4. job'[d] = NoJob /\ \A e \in Daemons \ {d} : job'[e] = job[e]
    BY <2>1, ShapesSplit
  <2>5. Locally(d)
    BY <1>1, <2>1, <2>3, <2>4, ShapesSplit DEF Locally
  <2>6. ~Active(d)'
    BY <2>4 DEF Active, NoJob
  <2>7. Proceeds(d)
    BY <1>1, <1>2, <1>4, <2>6 DEF Proceeds
  <2>8. TellsTruth(d)
    BY <1>2, <1>4, <2>3, <2>6 DEF TellsTruth, Unheard
  <2>9. QED  BY <2>5, <2>7, <2>8, LocalEffect
<1>10. QED  BY <1>1, <1>8, <1>9

LEMMA CallDoes ==
  ASSUME CommandsOK, NEW d \in Daemons, Call(d)
  PROVE  Effect(d)
<1>0. Active(d)
  BY DEF Call, Active
<1>1. PICK r, n, a : AtStep(d, r, n, a)
  BY <1>0, UnderWay
<1>12. r = job[d].req /\ n = job[d].step /\ a = job[d].ans
  BY <1>1 DEF AtStep
<1>2. /\ job[d].phase = "run" /\ ~Ended(d) /\ Remote(Step(d))
      /\ job' = [job EXCEPT ![d].phase = "wait"]
      /\ calls' = calls \cup {[daemon |-> d, req |-> r, step |-> n,
                               route |-> Step(d).route, as |-> who[d],
                               data |-> Req(r).app \in listed[d]]}
      /\ UNCHANGED <<script, home, reqs, out, session, inbox, who, listed, apps, done, late, lost>>
  BY <1>12, Zenon DEF Call, Remote
<1>4. /\ CommandShapes /\ Sent(r) /\ r \in Requests /\ r \in Terms \X Nat /\ Open(r) /\ n \in Nat
      /\ a \in Answers /\ JobAt(d, "run", r, n, a)
      /\ job[d] = [phase |-> "run", req |-> r, step |-> n, ans |-> a]
      /\ n <= Len(HandlerFor(r).steps) /\ Remote(HandlerFor(r).steps[n])
      /\ Step(d) = HandlerFor(r).steps[n]
  BY <1>1, <1>2 DEF AtStep
<1>5. job'[d] = [phase |-> "wait", req |-> r, step |-> n, ans |-> a]
  BY <1>2, <1>4, ShapesSplit
<1>6. [phase |-> "wait", req |-> r, step |-> n, ans |-> a] \in Jobs
  BY <1>4 DEF Jobs
<1>7. Told'
  BY <1>2, ShapesSplit DEF Told
<1>8. Locally(d)
  BY <1>2, <1>5, <1>6, <1>7, ShapesSplit DEF Locally
<1>9. Asks(d)
  <2> DEFINE c == [daemon |-> d, req |-> r, step |-> n, route |-> Step(d).route, as |-> who[d],
                   data |-> Req(r).app \in listed[d]]
  <2>1. c.daemon = d /\ c.req = r /\ c.step = n /\ c.route = HandlerFor(r).steps[n].route
    BY <1>4
  <2>2. calls' = calls \cup {c}
    BY <1>2
  <2> HIDE DEF c
  <2>3. QED  BY <1>12, <1>2, <1>4, <1>5, <2>1, <2>2 DEF Asks
<1>10. TellsTruth(d)
  BY <1>2, SameOutcome DEF TellsTruth
<1>11. QED  BY <1>8, <1>9, <1>10, LocalEffect

LEMMA DoneDoes ==
  ASSUME CommandsOK, NEW d \in Daemons, Done(d)
  PROVE  Effect(d)
<1>0. job[d].phase = "run" /\ Ended(d) /\ Active(d)
  BY DEF Done, Active
<1>18. PICK r, n, a : AtStep(d, r, n, a)
  BY <1>0, UnderWay
<1>1. r = job[d].req /\ n = job[d].step /\ a = job[d].ans
  BY <1>18 DEF AtStep
<1>2. PICK x \in Reply(HandlerFor(r).how, a) : Finish(d, x)
  BY <1>1 DEF Done
<1>3. /\ job[d].phase = "run" /\ Ended(d) /\ Active(d)
      /\ UNCHANGED <<script, home, reqs, inbox, who, listed, calls, apps, done, late, stray, lost>>
  BY <1>0 DEF Done
<1>4. /\ CommandShapes /\ Sent(r) /\ r \in Requests /\ r \in Terms \X Nat /\ Open(r) /\ n \in Nat
      /\ a \in Answers /\ JobAt(d, "run", r, n, a)
      /\ n > Len(HandlerFor(r).steps) /\ Len(HandlerFor(r).steps) \in Nat
      /\ \A c \in calls : ~(c.daemon = d /\ Awaited(c))
  BY <1>0, <1>18 DEF AtStep
<1>5. n > PostStep(r)
  BY <1>4, SentProper
<1>6. Kept(r, a)
  BY <1>4, <1>5 DEF JobAt
<1>7. ToolOf(Req(r).cmd).cmd = Req(r).cmd /\ Reads(ToolOf(Req(r).cmd), HandlerFor(r).how, PostRoute(r))
  <2>1. Req(r) \in Rec
    BY <1>4, RequestsAre
  <2>2. QED  BY <2>1, <1>4, ToolKnown, SentProper DEF Rec, Proper
<1>8. Steady
  BY <1>3, SameSteady
<1>9. done' = done /\ late' = late /\ (Misread(r) => Misread(r)')
  <2>1. HandlerFor(r)' = HandlerFor(r) /\ Req(r)' = Req(r)
    BY <1>4, <1>8, HandlerStays
  <2>2. QED  BY <1>3, <2>1 DEF Misread
<1>10. TrueAnswer(r, x)
  <2>1. CASE a \in Ans(PostRoute(r))
    <3>1. /\ Verdict(ToolOf(Req(r).cmd), x) = "failure" => a \notin Good
          /\ Verdict(ToolOf(Req(r).cmd), x) = "success" /\ Req(r).cmd \notin Queries => a \in Good
      BY <1>2, <1>7, <2>1 DEF Reads
    <3>2. QED  BY <1>6, <1>9, <3>1 DEF Kept, TrueAnswer
  <2>2. CASE a = NoAnswer /\ r \in late
    <3>1. Verdict(ToolOf(Req(r).cmd), x) = "success" /\ Req(r).cmd \notin Queries => Misread(r)
      <4>1. \A y \in Reply(HandlerFor(r).how, NoAnswer) :
               Verdict(ToolOf(Req(r).cmd), y) = "success" /\ Req(r).cmd \notin Queries =>
                 HandlerFor(r).how = "int" \/ ToolOf(Req(r).cmd).bad # NotGood
        BY <1>7, Zenon DEF Reads, NoAnswer
      <4>2. QED  BY <1>2, <2>2, <4>1, Zenon DEF Misread
    <3>2. QED  BY <1>9, <2>2, <3>1 DEF TrueAnswer
  <2>3. QED  BY <1>6, <2>1, <2>2 DEF Kept
<1>11. job' = [job EXCEPT ![d] = NoJob] /\ Answered(r, x)
  BY <1>1, <1>2 DEF Finish
<1>12. Reported(r)' /\ Told' /\ \A y \in Requests : y # r => Outcome(y)' = Outcome(y)
  BY <1>3, <1>4, <1>8, <1>10, <1>11, AnswerReported, ReplyHeard
<1>13. job'[d] = NoJob /\ ~Active(d)'
  BY <1>11, ShapesSplit DEF Active, NoJob
<1>14. Locally(d)
  BY <1>3, <1>11, <1>12, ShapesSplit DEF Locally
<1>15. Proceeds(d)
  BY <1>3, <1>4, <1>13 DEF Proceeds
<1>16. TellsTruth(d)
  BY <1>1, <1>3, <1>12, <1>13 DEF TellsTruth, Unheard
<1>17. QED  BY <1>14, <1>15, <1>16, LocalEffect

LEMMA LoginLostDoes ==
  ASSUME CommandsOK, NEW d \in Daemons, LoginLost(d)
  PROVE  Effect(d)
<1>0. job[d].phase = "wait" /\ Active(d)
  BY DEF LoginLost, Active
<1>11. PICK r, n, a : AtStep(d, r, n, a)
  BY <1>0, UnderWay
<1>1. r = job[d].req /\ n = job[d].step /\ a = job[d].ans
  BY <1>11 DEF AtStep
<1>2. PICK c \in calls : c.req = r /\ c.step = n /\ calls' = calls \ {c}
  BY <1>1 DEF LoginLost
<1>3. /\ job[d].phase = "wait" /\ Active(d) /\ job' = [job EXCEPT ![d] = Stopped("stuck")]
      /\ UNCHANGED <<script, home, reqs, out, session, inbox, who, listed, apps, done, late, stray>>
  BY <1>0, Zenon DEF LoginLost
<1>4. \A e \in calls : c.daemon = d /\ (e.daemon = d /\ Awaited(e) => e = c)
  <2>1. \A e \in calls : e.daemon = d /\ Awaited(e) <=> e.req = r /\ e.step = n
    BY <1>0, <1>11 DEF AtStep
  <2>2. CallsApart
    BY DEF CommandsOK
  <2>3. QED  BY <1>2, <2>1, <2>2 DEF CallsApart
<1>5. Told'
  BY <1>3, ShapesSplit DEF Told
<1>6. Locally(d)
  BY <1>3, <1>5, ShapesSplit DEF Locally
<1>7. ~Active(d)'
  BY <1>3, ShapesSplit DEF Active, Stopped
<1>8. Proceeds(d)
  BY <1>2, <1>3, <1>4, <1>7 DEF Proceeds
<1>9. TellsTruth(d)
  BY <1>3, SameOutcome DEF TellsTruth
<1>10. QED  BY <1>6, <1>8, <1>9, LocalEffect

\* The answer to a call, or none in time.
GoesOn(d, x) ==
  job' = [job EXCEPT ![d] = [job[d] EXCEPT !.phase = "run", !.step = @ + 1,
                              !.ans = IF Step(d).kind = "post" THEN x ELSE @]]
LEMMA ReturnCases ==
  ASSUME NEW d, NEW x, NEW rows, Return(d, x, rows)
  PROVE  /\ Keeps(d, x, rows)
         /\ \/ job' = [job EXCEPT ![d] = Stopped("dead")] /\ UNCHANGED <<out, session>>
            \/ \E y \in {"error", "-1"} : Step(d).kind \in {"id", "ids", "zone"} /\ Finish(d, y)
            \/ GoesOn(d, x) /\ UNCHANGED <<out, session>>
<1>1. NoMember(Req(job[d].req).cmd) \in {"error", "-1"}
  BY NoMembers
<1>2. QED  BY <1>1, Zenon DEF Return, GoesOn

LEMMA KeepsShape ==
  ASSUME CommandsOK, NEW d \in Daemons, NEW x, NEW rows, Keeps(d, x, rows),
         NEW r \in Requests, r = job[d].req
  PROVE  who' \in [Daemons -> Accounts]
<1>1. who \in [Daemons -> Accounts] /\ CommandShapes
  BY DEF CommandsOK, CommandShapes
<1>2. Req(r).name \in Accounts /\ "exited" \in Accounts
  <2>1. Req(r).name \in Names
    BY <1>1, RequestsAre DEF Rec
  <2>2. QED  BY <2>1, Zenon DEF Accounts, Names
<1>3. QED  BY <1>1, <1>2 DEF Keeps

\* The handler goes on with the answer.
JobIs(j, phase, r, n, a) == j = [phase |-> phase, req |-> r, step |-> n, ans |-> a]
NextAnswer(d, x, a, b) == b = IF Step(d).kind = "post" THEN x ELSE a
LEMMA ReturnJob ==
  ASSUME CommandsOK, NEW d \in Daemons, NEW r, NEW n, NEW a, NEW x,
         JobIs(job[d], "wait", r, n, a), GoesOn(d, x), NEW b, NextAnswer(d, x, a, b)
  PROVE  JobIs(job'[d], "run", r, n + 1, b)
<1> USE DEF JobIs, NextAnswer
<1>1. PICK v : v = [job[d] EXCEPT !.phase = "run", !.step = @ + 1,
                                   !.ans = IF Step(d).kind = "post" THEN x ELSE @]
  OBVIOUS
<1>2. job' = [job EXCEPT ![d] = v]
  BY <1>1, Zenon DEF GoesOn
<1>3. job'[d] = v
  BY <1>1, <1>2, ShapesSplit
<1>4. PICK k, j : k = Step(d).kind /\ j = job[d]
  OBVIOUS
<1>5. j = [phase |-> "wait", req |-> r, step |-> n, ans |-> a]
  BY <1>4
<1>6. v = [j EXCEPT !.phase = "run", !.step = @ + 1, !.ans = IF k = "post" THEN x ELSE @]
  BY <1>1, <1>4, Zenon
<1>7. CASE k = "post"
  <2>1. b = x
    BY <1>4, <1>7
  <2>2. v = [j EXCEPT !.phase = "run", !.step = @ + 1, !.ans = x]
    BY <1>6, <1>7
  <2>3. QED  BY <1>3, <1>5, <2>1, <2>2
<1>8. CASE k # "post"
  <2>1. b = a
    BY <1>4, <1>8
  <2>2. v = [j EXCEPT !.phase = "run", !.step = @ + 1, !.ans = @]
    BY <1>6, <1>8
  <2>3. QED  BY <1>3, <1>5, <2>1, <2>2
<1>9. QED  BY <1>7, <1>8

LEMMA ReturnDoes ==
  ASSUME CommandsOK, NEW d \in Daemons, job[d].phase = "wait",
         NEW r, NEW n, NEW a, AtStep(d, r, n, a),
         Steady, Posts, reqs' = reqs, calls' \subseteq calls,
         \A c \in calls : c.req = r => c \in calls' \/ c.step = n,
         \A c \in calls' : c.daemon = d /\ Awaited(c) => c.req \in late',
         NEW x \in Answers, NEW rows, Return(d, x, rows), n = PostStep(r) => KeptNext(r, x)
  PROVE  /\ Proceeds(d) /\ TellsTruth(d) /\ Told'
         /\ who' \in [Daemons -> Accounts] /\ job' \in [Daemons -> Jobs \cup Halted]
         /\ \A e \in Daemons \ {d} : job'[e] = job[e]
<1>1. /\ CommandShapes /\ Sent(r) /\ r \in Requests /\ r \in Terms \X Nat /\ Open(r) /\ n \in Nat
      /\ a \in Answers /\ JobAt(d, "wait", r, n, a)
      /\ r = job[d].req /\ n = job[d].step
      /\ job[d] = [phase |-> "wait", req |-> r, step |-> n, ans |-> a]
      /\ Step(d) = HandlerFor(r).steps[n]
      /\ PostStep(r) \in Nat /\ Len(HandlerFor(r).steps) \in Nat
  BY DEF AtStep
<1>2. n \in 1 .. Len(HandlerFor(r).steps) /\ Remote(HandlerFor(r).steps[n])
  BY <1>1 DEF JobAt
<1>3. Active(d)
  BY DEF Active
<1>4. who' \in [Daemons -> Accounts]
  BY <1>1, ReturnCases, KeepsShape
<1>5. CASE job' = [job EXCEPT ![d] = Stopped("dead")] /\ UNCHANGED <<out, session>>
  <2>1. job' \in [Daemons -> Jobs \cup Halted] /\ (\A e \in Daemons \ {d} : job'[e] = job[e])
        /\ job'[d] = Stopped("dead")
    BY <1>5, ShapesSplit
  <2>2. ~Active(d)'
    BY <2>1 DEF Active, Stopped
  <2>3. Told'
    BY <1>5, ShapesSplit DEF Told
  <2>4. TellsTruth(d)
    BY <1>5, SameOutcome DEF TellsTruth
  <2>5. QED  BY <1>3, <1>4, <2>1, <2>2, <2>3, <2>4 DEF Proceeds
<1>6. ASSUME NEW y \in {"error", "-1"}, Step(d).kind \in {"id", "ids", "zone"}, Finish(d, y)
      PROVE  /\ Proceeds(d) /\ TellsTruth(d) /\ Told'
             /\ job' \in [Daemons -> Jobs \cup Halted]
             /\ \A e \in Daemons \ {d} : job'[e] = job[e]
  <2>1. Step(d).kind # "post" /\ Step(d).kind # "more"
    BY <1>6
  <2>2. n < PostStep(r)
    BY <1>1, <1>2, <2>1, StepFacts
  <2>3. IsAsk(HandlerFor(r).steps[n])
    BY <1>1, <1>2, <2>2, StepFacts
  <2>4. Unposted(r)
    BY <1>1, <2>2 DEF JobAt
  <2>5. TrueAnswer(r, y)
    BY <1>1, <1>2, <1>6, <2>2, <2>3, <2>4, TurnedDown
  <2>6. job' = [job EXCEPT ![d] = NoJob] /\ Answered(r, y)
    BY <1>1, <1>6 DEF Finish
  <2>7. Reported(r)' /\ Told' /\ \A z \in Requests : z # r => Outcome(z)' = Outcome(z)
    BY <1>1, <2>5, <2>6, AnswerReported, ReplyHeard
  <2>8. job'[d] = NoJob /\ (\A e \in Daemons \ {d} : job'[e] = job[e])
        /\ job' \in [Daemons -> Jobs \cup Halted]
    BY <2>6, ShapesSplit
  <2>9. ~Active(d)'
    BY <2>8 DEF Active, NoJob
  <2>10. Proceeds(d)
    BY <1>3, <2>9 DEF Proceeds
  <2>11. TellsTruth(d)
    BY <1>1, <1>3, <2>7, <2>9 DEF TellsTruth, Unheard
  <2>12. QED  BY <2>7, <2>8, <2>10, <2>11
<1>7. CASE GoesOn(d, x) /\ UNCHANGED <<out, session>>
  <2>1. PICK b : b = IF Step(d).kind = "post" THEN x ELSE a
    OBVIOUS
  <2>2. job'[d] = [phase |-> "run", req |-> r, step |-> n + 1, ans |-> b]
    <3>1. JobIs(job[d], "wait", r, n, a) /\ NextAnswer(d, x, a, b)
      BY <1>1, <2>1 DEF JobIs, NextAnswer
    <3>2. JobIs(job'[d], "run", r, n + 1, b)
      BY <1>7, <3>1, ReturnJob
    <3>3. QED  BY <3>2 DEF JobIs
  <2>3. [phase |-> "run", req |-> r, step |-> n + 1, ans |-> b] \in Jobs
    BY <1>1, <2>1 DEF Jobs
  <2>4. (\A e \in Daemons \ {d} : job'[e] = job[e]) /\ job' \in [Daemons -> Jobs \cup Halted]
    <3>1. PICK v : job' = [job EXCEPT ![d] = v]
      BY <1>7 DEF GoesOn
    <3>2. QED  BY <2>2, <2>3, <3>1, ShapesSplit
  <2>5. n = PostStep(r) <=> Step(d).kind = "post"
    BY <1>1, <1>2, StepFacts
  <2>6. n > PostStep(r) => KeptNext(r, a)
    <3>1. ASSUME n > PostStep(r)  PROVE Kept(r, a)'
      <4>1. \A c \in calls : c.req = r /\ c.step = PostStep(r) => c \in calls'
        BY <1>1, <3>1
      <4>2. Kept(r, a)
        BY <1>1, <3>1 DEF JobAt
      <4>3. QED  BY <1>1, <4>1, <4>2, KeptStays
    <3>2. QED  BY <3>1 DEF KeptNext
  <2>7. n >= PostStep(r) => KeptNext(r, b)
    BY <1>1, <2>1, <2>5, <2>6
  <2>8. MovesTo(d, r, n, b)
    BY <1>1, <1>2, <2>2, <2>7 DEF MovesTo
  <2>9. Proceeds(d)
    BY <1>3, <2>8 DEF Proceeds, Moves
  <2>10. Told'
    BY <1>7, ShapesSplit DEF Told
  <2>11. TellsTruth(d)
    BY <1>7, SameOutcome DEF TellsTruth
  <2>12. QED  BY <1>4, <2>4, <2>9, <2>10, <2>11
<1>8. QED  BY <1>4, <1>5, <1>6, <1>7, ReturnCases

LEMMA RpcTimeoutDoes ==
  ASSUME CommandsOK, NEW d \in Daemons, RpcTimeout(d)
  PROVE  Effect(d)
<1>1. /\ job[d].phase = "wait" /\ late' = late \cup {job[d].req} /\ Return(d, NoAnswer, {})
      /\ UNCHANGED <<script, home, reqs, inbox, calls, apps, done, stray>>
  BY Zenon DEF RpcTimeout, NoAnswer
<1>2. Active(d)
  BY <1>1 DEF Active
<1>3. PICK r, n, a : AtStep(d, r, n, a)
  BY <1>2, UnderWay
<1>4. /\ r = job[d].req /\ Sent(r) /\ r \in Requests /\ JobAt(d, "wait", r, n, a)
      /\ \A c \in calls : c.daemon = d /\ Awaited(c) => c.req = r
  BY <1>1, <1>3 DEF AtStep
<1>5. Steady /\ Posts /\ late' = late \cup {r}
  BY <1>1, <1>4, SameSteady
<1>6. NoAnswer \in Answers /\ NoAnswer \notin Good
  BY Zenon, GoodOrNot DEF NoAnswer
<1>7. KeptNext(r, NoAnswer)
  <2>1. r \in late'
    BY <1>5
  <2>2. Settled(r)'
    BY <2>1 DEF Settled
  <2>3. Kept(r, NoAnswer)'
    BY <1>6, <2>1, <2>2 DEF Kept
  <2>4. QED  BY <2>3 DEF KeptNext
<1>8. /\ \A c \in calls : c.req = r => c \in calls' \/ c.step = n
      /\ \A c \in calls' : c.daemon = d /\ Awaited(c) => c.req \in late'
      /\ calls' \subseteq calls
  BY <1>1, <1>4, <1>5
<1>9. /\ Proceeds(d) /\ TellsTruth(d) /\ Told'
      /\ who' \in [Daemons -> Accounts] /\ job' \in [Daemons -> Jobs \cup Halted]
      /\ \A e \in Daemons \ {d} : job'[e] = job[e]
  BY <1>1, <1>3, <1>5, <1>6, <1>7, <1>8, ReturnDoes
<1>10. Locally(d)
  BY <1>1, <1>4, <1>5, <1>9, ShapesSplit DEF Locally
<1>11. QED  BY <1>9, <1>10, LocalEffect

-----------------------------------------------------------------------------
(* The steps of a terminal. *)

LEMMA HomeOf == ASSUME CommandsOK, NEW t \in Terms PROVE home[t] \in Daemons
BY DEF CommandsOK, CommandShapes

LEMMA Lengths ==
  ASSUME CommandShapes, NEW t \in Terms
  PROVE  /\ Len(out[t]) \in Nat /\ Len(reqs[t]) \in Nat
         /\ Len(out[t]) <= Len(reqs[t]) /\ Len(reqs[t]) <= Len(out[t]) + 1
<1>1. out[t] \in Seq(Outcomes) /\ reqs[t] \in Seq(Rec)
  BY DEF CommandShapes
<1>2. Len(out[t]) \in Nat /\ Len(reqs[t]) \in Nat
  BY <1>1
<1>3. Len(out[t]) <= Len(reqs[t]) /\ Len(reqs[t]) <= Len(out[t]) + 1
  BY DEF CommandShapes
<1>4. QED  BY <1>2, <1>3

LEMMA TimeoutDoes ==
  ASSUME CommandsOK, NEW t \in Terms, Timeout(t)
  PROVE  \E d \in Daemons : Effect(d)
<1>1. PICK d \in Daemons : d = home[t]
  BY HomeOf
<1>2. /\ Waiting(t) /\ out' = [out EXCEPT ![t] = Append(@, "timeout")]
      /\ UNCHANGED <<script, home, reqs, session, inbox, job, who, listed, calls, apps, done,
                     late, stray, lost>>
  BY DEF Timeout
<1>3. CommandShapes
  BY DEF CommandsOK
<1>4. Told'
  <2>1. Len(out[t]) + 1 <= Len(reqs[t]) /\ session \in [Terms -> Accounts]
    BY <1>2, <1>3 DEF Waiting, CommandShapes
  <2>2. "timeout" \in Outcomes
    BY DEF Outcomes
  <2>3. QED  BY <1>2, <1>3, <2>1, <2>2, ToldAppend
<1>5. Locally(d)
  BY <1>2, <1>4, ShapesSplit DEF Locally, CommandsOK, CommandShapes
<1>6. TellsTruth(d)
  <2>1. \A r \in Requests : Unheard(r)
    BY <1>2, <1>3, OutAppend DEF Unheard
  <2>2. QED  BY <2>1 DEF TellsTruth
<1>7. Rests(d)
  BY <1>2 DEF Rests
<1>8. QED  BY <1>5, <1>6, <1>7, LocalEffect

\* A terminal makes a request.
LEMMA RequestMade ==
  ASSUME CommandShapes, NEW t \in Terms, NEW q, reqs' = [reqs EXCEPT ![t] = Append(@, q)],
         NEW n, n = Len(reqs[t]) + 1
  PROVE  /\ \A r \in Requests : r \in Requests' /\ Req(r)' = Req(r)
         /\ \A r \in Requests' : r \in Requests \/ r = <<t, n>>
         /\ <<t, n>> \in Requests' /\ <<t, n>> \notin Requests /\ Req(<<t, n>>)' = q
         /\ reqs'[t] = Append(reqs[t], q) /\ Len(reqs'[t]) = n
         /\ \A u \in Terms \ {t} : reqs'[u] = reqs[u]
         /\ q \in Rec => reqs' \in [Terms -> Seq(Rec)]
<1>1. reqs \in [Terms -> Seq(Rec)] /\ n \in Nat \ {0}
  BY DEF CommandShapes
<1>2. PICK s : s = reqs[t]
  OBVIOUS
<1>3. s \in Seq(Rec) /\ Len(s) \in Nat /\ n = Len(s) + 1
  BY <1>1, <1>2
<1>4. /\ reqs'[t] = Append(s, q) /\ \A u \in Terms \ {t} : reqs'[u] = reqs[u]
  BY <1>1, <1>2
<1>5. /\ Len(Append(s, q)) = n /\ Append(s, q)[n] = q
      /\ \A k \in 1 .. Len(s) : Append(s, q)[k] = s[k]
  BY <1>3
<1>6. q \in Rec => reqs' \in [Terms -> Seq(Rec)]
  <2>1. q \in Rec => Append(s, q) \in Seq(Rec)
    BY <1>3
  <2>2. QED  BY <1>1, <1>2, <2>1
<1>7. \A r : r \in Requests' <=> \E u \in Terms : \E k \in 1 .. Len(reqs'[u]) : r = <<u, k>>
  BY DEF Requests
<1>8. ASSUME NEW r \in Requests  PROVE r \in Requests' /\ Req(r)' = Req(r)
  <2>1. /\ r[1] \in Terms /\ r[2] \in Nat /\ r = <<r[1], r[2]>> /\ r[2] \in 1 .. Len(reqs[r[1]])
    BY RequestsAre
  <2>2. CASE r[1] = t
    <3>1. r[2] \in 1 .. Len(s) /\ r[2] \in 1 .. n
      BY <1>2, <1>3, <2>1, <2>2
    <3>2. r \in Requests'
      BY <1>4, <1>5, <1>7, <2>1, <2>2, <3>1
    <3>3. reqs'[r[1]][r[2]] = reqs[r[1]][r[2]]
      BY <1>2, <1>4, <1>5, <2>2, <3>1
    <3>4. QED  BY <3>2, <3>3 DEF Req
  <2>3. CASE r[1] # t
    BY <1>4, <1>7, <2>1, <2>3 DEF Req
  <2>4. QED  BY <2>2, <2>3
<1>9. ASSUME NEW r \in Requests'  PROVE r \in Requests \/ r = <<t, n>>
  <2>1. PICK u \in Terms : \E k \in 1 .. Len(reqs'[u]) : r = <<u, k>>
    BY <1>7
  <2>2. PICK k \in 1 .. Len(reqs'[u]) : r = <<u, k>>
    BY <2>1
  <2>3. CASE u = t /\ k = n
    BY <2>2, <2>3
  <2>4. CASE u = t /\ k # n
    <3>1. k \in 1 .. Len(reqs[t]) /\ k \in Nat
      BY <1>2, <1>3, <1>4, <1>5, <2>2, <2>4
    <3>2. QED  BY <2>2, <2>4, <3>1, RequestsAre
  <2>5. CASE u # t
    <3>1. k \in 1 .. Len(reqs[u]) /\ k \in Nat
      BY <1>1, <1>4, <2>2, <2>5
    <3>2. QED  BY <2>2, <3>1, RequestsAre
  <2>6. QED  BY <2>3, <2>4, <2>5
<1>10. <<t, n>> \in Requests' /\ <<t, n>> \notin Requests /\ Req(<<t, n>>)' = q
  <2>1. n \in 1 .. Len(reqs'[t]) /\ ~(n \in 1 .. Len(reqs[t]))
    BY <1>1, <1>2, <1>3, <1>4, <1>5
  <2>2. <<t, n>>[1] = t /\ <<t, n>>[2] = n
    OBVIOUS
  <2>3. Req(<<t, n>>)' = q
    BY <1>4, <1>5, <2>2 DEF Req
  <2>4. QED  BY <1>1, <1>7, <2>1, <2>3, RequestsAre
<1>11. QED  BY <1>2, <1>4, <1>5, <1>6, <1>8, <1>9, <1>10

LEMMA MadeSteady ==
  ASSUME CommandShapes, NEW t \in Terms, NEW q, reqs' = [reqs EXCEPT ![t] = Append(@, q)],
         UNCHANGED <<apps, done, late, home>>
  PROVE  Steady /\ Posts
<1>1. \A r \in Requests : r \in Requests' /\ Req(r)' = Req(r)
  BY RequestMade
<1>2. \A a \in DOMAIN apps : AppKept(a)
  BY DEF AppKept
<1>3. QED  BY <1>1, <1>2 DEF Steady, Posts

\* What a terminal can type.
LEMMA TypedOK ==
  ASSUME CommandShapes, NEW t \in Terms, CanStart(t)
  PROVE  /\ Typed(t).cmd \in Cmds /\ Typed(t).sug \in Sugs
         /\ Len(out[t]) = Len(reqs[t]) /\ Len(reqs[t]) \in Nat /\ session[t] \in Accounts
         /\ <<>> \in AppIds \cup {<<>>}
<1>1. /\ script[t] \in Seq([cmd : Cmds, sug : Sugs]) /\ Len(out[t]) \in Nat /\ Len(reqs[t]) \in Nat
      /\ Len(out[t]) <= Len(reqs[t]) /\ session[t] \in Accounts
  <2>1. script[t] \in Seq([cmd : Cmds, sug : Sugs]) /\ session[t] \in Accounts
    BY DEF CommandShapes
  <2>2. QED  BY <2>1, Lengths
<1>2. PICK s, n : s = script[t] /\ n = Len(out[t])
  OBVIOUS
<1>3. s \in Seq([cmd : Cmds, sug : Sugs]) /\ n \in Nat /\ n < Len(s) /\ Typed(t) = s[n + 1]
  BY <1>1, <1>2 DEF CanStart, Typed
<1>4. s[n + 1] \in [cmd : Cmds, sug : Sugs]
  <2>1. n + 1 \in 1 .. Len(s)
    BY <1>3
  <2>2. QED  BY <1>3, <2>1, ElementOfSeq
<1>5. Len(out[t]) = Len(reqs[t])
  BY <1>1 DEF CanStart, Waiting
<1>6. QED  BY <1>1, <1>3, <1>4, <1>5

LEMMA BadArgumentsDoes ==
  ASSUME CommandsOK, NEW t \in Terms, BadArguments(t)
  PROVE  \E d \in Daemons : Effect(d)
<1>0. CommandShapes /\ NotForgottenUnlessRefused
  BY DEF CommandsOK
<1>1. PICK q : q = [cmd |-> Typed(t).cmd, sug |-> Typed(t).sug, name |-> NoAnswer, app |-> <<>>,
                    want |-> session[t]]
  OBVIOUS
<1>2. /\ CanStart(t) /\ reqs' = [reqs EXCEPT ![t] = Append(@, q)]
      /\ out' = [out EXCEPT ![t] = Append(@, "usage")]
      /\ UNCHANGED <<script, home, session, inbox, job, who, listed, calls, apps, done, late,
                     stray, lost>>
  BY <1>1, Zenon DEF BadArguments, NoAnswer
<1>3. PICK n : n = Len(reqs[t]) + 1
  OBVIOUS
<1>4. /\ Typed(t).cmd \in Cmds /\ Typed(t).sug \in Sugs /\ Len(out[t]) = Len(reqs[t])
      /\ Len(reqs[t]) \in Nat /\ session[t] \in Accounts
  BY <1>0, <1>2, TypedOK
<1>5. q \in Rec
  <2>1. NoAnswer \in Names
    BY Zenon DEF NoAnswer, Names
  <2>2. QED  BY <1>1, <1>4, <2>1 DEF Rec
<1>6. /\ \A r \in Requests' : r \in Requests \/ r = <<t, n>>
      /\ \A r \in Requests : r \in Requests' /\ Req(r)' = Req(r)
      /\ reqs'[t] = Append(reqs[t], q) /\ Len(reqs'[t]) = n
      /\ \A u \in Terms \ {t} : reqs'[u] = reqs[u]
      /\ reqs' \in [Terms -> Seq(Rec)]
  BY <1>0, <1>2, <1>3, <1>5, RequestMade
<1>7. Steady /\ Posts
  BY <1>0, <1>2, MadeSteady
<1>8. /\ out \in [Terms -> Seq(Outcomes)] /\ "usage" \in Outcomes
  BY <1>0 DEF CommandShapes, Outcomes
<1>9. /\ out' \in [Terms -> Seq(Outcomes)] /\ out'[t] = Append(out[t], "usage")
      /\ Len(out'[t]) = n /\ out'[t][n] = "usage"
      /\ \A u \in Terms \ {t} : out'[u] = out[u]
  <2>1. PICK s : s = out[t]
    OBVIOUS
  <2>2. s \in Seq(Outcomes) /\ n = Len(s) + 1
    BY <1>3, <1>4, <1>8, <2>1
  <2>3. Append(s, "usage") \in Seq(Outcomes) /\ Len(Append(s, "usage")) = n /\ Append(s, "usage")[n] = "usage"
    BY <1>8, <2>2
  <2>4. QED  BY <1>2, <1>8, <2>1, <2>3
<1>10. \A u \in Terms : Len(out'[u]) <= Len(reqs'[u]) /\ Len(reqs'[u]) <= Len(out'[u]) + 1
  <2>1. Len(out'[t]) <= Len(reqs'[t]) /\ Len(reqs'[t]) <= Len(out'[t]) + 1
    BY <1>3, <1>4, <1>6, <1>9
  <2>2. ASSUME NEW u \in Terms \ {t}
        PROVE  Len(out'[u]) <= Len(reqs'[u]) /\ Len(reqs'[u]) <= Len(out'[u]) + 1
    BY <1>0, <1>6, <1>9, Lengths
  <2>3. QED  BY <2>1, <2>2
<1>11. CommandShapes'
  BY <1>0, <1>2, <1>6, <1>9, <1>10 DEF CommandShapes
<1>12. \A r \in Requests : Unheard(r)
  <2>1. ASSUME NEW r \in Requests  PROVE r # <<t, Len(out[t]) + 1>>
    BY <1>0, <1>4, RequestsAre
  <2>2. QED  BY <1>0, <1>2, <2>1, OutAppend DEF Unheard
<1>13. \A r \in Requests' : r \notin Requests => Outcome(r)' \in {"none", "usage"}
  <2>1. Outcome(<<t, n>>)' = "usage"
    <3>1. <<t, n>>[1] = t /\ <<t, n>>[2] = n /\ n <= Len(out'[t])
      BY <1>3, <1>4, <1>9
    <3>2. QED  BY <1>9, <3>1 DEF Outcome
  <2>2. QED  BY <1>6, <2>1
<1>14. NotForgottenUnlessRefused'
  BY <1>0, <1>2, <1>7, ForgottenStays
<1>15. PICK d \in Daemons : d = home[t]
  BY HomeOf
<1>16. Rests(d)
  BY <1>2 DEF Rests
<1>17. Effect(d)
  BY <1>2, <1>7, <1>11, <1>12, <1>13, <1>14, <1>16 DEF Effect
<1>18. QED  BY <1>17

LEMMA SendDoes ==
  ASSUME CommandsOK, NEW t \in Terms, NEW name \in Names, NEW app \in {<<>>} \cup DOMAIN apps,
         Send(t, name, app)
  PROVE  \E d \in Daemons : Effect(d)
<1>0. CommandShapes /\ NotForgottenUnlessRefused
  BY DEF CommandsOK
<1>1. PICK q : q = [cmd |-> Typed(t).cmd, sug |-> Typed(t).sug, name |-> name, app |-> app,
                    want |-> session[t]]
  OBVIOUS
<1>2. /\ CanStart(t) /\ reqs' = [reqs EXCEPT ![t] = Append(@, q)]
      /\ (Typed(t).cmd = "suggestion") = (app # <<>>)
      /\ inbox' = [inbox EXCEPT ![home[t]] = @ \cup {<<t, Len(out[t]) + 1>>}]
      /\ UNCHANGED <<script, home, out, session, job, who, listed, calls, apps, done, late,
                     stray, lost>>
  BY <1>1, Zenon DEF Send
<1>3. PICK n : n = Len(reqs[t]) + 1
  OBVIOUS
<1>4. /\ Typed(t).cmd \in Cmds /\ Typed(t).sug \in Sugs /\ Len(out[t]) = Len(reqs[t])
      /\ Len(reqs[t]) \in Nat /\ session[t] \in Accounts
  BY <1>0, <1>2, TypedOK
<1>5. q \in Rec
  <2>1. app \in AppIds \cup {<<>>}
    BY <1>0 DEF CommandShapes
  <2>2. QED  BY <1>1, <1>4, <2>1 DEF Rec
<1>6. /\ \A r \in Requests' : r \in Requests \/ r = <<t, n>>
      /\ \A r \in Requests : r \in Requests' /\ Req(r)' = Req(r)
      /\ <<t, n>> \in Requests' /\ <<t, n>> \notin Requests /\ Req(<<t, n>>)' = q
      /\ reqs'[t] = Append(reqs[t], q) /\ Len(reqs'[t]) = n
      /\ \A u \in Terms \ {t} : reqs'[u] = reqs[u]
      /\ reqs' \in [Terms -> Seq(Rec)]
  BY <1>0, <1>2, <1>3, <1>5, RequestMade
<1>7. Steady /\ Posts
  BY <1>0, <1>2, MadeSteady
<1>8. \A u \in Terms : Len(out'[u]) <= Len(reqs'[u]) /\ Len(reqs'[u]) <= Len(out'[u]) + 1
  BY <1>0, <1>2, <1>3, <1>4, <1>6 DEF CommandShapes
<1>9. inbox' \in [Daemons -> SUBSET (Terms \X Nat)]
  <2>1. <<t, Len(out[t]) + 1>> \in Terms \X Nat
    BY <1>4
  <2>2. inbox \in [Daemons -> SUBSET (Terms \X Nat)]
    BY ShapesSplit
  <2>3. QED  BY <1>2, <2>1, <2>2
<1>10. CommandShapes'
  BY <1>0, <1>2, <1>6, <1>8, <1>9 DEF CommandShapes
<1>11. \A r \in Requests : Unheard(r)
  BY <1>2, SameOutcome
<1>12. Outcome(<<t, n>>)' = "none"
  <2>1. <<t, n>>[1] = t /\ <<t, n>>[2] = n /\ ~(n <= Len(out'[t]))
    BY <1>2, <1>3, <1>4
  <2>2. QED  BY <2>1 DEF Outcome
<1>13. Sent(<<t, n>>)' /\ Open(<<t, n>>)'
  <2>1. q.cmd = "suggestion" => q.app \in DOMAIN apps'
    BY <1>1, <1>2
  <2>2. QED  BY <1>6, <1>12, <2>1 DEF Sent, Open
<1>14. ASSUME NEW e \in Daemons, NEW r \in inbox'[e], r \notin inbox[e]
       PROVE  r = <<t, n>> /\ home[r[1]] = e
  BY <1>2, <1>3, <1>4, <1>14, ShapesSplit
<1>15. NotForgottenUnlessRefused'
  BY <1>0, <1>2, <1>7, ForgottenStays
<1>16. PICK d \in Daemons : d = home[t]
  BY HomeOf
<1>17. Rests(d)
  BY <1>2 DEF Rests
<1>18. \A e \in Daemons : \A r \in inbox'[e] :
         r \in inbox[e] \/ (r \notin Requests /\ Sent(r)' /\ home[r[1]] = e /\ Open(r)')
  BY <1>6, <1>13, <1>14
<1>19. \A r \in Requests' : r \notin Requests => Outcome(r)' \in {"none", "usage"}
  BY <1>6, <1>12
<1>20. Effect(d)
  BY <1>2, <1>7, <1>10, <1>11, <1>15, <1>17, <1>18, <1>19 DEF Effect
<1>21. QED  BY <1>20

-----------------------------------------------------------------------------
(* The manager carries out a call. *)

LEMMA RoutesApart ==
  /\ \A route \in Applies : /\ route \notin Checks /\ route # "/users/removeapply"
                            /\ AppKind(route) \in Kinds
  /\ "/users/removeapply" \notin Checks
  /\ \A route \in {"/users/memberID", "/zone/info", "/auth/search"} :
        route \notin Applies \cup Checks /\ route # "/users/removeapply"
<1>1. ASSUME NEW route \in Applies
      PROVE  route \notin Checks /\ route # "/users/removeapply" /\ AppKind(route) \in Kinds
  <2>1. CASE route = "/users/bufferuserregister"
    BY <2>1 DEF Checks, AppKind, Kinds
  <2>2. CASE route = "/zone/registerapply"
    BY <2>2 DEF Checks, AppKind, Kinds
  <2>3. CASE route = "/zone/mapaddapply"
    BY <2>3 DEF Checks, AppKind, Kinds
  <2>4. CASE route = "/space/changesizeapply"
    BY <2>4 DEF Checks, AppKind, Kinds
  <2>5. QED  BY <2>1, <2>2, <2>3, <2>4 DEF Applies
<1>2. QED  BY <1>1 DEF Applies, Checks

\* What the invariant says of a call that is not executed yet.
LEMMA RouteOf ==
  ASSUME CommandsOK, NEW c \in calls, NEW r, NEW n, r = c.req, n = c.step
  PROVE  /\ Sent(r) /\ r \in Requests /\ n \in Nat /\ PostStep(r) \in Nat
         /\ c.route \in Applies \cup Checks => n = PostStep(r)
         /\ c.route = "/users/removeapply" => /\ Req(r).cmd = "suggestion"
                                              /\ n = PostStep(r) => Req(r).sug = "reject"
                                              /\ n # PostStep(r) => Settled(r)
         /\ n = PostStep(r) /\ Req(r).cmd = "suggestion" /\ Req(r).sug # "reject" => c.route \in Checks
         /\ n = PostStep(r) => c.route = PostRoute(r) /\ Unposted(r)
         /\ IsPost(c) <=> n = PostStep(r)
<1>1. /\ CommandShapes /\ Sent(r) /\ r \in Requests /\ n \in 1 .. Len(HandlerFor(r).steps)
      /\ c.route = HandlerFor(r).steps[n].route /\ Remote(HandlerFor(r).steps[n])
      /\ n = PostStep(r) => Unposted(r)
      /\ n > PostStep(r) => Settled(r)
  BY DEF CommandsOK, CallOK, Sent
<1>2. PICK s, p, route : s = HandlerFor(r).steps[n] /\ p = PostStep(r) /\ route = PostRoute(r)
  OBVIOUS
<1>3. /\ p \in Nat /\ n \in Nat /\ Proper(Req(r).cmd, Req(r).sug, HandlerFor(r), p, route)
      /\ s.kind = "post" <=> n = p
  BY <1>1, <1>2, SentProper
<1>4. /\ n = p => s.route = route
      /\ n > p => IsMore(s, Req(r).cmd)
      /\ n < p => IsAsk(s)
  <2>1. n = p => IsPostOf(s, route)
    BY <1>2, <1>3 DEF Proper, HandlerShaped
  <2>2. n > p => IsMore(s, Req(r).cmd)
    BY <1>1, <1>2, <1>3 DEF Proper, HandlerShaped
  <2>3. n < p => IsAsk(s)
    BY <1>1, <1>2, StepFacts
  <2>4. QED  BY <2>1, <2>2, <2>3 DEF IsPostOf
<1>5. /\ n < p => s.route \in {"/users/memberID", "/zone/info"}
      /\ n > p => /\ s.route \in {"/auth/search", "/zone/info", "/users/removeapply"}
                  /\ s.route = "/users/removeapply" => Req(r).cmd = "suggestion"
  BY <1>4 DEF IsAsk, IsMore
<1>6. c.route \in Applies \cup Checks => n = p
  BY <1>1, <1>2, <1>3, <1>5, RoutesApart
<1>7. c.route = "/users/removeapply" => /\ Req(r).cmd = "suggestion"
                                        /\ n = p => Req(r).sug = "reject"
                                        /\ n # p => Settled(r)
  BY <1>1, <1>2, <1>3, <1>4, <1>5, RoutesApart DEF Proper
<1>8. n = p /\ Req(r).cmd = "suggestion" /\ Req(r).sug # "reject" => c.route \in Checks
  BY <1>1, <1>2, <1>3, <1>4 DEF Proper
<1>9. IsPost(c) <=> n = p
  BY <1>2, <1>3 DEF IsPost
<1>10. QED  BY <1>1, <1>2, <1>3, <1>4, <1>6, <1>7, <1>8, <1>9

LEMMA AppsCases ==
  ASSUME NEW c, NEW a, apps' = AppsAfter(c, a), NEW app, app = Req(c.req).app
  PROVE  \/ c.route \in Applies /\ apps' = bufferUserRegister(c.req, AppKind(c.route))
         \/ /\ c.route \in Checks
            /\ apps' = [apps EXCEPT ![app] = [apps[app] EXCEPT !.performed = @ \/ a \in Good,
                                                               !.refused = @ \/ a \notin Good]]
         \/ /\ c.route = "/users/removeapply"
            /\ apps' = removeoneofApplyInfo(app, Req(c.req).sug)
         \/ c.route \notin Checks /\ apps' = apps
<1>1. PICK q1, q2, q3 :
         /\ q1 = bufferUserRegister(c.req, AppKind(c.route))
         /\ q2 = [apps EXCEPT ![app] = [apps[app] EXCEPT !.performed = @ \/ a \in Good,
                                                          !.refused = @ \/ a \notin Good]]
         /\ q3 = removeoneofApplyInfo(app, Req(c.req).sug)
  OBVIOUS
<1>2. apps' = CASE c.route \in Applies /\ a = "0" -> q1
                [] c.route \in Checks -> q2
                [] c.route = "/users/removeapply" /\ a = "0" -> q3
                [] OTHER -> apps
  BY <1>1, Zenon DEF AppsAfter
<1>3. \/ c.route \in Applies /\ apps' = q1
      \/ c.route \in Checks /\ apps' = q2
      \/ c.route = "/users/removeapply" /\ apps' = q3
      \/ c.route \notin Checks /\ apps' = apps
  BY <1>2
<1>4. QED  BY <1>1, <1>3, Zenon

\* The mark that a call leaves on an application.
Marks(x, y) ==
  /\ x \in AppRec => y \in AppRec
  /\ y.kind = x.kind /\ (x.performed => y.performed) /\ (x.refused => y.refused)
  /\ x.rejected => y.rejected

LEMMA CheckMarks ==
  ASSUME NEW x \in AppRec, NEW a
  PROVE  LET y == [x EXCEPT !.performed = @ \/ a \in Good, !.refused = @ \/ a \notin Good]
         IN  Marks(x, y) /\ (y.performed \/ y.refused) /\ y.present = x.present
BY DEF Marks, AppRec

LEMMA RemovalMarks ==
  ASSUME NEW x \in AppRec, NEW sug
  PROVE  LET y == [x EXCEPT !.present = FALSE, !.rejected = @ \/ sug = "reject"]
         IN  Marks(x, y) /\ (sug = "reject" => y.rejected)
BY DEF Marks, AppRec

Accounted(x) == x.present \/ x.performed \/ x.rejected \/ x.refused

LEMMA AppsStep ==
  ASSUME CommandsOK, NEW c \in calls, NEW a, NEW r, NEW n, r = c.req, n = c.step,
         apps' = AppsAfter(c, a), reqs' = reqs
  PROVE  /\ apps' \in [DOMAIN apps' -> AppRec] /\ DOMAIN apps \subseteq DOMAIN apps'
         /\ \A z \in DOMAIN apps' : z \in DOMAIN apps \/ (z = r /\ n = PostStep(r))
         /\ \A z \in DOMAIN apps : AppKept(z)
         /\ n = PostStep(r) => Settled(r)'
         /\ \A z \in DOMAIN apps' :
               \/ Accounted(apps'[z])
               \/ z \in DOMAIN apps /\ ~Accounted(apps[z])
               \/ z = Req(r).app /\ r \in late
<1>0. PICK q : q = Req(r)
  OBVIOUS
<1>1. /\ apps \in [DOMAIN apps -> AppRec]
      /\ Sent(r) /\ r \in Requests /\ n \in Nat /\ PostStep(r) \in Nat
      /\ c.route \in Applies \cup Checks => n = PostStep(r)
      /\ c.route = "/users/removeapply" => /\ q.cmd = "suggestion"
                                           /\ n = PostStep(r) => q.sug = "reject"
                                           /\ n # PostStep(r) => Settled(r)
      /\ n = PostStep(r) /\ q.cmd = "suggestion" /\ q.sug # "reject" => c.route \in Checks
      /\ n = PostStep(r) => Unposted(r)
  BY <1>0, RouteOf DEF CommandsOK, CommandShapes
<1>2. Req(r)' = q
  BY <1>0 DEF Req
<1>3. q.cmd = "suggestion" => q.app \in DOMAIN apps
  BY <1>0, <1>1 DEF Sent
<1>4. CASE c.route \in Applies /\ apps' = bufferUserRegister(r, AppKind(c.route))
  <2>1. n = PostStep(r) /\ r \notin DOMAIN apps /\ c.route \notin Checks /\ AppKind(c.route) \in Kinds
    BY <1>1, <1>4, RoutesApart DEF Unposted
  <2>2. PICK kind \in Kinds : kind = AppKind(c.route)
    BY <2>1
  <2>3. apps' = [x \in DOMAIN apps \cup {r} |-> IF x = r THEN Pending(kind) ELSE apps[x]]
    BY <1>4, <2>2 DEF bufferUserRegister
  <2>4. Pending(kind) \in AppRec /\ Accounted(Pending(kind))
    BY DEF Pending, AppRec, Accounted
  <2>5. /\ DOMAIN apps' = DOMAIN apps \cup {r}
        /\ \A z \in DOMAIN apps : apps'[z] = apps[z]
        /\ apps'[r] = Pending(kind)
    BY <2>1, <2>3
  <2>6. Settled(r)'
    BY <1>1, <1>2, <2>1 DEF Settled
  <2>7. \A z \in DOMAIN apps : AppKept(z)
    BY <2>5 DEF AppKept
  <2>8. apps' \in [DOMAIN apps' -> AppRec]
    BY <1>1, <2>3, <2>4
  <2>9. \A z \in DOMAIN apps' : Accounted(apps'[z]) \/ (z \in DOMAIN apps /\ ~Accounted(apps[z]))
    BY <2>4, <2>5
  <2>10. QED  BY <2>1, <2>5, <2>6, <2>7, <2>8, <2>9
<1>5. CASE c.route \notin Checks /\ apps' = apps
  <2>1. Settled(r)' \/ n # PostStep(r)
    BY <1>1, <1>2, <1>5 DEF Settled
  <2>2. \A z \in DOMAIN apps : AppKept(z)
    BY <1>5 DEF AppKept
  <2>3. QED  BY <1>1, <1>5, <2>1, <2>2
<1>6. ASSUME NEW y, apps' = [apps EXCEPT ![q.app] = y],
             q.app \in DOMAIN apps => Marks(apps[q.app], y),
             n = PostStep(r) => Settled(r)',
             q.app \in DOMAIN apps => Accounted(y) \/ ~Accounted(apps[q.app]) \/ r \in late
      PROVE  /\ apps' \in [DOMAIN apps' -> AppRec] /\ DOMAIN apps \subseteq DOMAIN apps'
             /\ \A z \in DOMAIN apps' : z \in DOMAIN apps \/ (z = r /\ n = PostStep(r))
             /\ \A z \in DOMAIN apps : AppKept(z)
             /\ n = PostStep(r) => Settled(r)'
             /\ \A z \in DOMAIN apps' : \/ Accounted(apps'[z])
                                        \/ z \in DOMAIN apps /\ ~Accounted(apps[z])
                                        \/ z = Req(r).app /\ r \in late
  <2>1. /\ DOMAIN apps' = DOMAIN apps
        /\ \A z \in DOMAIN apps : apps'[z] = IF z = q.app THEN y ELSE apps[z]
    BY <1>1, <1>6
  <2>2. q.app \in DOMAIN apps => y \in AppRec
    BY <1>1, <1>6 DEF Marks
  <2>3. \A z \in DOMAIN apps : AppKept(z)
    BY <1>6, <2>1 DEF AppKept, Marks
  <2>4. apps' \in [DOMAIN apps' -> AppRec]
    BY <1>1, <1>6, <2>2
  <2>5. \A z \in DOMAIN apps' : \/ Accounted(apps'[z])
                                \/ z \in DOMAIN apps /\ ~Accounted(apps[z])
                                \/ z = Req(r).app /\ r \in late
    BY <1>0, <1>6, <2>1
  <2>6. QED  BY <1>6, <2>1, <2>3, <2>4, <2>5
<1>7. CASE /\ c.route \in Checks
           /\ apps' = [apps EXCEPT ![q.app] = [apps[q.app] EXCEPT !.performed = @ \/ a \in Good,
                                                                  !.refused = @ \/ a \notin Good]]
  <2>1. PICK y : y = [apps[q.app] EXCEPT !.performed = @ \/ a \in Good, !.refused = @ \/ a \notin Good]
    OBVIOUS
  <2>2. apps' = [apps EXCEPT ![q.app] = y]
    BY <1>7, <2>1, Zenon
  <2>3. ASSUME q.app \in DOMAIN apps
        PROVE  /\ Marks(apps[q.app], y) /\ (y.performed \/ y.refused)
               /\ y.present = apps[q.app].present
    <3>1. PICK x \in AppRec : x = apps[q.app]
      BY <1>1, <2>3
    <3>2. y = [x EXCEPT !.performed = @ \/ a \in Good, !.refused = @ \/ a \notin Good]
      BY <2>1, <3>1, Zenon
    <3>3. QED  BY <3>1, <3>2, CheckMarks
  <2>4. Accounted(y) \/ q.app \notin DOMAIN apps
    BY <2>3 DEF Accounted
  <2>5. Settled(r)'
    <3>1. q.app \in DOMAIN apps => apps'[q.app] = y
      BY <1>1, <2>2
    <3>2. QED  BY <1>2, <1>3, <2>3, <3>1 DEF Settled
  <2>6. QED  BY <1>6, <2>2, <2>3, <2>4, <2>5
<1>8. CASE c.route = "/users/removeapply" /\ apps' = removeoneofApplyInfo(q.app, q.sug)
  <2>1. PICK y : y = [apps[q.app] EXCEPT !.present = FALSE, !.rejected = @ \/ q.sug = "reject"]
    OBVIOUS
  <2>2. apps' = [apps EXCEPT ![q.app] = y]
    BY <1>8, <2>1, Zenon DEF removeoneofApplyInfo
  <2>3. PICK x \in AppRec : x = apps[q.app]
    BY <1>1, <1>3, <1>8
  <2>4. y = [x EXCEPT !.present = FALSE, !.rejected = @ \/ q.sug = "reject"]
    BY <2>1, <2>3, Zenon
  <2>5. Marks(x, y) /\ (q.sug = "reject" => y.rejected)
    BY <2>4, RemovalMarks
  <2>6. n = PostStep(r) => Settled(r)'
    BY <1>1, <1>2, <1>8 DEF Settled
  <2>7. Accounted(y) \/ r \in late
    <3>1. CASE q.sug = "reject"
      BY <2>5, <3>1 DEF Accounted
    <3>2. CASE q.sug # "reject"
      <4>1. x.performed \/ x.refused \/ r \in late
        BY <1>0, <1>1, <1>8, <2>3, <3>2 DEF Settled
      <4>2. QED  BY <2>5, <4>1 DEF Accounted, Marks
    <3>3. QED  BY <3>1, <3>2
  <2>8. QED  BY <1>6, <2>2, <2>3, <2>5, <2>6, <2>7
<1>9. QED  BY <1>0, <1>4, <1>5, <1>7, <1>8, AppsCases

LEMMA AnswersKnown == ASSUME NEW c PROVE AnswersTo(c) \subseteq Ans(c.route)
<1>1. CASE c.route \in ForAdmins
  <2>1. \A u : validadminidentity(u) \subseteq BOOLEAN
    BY DEF validadminidentity
  <2>2. AnswersTo(c) = UNION {IF ok THEN Body(c.route) ELSE {"33"} : ok \in validadminidentity(c.as)}
    BY <1>1, Zenon DEF AnswersTo
  <2>3. Ans(c.route) = Body(c.route) \cup {"33"}
    BY <1>1, Zenon DEF Ans
  <2>4. QED  BY <2>1, <2>2, <2>3
<1>2. CASE c.route \notin ForAdmins
  <2>1. Ans(c.route) = Body(c.route)
    BY <1>2, Zenon DEF Ans
  <2>2. "1" \in Ans("/users/removeapply")
    BY IntAnswers
  <2>3. \/ AnswersTo(c) = Body(c.route) \/ AnswersTo(c) = Body(c.route) \ Good
        \/ c.route = "/users/removeapply" /\ AnswersTo(c) = {"1"}
    BY <1>2, Zenon DEF AnswersTo
  <2>4. QED  BY <2>1, <2>2, <2>3
<1>3. QED  BY <1>1, <1>2

LEMMA ExecuteDoes ==
  ASSUME CommandsOK, NEW c \in calls, NEW a \in AnswersTo(c), NEW rows, Execute(c, a, rows)
  PROVE  \E d \in Daemons : Effect(d)
<1>0. PICK r, n, d : r = c.req /\ n = c.step /\ d = c.daemon
  OBVIOUS
<1>1. /\ calls' = calls \ {c} /\ apps' = AppsAfter(c, a)
      /\ done' = IF IsPost(c) /\ a \in Good THEN done \cup {r} ELSE done
      /\ UNCHANGED <<script, home, reqs, inbox, late, stray>>
      /\ \/ Awaited(c) /\ Return(d, a, rows)
         \/ UNCHANGED <<job, out, session, who, listed>>
  BY <1>0, Zenon DEF Execute
<1>2. /\ CommandShapes /\ CallOK(c) /\ d \in Daemons /\ CallsApart /\ NotForgottenUnlessRefused
      /\ \A e \in calls : CallOK(e)
  BY <1>0 DEF CommandsOK, CallOK
<1>3. /\ Sent(r) /\ r \in Requests /\ n \in Nat /\ PostStep(r) \in Nat
      /\ n = PostStep(r) => c.route = PostRoute(r) /\ Unposted(r)
      /\ IsPost(c) <=> n = PostStep(r)
  BY <1>0, RouteOf
<1>4. /\ apps' \in [DOMAIN apps' -> AppRec] /\ DOMAIN apps \subseteq DOMAIN apps'
      /\ \A z \in DOMAIN apps' : z \in DOMAIN apps \/ (z = r /\ n = PostStep(r))
      /\ \A z \in DOMAIN apps : AppKept(z)
      /\ n = PostStep(r) => Settled(r)'
      /\ \A z \in DOMAIN apps' :
            \/ Accounted(apps'[z])
            \/ z \in DOMAIN apps /\ ~Accounted(apps[z])
            \/ z = Req(r).app /\ r \in late
  BY <1>0, <1>1, AppsStep
<1>5. (\A x : Req(x)' = Req(x)) /\ Requests' = Requests
  BY <1>1 DEF Req, Requests
<1>6. Steady
  BY <1>1, <1>4, <1>5 DEF Steady
<1>7. Posts
  <2>1. n = PostStep(r) => Posted(r)
    BY <1>0, <1>1 DEF Posted
  <2>2. \A x : x \in done' => x \in done \/ (x = r /\ n = PostStep(r))
    BY <1>1, <1>3
  <2>3. QED  BY <1>4, <2>1, <2>2 DEF Posts
<1>8. NotForgottenUnlessRefused'
  <2>1. \A z \in DOMAIN apps : Accounted(apps[z]) \/ \E x \in late : Req(x).app = z
    BY <1>2 DEF NotForgottenUnlessRefused, Accounted
  <2>2. \A z \in DOMAIN apps' : Accounted(apps'[z]) \/ \E x \in late : Req(x).app = z
    BY <1>4, <2>1
  <2>3. late' = late
    BY <1>1
  <2>4. QED  BY <1>5, <2>2, <2>3 DEF NotForgottenUnlessRefused, Accounted
<1>9. done' \cup late' \cup (DOMAIN apps' \ DOMAIN OldApps) \subseteq Requests' /\ DOMAIN apps' \subseteq AppIds
  <2>1. done \cup late \cup (DOMAIN apps \ DOMAIN OldApps) \subseteq Requests /\ DOMAIN apps \subseteq AppIds
    BY <1>2 DEF CommandShapes
  <2>2. r \in AppIds
    BY <1>2, <1>3, RequestsAre DEF AppIds
  <2>3. DOMAIN apps' \subseteq DOMAIN apps \cup {r}
    BY <1>4
  <2>4. done' \subseteq done \cup {r} /\ late' = late
    BY <1>1
  <2>5. QED  BY <1>3, <1>5, <2>1, <2>2, <2>3, <2>4
<1>10. ASSUME Told', who' \in [Daemons -> Accounts], job' \in [Daemons -> Jobs \cup Halted],
              \A e \in Daemons \ {d} : job'[e] = job[e], TellsTruth(d), Rests(d) \/ Proceeds(d)
       PROVE  Effect(d)
  <2>1. /\ \A t \in Terms : script'[t] \in Seq([cmd : Cmds, sug : Sugs])
        /\ home' \in [Terms -> Daemons] /\ reqs' \in [Terms -> Seq(Rec)]
        /\ inbox' \in [Daemons -> SUBSET (Terms \X Nat)]
    <3>1. /\ \A t \in Terms : script[t] \in Seq([cmd : Cmds, sug : Sugs])
          /\ home \in [Terms -> Daemons] /\ reqs \in [Terms -> Seq(Rec)]
          /\ inbox \in [Daemons -> SUBSET (Terms \X Nat)]
      BY <1>2 DEF CommandShapes
    <3>2. script' = script /\ home' = home /\ reqs' = reqs /\ inbox' = inbox
      BY <1>1
    <3>3. QED  BY <3>1, <3>2
  <2>2. CommandShapes'
    BY <1>4, <1>9, <1>10, <2>1 DEF CommandShapes, Told
  <2>3. inbox' = inbox
    BY <1>1
  <2>4. QED  BY <1>5, <1>6, <1>7, <1>8, <1>10, <2>2, <2>3 DEF Effect, TellsTruth
<1>11. CASE UNCHANGED <<job, out, session, who, listed>>
  <2>1. Told' /\ who' \in [Daemons -> Accounts] /\ job' \in [Daemons -> Jobs \cup Halted]
    BY <1>1, <1>11, ShapesSplit DEF Told
  <2>2. TellsTruth(d)
    BY <1>11, SameOutcome DEF TellsTruth
  <2>3. Rests(d)
    BY <1>1, <1>11 DEF Rests
  <2>4. Effect(d)
    BY <1>10, <1>11, <2>1, <2>2, <2>3
  <2>5. QED  BY <1>2, <2>4
<1>12. CASE Awaited(c) /\ Return(d, a, rows)
  <2>1. job[d].phase = "wait" /\ job[d].req = r /\ job[d].step = n /\ Active(d)
    BY <1>0, <1>12 DEF Awaited, Active
  <2>2. PICK r1, n1, b : AtStep(d, r1, n1, b)
    BY <1>2, <2>1, UnderWay
  <2>3. AtStep(d, r, n, b)
    BY <2>1, <2>2 DEF AtStep
  <2>4. \A e \in calls : e.daemon = d /\ Awaited(e) => e = c
    <3>1. \A e \in calls : e.daemon = d /\ Awaited(e) => e.req = r /\ e.step = n
      BY <2>3 DEF AtStep
    <3>2. QED  BY <1>0, <1>2, <3>1 DEF CallsApart
  <2>5. a \in Answers /\ a \in Ans(c.route)
    BY AnswersKnown, KnownAnswers
  <2>6. n = PostStep(r) => KeptNext(r, a)
    <3>1. ASSUME n = PostStep(r)  PROVE Kept(r, a)'
      <4>1. a \in Ans(PostRoute(r)) /\ PostRoute(r)' = PostRoute(r)
        BY <1>3, <1>6, <2>5, <3>1, HandlerStays
      <4>2. (a \in Good => r \in done') /\ (r \in done' => a \in Good)
        BY <1>1, <1>3, <3>1 DEF Unposted
      <4>3. QED  BY <1>4, <3>1, <4>1, <4>2 DEF Kept
    <3>2. QED  BY <3>1 DEF KeptNext
  <2>7. /\ reqs' = reqs /\ calls' \subseteq calls
        /\ \A e \in calls : e.req = r => e \in calls' \/ e.step = n
        /\ \A e \in calls' : e.daemon = d /\ Awaited(e) => e.req \in late'
    BY <1>0, <1>1, <2>4
  <2>8. /\ Proceeds(d) /\ TellsTruth(d) /\ Told'
        /\ who' \in [Daemons -> Accounts] /\ job' \in [Daemons -> Jobs \cup Halted]
        /\ \A e \in Daemons \ {d} : job'[e] = job[e]
    BY <1>2, <1>6, <1>7, <1>12, <2>1, <2>3, <2>5, <2>6, <2>7, ReturnDoes
  <2>9. Effect(d)
    BY <1>10, <2>8
  <2>10. QED  BY <1>2, <2>9
<1>13. QED  BY <1>1, <1>11, <1>12

-----------------------------------------------------------------------------
(* The invariant of the commands is inductive. *)

LEMMA CommandsOKInit == CommandsInit => CommandsOK
<1>1. SUFFICES ASSUME CommandsInit  PROVE CommandsOK
  OBVIOUS
<1>2. /\ reqs = [t \in Terms |-> <<>>] /\ out = [t \in Terms |-> <<>>]
      /\ session = [t \in Terms |-> "nobody"] /\ inbox = [d \in Daemons |-> {}]
      /\ job = [d \in Daemons |-> NoJob] /\ who = [d \in Daemons |-> "nobody"]
      /\ calls = {} /\ apps = [i \in DOMAIN OldApps |-> Pending(OldApps[i])]
      /\ done = {} /\ late = {}
  BY <1>1 DEF CommandsInit
<1>3. script \in Scripts /\ home \in [Terms -> Daemons]
  BY <1>1, CommandsAssumption DEF CommandsInit
<1>4. ASSUME NEW t \in Terms  PROVE script[t] \in Seq([cmd : Cmds, sug : Sugs])
  <2>1. script[t] \in Seq([cmd : {tool.cmd : tool \in Tools}, sug : {"", "agree", "reject"}])
    BY <1>3, Zenon, CommandsAssumption
  <2>2. QED  BY <2>1, Zenon DEF Cmds, Sugs
<1>5. Requests = {}
  <2>1. ASSUME NEW t \in Terms  PROVE 1 .. Len(reqs[t]) = {}
    <3>1. Len(<<>>) = 0 /\ reqs[t] = <<>>
      BY <1>2
    <3>2. QED  BY <3>1
  <2>2. \A r : r \in Requests => \E t \in Terms : \E n \in 1 .. Len(reqs[t]) : r = <<t, n>>
    BY DEF Requests
  <2>3. QED  BY <2>1, <2>2
<1>6. /\ \A x \in Accounts \ {"nobody"} : TRUE
      /\ "nobody" \in Accounts
  BY Zenon DEF Accounts
<1>7. NoJob \in Halted /\ ~(NoJob.phase \in {"run", "wait"})
  BY DEF Halted, NoJob
<1>8. \A d \in Daemons : ~Active(d)
  BY <1>2, <1>7 DEF Active
<1>9. \A i \in DOMAIN OldApps : Pending(OldApps[i]) \in AppRec /\ Pending(OldApps[i]).present
  <2>1. \A k \in Kinds : Pending(k) \in AppRec /\ Pending(k).present
    BY DEF Pending, AppRec
  <2>2. QED  BY <2>1, ConstantFacts
<1>10. DOMAIN apps = DOMAIN OldApps /\ apps \in [DOMAIN apps -> AppRec]
       /\ \A i \in DOMAIN apps : apps[i].present
  BY <1>2, <1>9
<1>11. CommandShapes
  <2>1. \A t \in Terms : Len(out[t]) <= Len(reqs[t]) /\ Len(reqs[t]) <= Len(out[t]) + 1
    <3>1. Len(<<>>) = 0
      OBVIOUS
    <3>2. QED  BY <1>2, <3>1
  <2>2. reqs \in [Terms -> Seq(Rec)] /\ out \in [Terms -> Seq(Outcomes)]
    BY <1>2
  <2>3. session \in [Terms -> Accounts] /\ who \in [Daemons -> Accounts]
    BY <1>2, <1>6
  <2>4. job \in [Daemons -> Jobs \cup Halted] /\ inbox \in [Daemons -> SUBSET (Terms \X Nat)]
    BY <1>2, <1>7
  <2>5. done \cup late \cup (DOMAIN apps \ DOMAIN OldApps) \subseteq Requests /\ DOMAIN apps \subseteq AppIds
    BY <1>2, <1>10 DEF AppIds
  <2>6. QED  BY <1>3, <1>4, <1>10, <2>1, <2>2, <2>3, <2>4, <2>5 DEF CommandShapes
<1>12. Inboxes /\ CallsApart /\ NotForgottenUnlessRefused
  BY <1>2, <1>10 DEF Inboxes, CallsApart, NotForgottenUnlessRefused
<1>13. QED  BY <1>2, <1>5, <1>8, <1>11, <1>12 DEF CommandsOK

LEMMA CommandsOKStutters == CommandsOK /\ UNCHANGED cvars => CommandsOK'
<1>1. SUFFICES ASSUME CommandsOK, UNCHANGED cvars  PROVE CommandsOK'
  OBVIOUS
<1>2. UNCHANGED <<script, home, reqs, out, session, inbox, job, who, listed, calls, apps, done,
                  late, stray, lost>>
  BY <1>1 DEF cvars
<1>3. /\ CommandShapes /\ NotForgottenUnlessRefused /\ CallsApart
      /\ \A c \in calls : c.daemon \in Daemons
  BY <1>1 DEF CommandsOK, CallOK
<1>4. Requests' = Requests
  BY <1>2 DEF Requests
<1>5. CASE Daemons # {}
  <2>1. PICK d : d \in Daemons
    BY <1>5
  <2>2. Told'
    BY <1>1, <1>2, ShapesSplit DEF Told
  <2>3. Locally(d)
    BY <1>1, <1>2, <2>2, ShapesSplit DEF Locally
  <2>4. TellsTruth(d) /\ Rests(d)
    BY <1>2, SameOutcome DEF TellsTruth, Rests
  <2>5. QED  BY <1>1, <2>1, <2>3, <2>4, LocalEffect, EffectKeeps
<1>6. CASE Daemons = {}
  <2>1. Terms = {}
    <3>1. \A t \in Terms : home[t] \in Daemons
      BY <1>1, HomeOf
    <3>2. QED  BY <1>6, <3>1
  <2>2. Requests' = {}
    BY <1>4, <2>1 DEF Requests
  <2>3. calls' = {}
    BY <1>2, <1>3, <1>6
  <2>4. CommandShapes'
    BY <1>2, <1>3, <1>4 DEF CommandShapes
  <2>5. NotForgottenUnlessRefused'
    BY <1>2, <1>3, SameSteady, ForgottenStays
  <2>6. QED  BY <1>6, <2>2, <2>3, <2>4, <2>5 DEF CommandsOK, Inboxes, CallsApart
<1>7. QED  BY <1>5, <1>6

LEMMA CommandsOKNext == CommandsOK /\ [CommandsNext]_cvars => CommandsOK'
<1>1. SUFFICES ASSUME CommandsOK, [CommandsNext]_cvars  PROVE CommandsOK'
  OBVIOUS
<1>2. CASE \E t \in Terms : Terminal(t) \/ Timeout(t)
  <2>1. PICK t \in Terms : Terminal(t) \/ Timeout(t)
    BY <1>2
  <2>2. CASE BadArguments(t)
    BY <1>1, <2>2, BadArgumentsDoes, EffectKeeps
  <2>3. CASE \E name \in Users \cup {NoAnswer}, app \in {<<>>} \cup DOMAIN apps : Send(t, name, app)
    <3>1. Users \cup {NoAnswer} = Names
      BY Zenon DEF Names, NoAnswer
    <3>2. QED  BY <1>1, <2>3, <3>1, SendDoes, EffectKeeps
  <2>4. CASE Timeout(t)
    BY <1>1, <2>4, TimeoutDoes, EffectKeeps
  <2>5. QED  BY <2>1, <2>2, <2>3, <2>4, Zenon DEF Terminal, NoAnswer
<1>3. CASE \E d \in Daemons : Daemon(d) \/ LoginLost(d)
  <2>1. PICK d \in Daemons : Daemon(d) \/ LoginLost(d)
    BY <1>3
  <2>2. Effect(d)
    BY <1>1, <2>1, TakeDoes, TestDoes, CallDoes, DoneDoes, RpcTimeoutDoes, LoginLostDoes DEF Daemon
  <2>3. QED  BY <1>1, <2>2, EffectKeeps
<1>4. CASE Manager
  BY <1>1, <1>4, ExecuteDoes, EffectKeeps DEF Manager, Handle
<1>5. CASE UNCHANGED cvars
  BY <1>1, <1>5, CommandsOKStutters
<1>6. AllDone => UNCHANGED cvars
  BY DEF AllDone
<1>7. QED  BY <1>1, <1>2, <1>3, <1>4, <1>5, <1>6 DEF CommandsNext

-----------------------------------------------------------------------------
(* Whose account a request is made for. *)

\* Nobody hears of a tool's end twice.
Grows == \A r \in Requests : Outcome(r)' = Outcome(r) \/ Outcome(r) = "none"

LEMMA AnsweredGrows ==
  ASSUME CommandShapes, NEW r, r[1] \in Terms, NEW a, Answered(r, a)
  PROVE  Grows
<1>1. CASE Len(out[r[1]]) + 1 = r[2]
  <2>1. \E v : out' = [out EXCEPT ![r[1]] = Append(@, v)]
    BY <1>1 DEF Answered
  <2>2. QED  BY <2>1, OutAppend DEF Grows
<1>2. CASE Len(out[r[1]]) + 1 # r[2]
  BY <1>2, SameOutcome DEF Answered, Grows
<1>3. QED  BY <1>1, <1>2

LEMMA CleanBefore ==
  ASSUME CommandShapes, Steady, Grows, NEW t \in Terms, NEW k \in Nat, k <= Len(reqs[t]), Clean(t, k)'
  PROVE  Clean(t, k)
<1>1. SUFFICES ASSUME NEW m \in 1 .. k
               PROVE  Outcome(<<t, m>>) # "timeout" /\ <<t, m>> \notin late
  BY DEF Clean
<1>2. PICK r : r = <<t, m>>
  OBVIOUS
<1>3. Outcome(r)' # "timeout" /\ r \notin late'
  BY <1>2 DEF Clean
<1>4. r \in Requests
  <2>1. Len(reqs[t]) \in Nat
    BY Lengths
  <2>2. m \in Nat /\ m \in 1 .. Len(reqs[t])
    BY <2>1
  <2>3. QED  BY <1>2, <2>2, RequestsAre
<1>5. Outcome(r) # "timeout"
  BY <1>3, <1>4 DEF Grows
<1>6. QED  BY <1>2, <1>3, <1>5 DEF Steady

\* The request that the daemon of a lone terminal has is the terminal's last.
LEMMA Serves ==
  ASSUME CommandShapes, NEW t \in Terms, Alone(t), Clean(t, Len(reqs[t])),
         NEW r \in Requests, home[r[1]] = home[t], Open(r)
  PROVE  /\ r = <<t, Len(reqs[t])>> /\ Len(reqs[t]) = Len(out[t]) + 1
         /\ r[1] = t /\ r[2] = Len(out[t]) + 1
<1>1. /\ r[1] \in Terms /\ r[2] \in Nat /\ r[2] \in 1 .. Len(reqs[r[1]]) /\ r = <<r[1], r[2]>>
  BY RequestsAre
<1>2. r[1] = t
  BY <1>1 DEF Alone
<1>3. PICK n, k, l : n = r[2] /\ k = Len(reqs[t]) /\ l = Len(out[t])
  OBVIOUS
<1>4. n \in 1 .. k /\ k \in Nat /\ l \in Nat /\ k <= l + 1
  BY <1>1, <1>2, <1>3, Lengths
<1>5. Outcome(<<t, n>>) # "timeout"
  BY <1>3, <1>4 DEF Clean
<1>6. Outcome(r) = "none"
  BY <1>1, <1>2, <1>3, <1>5 DEF Open
<1>7. ~(n <= l)
  <2>1. ASSUME n <= l  PROVE FALSE
    <3>1. Outcome(r) = out[t][n]
      BY <1>2, <1>3, <2>1 DEF Outcome
    <3>2. out[t] \in Seq(Outcomes)
      BY DEF CommandShapes
    <3>3. out[t][n] \in Outcomes
      BY <1>3, <1>4, <2>1, <3>2, ElementOfSeq
    <3>4. QED  BY <1>6, <3>1, <3>3 DEF Outcomes
  <2>2. QED  BY <2>1
<1>8. n = k /\ k = l + 1
  BY <1>4, <1>7
<1>9. QED  BY <1>1, <1>2, <1>3, <1>8

\* What is known of a lone terminal before and after a step that makes no request of it.
CleanNext(t, k) == Clean(t, k)'
FittingNext(t, d, r) == Fitting(t, d, r)'
OwnCase(t, d, r, k) ==
  /\ d = home[t] /\ d \in Daemons /\ k = Len(reqs[t]) /\ k \in Nat /\ r = <<t, k>>
  /\ Alone(t) /\ Clean(t, k) /\ CleanNext(t, k) /\ Fitting(t, d, r)

LEMMA OwnBefore ==
  ASSUME NEW t, Own(t), NEW d, d = home[t], NEW k, k = Len(reqs[t]), Alone(t), Clean(t, k)
  PROVE  Fitting(t, d, <<t, k>>)
BY DEF Own

LEMMA OwnAfter ==
  ASSUME NEW t, home' = home, NEW d, d = home[t], NEW k, k = Len(reqs'[t]),
         Alone(t) /\ CleanNext(t, k) => FittingNext(t, d, <<t, k>>)
  PROVE  Own(t)'
<1>1. Alone(t)' = Alone(t)
  BY DEF Alone
<1>2. QED  BY <1>1 DEF Own, CleanNext, FittingNext

LEMMA OwnBy ==
  ASSUME CommandsOK, Steady, Grows, NEW t \in Terms, Own(t), reqs'[t] = reqs[t],
         \A d, r, k : OwnCase(t, d, r, k) => FittingNext(t, d, r)
  PROVE  Own(t)'
<1>1. PICK d, k : d = home[t] /\ k = Len(reqs[t])
  OBVIOUS
<1>2. CommandShapes /\ d \in Daemons /\ k \in Nat /\ home' = home /\ k = Len(reqs'[t])
  BY <1>1, HomeOf, Lengths DEF CommandsOK, Steady
<1>3. ASSUME Alone(t), CleanNext(t, k)  PROVE FittingNext(t, d, <<t, k>>)
  <2>1. Clean(t, k)
    <3>1. Clean(t, k)'
      BY <1>3 DEF CleanNext
    <3>2. k <= Len(reqs[t])
      BY <1>1, <1>2
    <3>3. QED  BY <1>2, <3>1, <3>2, CleanBefore
  <2>2. Fitting(t, d, <<t, k>>)
    BY <1>1, <1>3, <2>1, OwnBefore
  <2>3. OwnCase(t, d, <<t, k>>, k)
    BY <1>1, <1>2, <1>3, <2>1, <2>2 DEF OwnCase
  <2>4. QED  BY <2>3
<1>4. QED  BY <1>1, <1>2, <1>3, OwnAfter

\* A step that does not touch a terminal and its daemon.
LEMMA OwnSame ==
  ASSUME CommandsOK, Steady, Grows, NEW t \in Terms, Own(t), reqs'[t] = reqs[t],
         Len(out'[t]) = Len(out[t]), session'[t] = session[t],
         job'[home[t]] = job[home[t]], who'[home[t]] = who[home[t]]
  PROVE  Own(t)'
<1>1. ASSUME NEW d, NEW r, NEW k, OwnCase(t, d, r, k)  PROVE FittingNext(t, d, r)
  <2>1. d = home[t] /\ d \in Daemons /\ r = <<t, k>> /\ Fitting(t, d, r) /\ CommandShapes
    BY <1>1 DEF OwnCase, CommandsOK
  <2>2. Req(r)' = Req(r) /\ (Waiting(t)' <=> Waiting(t)) /\ (Active(d)' <=> Active(d))
    BY <2>1 DEF Req, Waiting, Active
  <2>3. Active(d) => PostStep(r)' = PostStep(r)
    <3>1. ASSUME Active(d)  PROVE Sent(r)
      <4>1. JobOK(d) /\ job[d].req = r
        BY <2>1, <3>1 DEF CommandsOK, Fitting
      <4>2. QED  BY <4>1 DEF JobOK, JobAt, At
    <3>2. QED  BY <3>1, HandlerStays
  <2>4. PICK q, p : q = Req(r) /\ p = PostStep(r)
    OBVIOUS
  <2>5. Req(r)' = q /\ (Active(d) => PostStep(r)' = p)
    BY <2>2, <2>3, <2>4
  <2>6. Fitting(t, d, r)'
    BY <2>1, <2>2, <2>4, <2>5 DEF Fitting
  <2>7. QED  BY <2>6 DEF FittingNext
<1>2. QED  BY <1>1, OwnBy

LEMMA AnsweredOther ==
  ASSUME CommandShapes, NEW r, NEW a, Answered(r, a), NEW t \in Terms, t # r[1]
  PROVE  out'[t] = out[t] /\ session'[t] = session[t]
<1>1. out \in [Terms -> Seq(Outcomes)] /\ session \in [Terms -> Accounts]
  BY DEF CommandShapes
<1>2. \/ out' = out /\ session' = session
      \/ \E v, w : out' = [out EXCEPT ![r[1]] = v] /\ session' = [session EXCEPT ![r[1]] = w]
  BY DEF Answered
<1>3. QED  BY <1>1, <1>2

\* A step of a daemon.
LEMMA OwnByDaemon ==
  ASSUME CommandsOK, Steady, NEW e \in Daemons, reqs' = reqs,
         \A x \in Daemons \ {e} : job'[x] = job[x] /\ who'[x] = who[x],
         NEW r, NEW a, Answered(r, a) \/ UNCHANGED <<out, session>>,
         r \in Requests /\ home[r[1]] = e,
         NEW t \in Terms, Own(t), home[t] # e
  PROVE  Own(t)'
<1>1. CommandShapes /\ r[1] \in Terms /\ home[t] \in Daemons
  BY RequestsAre, HomeOf DEF CommandsOK
<1>2. Grows
  BY <1>1, AnsweredGrows, SameOutcome DEF Grows
<1>3. out'[t] = out[t] /\ session'[t] = session[t]
  <2>1. t # r[1]
    OBVIOUS
  <2>2. QED  BY <1>1, <2>1, AnsweredOther
<1>4. QED  BY <1>1, <1>2, <1>3, OwnSame

\* What is known of the handler of a lone terminal's request.
Held(t, d, r, k, n, a) ==
  /\ OwnCase(t, d, r, k) /\ AtStep(d, r, n, a) /\ r[1] = t /\ k = Len(out[t]) + 1 /\ r[2] = k
  /\ Req(r).want = session[t] /\ r \notin late'
  /\ who[d] = Becomes(session[t], job[d], Req(r), PostStep(r))

LEMMA HeldOf ==
  ASSUME CommandsOK, NEW t \in Terms, NEW d, NEW r, NEW k, OwnCase(t, d, r, k), Active(d)
  PROVE  \E n, a : Held(t, d, r, k, n, a)
<1>1. /\ d = home[t] /\ d \in Daemons /\ k = Len(reqs[t]) /\ k \in Nat /\ r = <<t, k>> /\ Alone(t)
      /\ Clean(t, k) /\ CleanNext(t, k) /\ Fitting(t, d, r) /\ CommandShapes
  BY DEF OwnCase, CommandsOK
<1>2. PICK q, n, a : AtStep(d, q, n, a)
  BY <1>1, UnderWay
<1>3. q = r
  BY <1>1, <1>2 DEF AtStep, Fitting
<1>4. r \in Requests /\ Open(r) /\ home[r[1]] = home[t]
  BY <1>1, <1>2, <1>3 DEF AtStep
<1>5. k = Len(out[t]) + 1 /\ r[1] = t /\ r[2] = k
  BY <1>1, <1>4, Serves
<1>6. Len(out[t]) \in Nat
  BY <1>1, Lengths
<1>7. Waiting(t)
  BY <1>1, <1>5, <1>6 DEF Waiting
<1>8. r \notin late'
  <2>1. k \in 1 .. k
    BY <1>1, <1>5, <1>6
  <2>2. QED  BY <1>1, <2>1 DEF CleanNext, Clean
<1>9. Held(t, d, r, k, n, a)
  BY <1>1, <1>2, <1>3, <1>5, <1>7, <1>8 DEF Held, Fitting
<1>10. QED  BY <1>9

LEMMA FitNext ==
  ASSUME NEW t, NEW d, NEW r, NEW j, j = job'[d], NEW q, q = Req(r)', NEW p, p = PostStep(r)',
         Waiting(t)' => q.want = session'[t],
         j.phase = "idle" => who'[d] = session'[t],
         j.phase \in {"run", "wait"} => j.req = r /\ who'[d] = Becomes(session'[t], j, q, p)
  PROVE  FittingNext(t, d, r)
<1>1. Fitting(t, d, r)'
  BY DEF Fitting, Active
<1>2. QED  BY <1>1 DEF FittingNext

LEMMA SameGrows == ASSUME out' = out PROVE Grows
BY SameOutcome DEF Grows

LEMMA TimeoutOwn ==
  ASSUME CommandsOK, NEW u \in Terms, Timeout(u), NEW t \in Terms, Own(t)
  PROVE  Own(t)'
<1>1. /\ Waiting(u) /\ out' = [out EXCEPT ![u] = Append(@, "timeout")]
      /\ UNCHANGED <<script, home, reqs, session, inbox, job, who, listed, calls, apps, done,
                     late, stray, lost>>
      /\ CommandShapes
  BY DEF Timeout, CommandsOK
<1>2. Steady
  BY <1>1, SameSteady
<1>3. Grows
  BY <1>1, OutAppend DEF Grows
<1>4. CASE t # u
  <2>1. out'[t] = out[t]
    BY <1>1, <1>4 DEF CommandShapes
  <2>2. QED  BY <1>1, <1>2, <1>3, <2>1, OwnSame
<1>5. CASE t = u
  <2>1. ASSUME NEW d, NEW r, NEW k, OwnCase(t, d, r, k)  PROVE FALSE
    <3>1. k = Len(reqs[t]) /\ r = <<t, k>> /\ CleanNext(t, k) /\ k \in Nat
      BY <2>1 DEF OwnCase
    <3>2. k = Len(out[t]) + 1 /\ Len(out[t]) \in Nat /\ k \in 1 .. Len(reqs[t])
      BY <1>1, <1>5, <3>1, Lengths DEF Waiting
    <3>3. r \in Requests
      BY <1>1, <3>1, <3>2, RequestsAre
    <3>4. Outcome(r)' = "timeout"
      BY <1>1, <1>5, <3>1, <3>2, <3>3, OutAppend
    <3>5. Outcome(r)' # "timeout"
      BY <3>1, <3>2 DEF CleanNext, Clean
    <3>6. QED  BY <3>4, <3>5
  <2>2. QED  BY <1>1, <1>2, <1>3, <2>1, OwnBy
<1>6. QED  BY <1>4, <1>5

\* A terminal makes a request while nothing of it is under way.
LEMMA OwnRequest ==
  ASSUME CommandsOK, Steady, Grows, NEW t \in Terms, Own(t), NEW q,
         reqs' = [reqs EXCEPT ![t] = Append(@, q)], q.want = session[t],
         Len(out[t]) = Len(reqs[t]), UNCHANGED <<home, session, job, who>>
  PROVE  Own(t)'
<1>1. PICK d, k, l : d = home[t] /\ k = Len(reqs[t]) /\ l = k + 1
  OBVIOUS
<1>2. CommandShapes /\ d \in Daemons /\ k \in Nat /\ k = Len(out[t])
  BY <1>1, HomeOf, Lengths DEF CommandsOK
<1>3. Len(reqs'[t]) = l /\ Req(<<t, l>>)' = q
  BY <1>1, <1>2, RequestMade
<1>4. ASSUME Alone(t), CleanNext(t, l)  PROVE FittingNext(t, d, <<t, l>>)
  <2>1. Clean(t, k)'
    <3>1. Clean(t, l)'
      BY <1>4 DEF CleanNext
    <3>2. \A m \in 1 .. k : m \in 1 .. l
      BY <1>1, <1>2
    <3>3. QED  BY <3>1, <3>2 DEF Clean
  <2>2. Clean(t, k)
    <3>1. k <= Len(reqs[t])
      BY <1>1, <1>2
    <3>2. QED  BY <1>2, <2>1, <3>1, CleanBefore
  <2>3. Fitting(t, d, <<t, k>>)
    BY <1>1, <1>4, <2>2, OwnBefore
  <2>4. OwnCase(t, d, <<t, k>>, k)
    BY <1>1, <1>2, <1>4, <2>1, <2>2, <2>3 DEF OwnCase, CleanNext
  <2>5. ~Active(d)
    <3>1. ASSUME Active(d)  PROVE FALSE
      <4>1. \E n, a : Held(t, d, <<t, k>>, k, n, a)
        BY <2>4, <3>1, HeldOf
      <4>2. k = Len(out[t]) + 1
        BY <4>1 DEF Held
      <4>3. QED  BY <1>2, <4>2
    <3>2. QED  BY <3>1
  <2>6. PICK j, p : j = job[d] /\ p = PostStep(<<t, l>>)'
    OBVIOUS
  <2>7. /\ j = job'[d] /\ ~(j.phase \in {"run", "wait"})
        /\ j.phase = "idle" => who'[d] = session'[t]
        /\ q.want = session'[t]
    BY <2>3, <2>5, <2>6 DEF Fitting, Active
  <2>8. QED  BY <1>3, <2>6, <2>7, FitNext
<1>5. QED  BY <1>1, <1>3, <1>4, OwnAfter

LEMMA BadArgumentsOwn ==
  ASSUME CommandsOK, NEW u \in Terms, BadArguments(u), NEW t \in Terms, Own(t)
  PROVE  Own(t)'
<1>1. PICK q : q = [cmd |-> Typed(u).cmd, sug |-> Typed(u).sug, name |-> NoAnswer, app |-> <<>>,
                    want |-> session[u]]
  OBVIOUS
<1>2. /\ CanStart(u) /\ reqs' = [reqs EXCEPT ![u] = Append(@, q)]
      /\ out' = [out EXCEPT ![u] = Append(@, "usage")]
      /\ UNCHANGED <<script, home, session, inbox, job, who, listed, calls, apps, done, late,
                     stray, lost>>
      /\ CommandShapes
  BY <1>1, Zenon DEF BadArguments, NoAnswer, CommandsOK
<1>3. q.want = session[u] /\ Len(out[u]) = Len(reqs[u])
  BY <1>1, <1>2, TypedOK
<1>4. Steady
  BY <1>2, MadeSteady
<1>5. Grows
  BY <1>2, OutAppend DEF Grows
<1>6. CASE t = u
  BY <1>2, <1>3, <1>4, <1>5, <1>6, OwnRequest
<1>7. CASE t # u
  <2>1. reqs'[t] = reqs[t] /\ out'[t] = out[t]
    BY <1>2, <1>7 DEF CommandShapes
  <2>2. QED  BY <1>2, <1>4, <1>5, <2>1, OwnSame
<1>8. QED  BY <1>6, <1>7

LEMMA SendOwn ==
  ASSUME CommandsOK, NEW u \in Terms, NEW name, NEW app, Send(u, name, app), NEW t \in Terms, Own(t)
  PROVE  Own(t)'
<1>1. PICK q : q = [cmd |-> Typed(u).cmd, sug |-> Typed(u).sug, name |-> name, app |-> app,
                    want |-> session[u]]
  OBVIOUS
<1>2. /\ CanStart(u) /\ reqs' = [reqs EXCEPT ![u] = Append(@, q)]
      /\ UNCHANGED <<script, home, out, session, job, who, listed, calls, apps, done, late,
                     stray, lost>>
      /\ CommandShapes
  BY <1>1, Zenon DEF Send, CommandsOK
<1>3. q.want = session[u] /\ Len(out[u]) = Len(reqs[u])
  BY <1>1, <1>2, TypedOK
<1>4. Steady
  BY <1>2, MadeSteady
<1>5. Grows
  BY <1>2, SameGrows
<1>6. CASE t = u
  BY <1>2, <1>3, <1>4, <1>5, <1>6, OwnRequest
<1>7. CASE t # u
  <2>1. reqs'[t] = reqs[t]
    BY <1>2, <1>7 DEF CommandShapes
  <2>2. QED  BY <1>2, <1>4, <1>5, <2>1, OwnSame
<1>8. QED  BY <1>6, <1>7

LEMMA BecomesEarly ==
  ASSUME NEW s, NEW j, NEW q, NEW p, ~(j.step > p)
  PROVE  Becomes(s, j, q, p) = s
BY DEF Becomes

\* The requests that change the account are not turned down unnoticed.
LEMMA SpecialDown ==
  ASSUME CommandShapes, NEW r, Sent(r), NEW n \in 1 .. Len(HandlerFor(r).steps), n < PostStep(r),
         Req(r).cmd \in Special
  PROVE  /\ ~IsAsk(HandlerFor(r).steps[n])
         /\ IsTest(HandlerFor(r).steps[n]) => Verdict(ToolOf(Req(r).cmd), "refused") # "success"
<1>1. TurnsDown(ToolOf(Req(r).cmd), HandlerFor(r), PostStep(r)) /\ PostStep(r) \in Nat
  BY SentProper DEF Proper
<1>2. ToolOf(Req(r).cmd).cmd = Req(r).cmd
  <2>1. Req(r) \in Rec
    BY RequestsAre DEF Sent
  <2>2. QED  BY <2>1, ToolKnown DEF Rec
<1>3. Req(r).cmd \notin Queries
  BY DEF Special, Queries
<1>4. n \in 1 .. PostStep(r) - 1
  BY <1>1
<1>5. /\ ~IsAsk(HandlerFor(r).steps[n])
      /\ IsTest(HandlerFor(r).steps[n]) => "refused" \in ToolOf(Req(r).cmd).bad
  BY <1>1, <1>2, <1>3, <1>4 DEF TurnsDown, Special
<1>6. "refused" \in ToolOf(Req(r).cmd).bad => Verdict(ToolOf(Req(r).cmd), "refused") # "success"
  BY DEF Verdict
<1>7. QED  BY <1>5, <1>6

\* A lone terminal hears of its request.
LEMMA AnsweredOwn ==
  ASSUME CommandShapes, NEW t \in Terms, NEW r, r[1] = t, r[2] = Len(out[t]) + 1, NEW a, Answered(r, a),
         NEW q, q = Req(r)
  PROVE  /\ Len(out'[t]) = Len(out[t]) + 1
         /\ session'[t] = IF Verdict(ToolOf(q.cmd), a) = "success" /\ q.cmd = "userlogin" THEN q.name
                          ELSE IF Verdict(ToolOf(q.cmd), a) = "success" /\ q.cmd = "userexit" THEN "exited"
                          ELSE session[t]
<1>1. out \in [Terms -> Seq(Outcomes)] /\ session \in [Terms -> Accounts]
  BY DEF CommandShapes
<1>2. PICK v : v = Verdict(ToolOf(q.cmd), a)
  OBVIOUS
<1>3. /\ out' = [out EXCEPT ![t] = Append(@, v)]
      /\ session' = [session EXCEPT ![t] =
            IF v = "success" /\ q.cmd = "userlogin" THEN q.name
            ELSE IF v = "success" /\ q.cmd = "userexit" THEN "exited" ELSE @]
  BY <1>2 DEF Answered
<1>4. out'[t] = Append(out[t], v) /\ out[t] \in Seq(Outcomes)
  BY <1>1, <1>3
<1>5. Len(out'[t]) = Len(out[t]) + 1
  <2>1. PICK s : s = out[t]
    OBVIOUS
  <2>2. s \in Seq(Outcomes) /\ out'[t] = Append(s, v)
    BY <1>4, <2>1
  <2>3. Len(Append(s, v)) = Len(s) + 1
    BY <2>2
  <2>4. QED  BY <2>1, <2>2, <2>3
<1>6. session'[t] = IF v = "success" /\ q.cmd = "userlogin" THEN q.name
                    ELSE IF v = "success" /\ q.cmd = "userexit" THEN "exited" ELSE session[t]
  BY <1>1, <1>3
<1>7. QED  BY <1>2, <1>5, <1>6

\* The daemon is done with a lone terminal's request.
LEMMA FinishedOwn ==
  ASSUME CommandsOK, Steady, NEW t \in Terms, NEW d, NEW r, NEW k, NEW n, NEW b, Held(t, d, r, k, n, b),
         reqs' = reqs, NEW a, Finish(d, a), NEW q, q = Req(r),
         who'[d] = IF Verdict(ToolOf(q.cmd), a) = "success" /\ q.cmd = "userlogin" THEN q.name
                   ELSE IF Verdict(ToolOf(q.cmd), a) = "success" /\ q.cmd = "userexit" THEN "exited"
                   ELSE session[t]
  PROVE  FittingNext(t, d, r)
<1>1. /\ CommandShapes /\ r[1] = t /\ r[2] = Len(out[t]) + 1 /\ k = Len(reqs[t]) /\ k = Len(out[t]) + 1
      /\ Answered(r, a) /\ job' = [job EXCEPT ![d] = NoJob] /\ d \in Daemons
  BY DEF Held, OwnCase, AtStep, Finish
<1>2. Len(out'[t]) = Len(out[t]) + 1 /\ who'[d] = session'[t]
  BY <1>1, AnsweredOwn
<1>3. ~Waiting(t)'
  <2>1. Len(out[t]) \in Nat
    BY <1>1, Lengths
  <2>2. QED  BY <1>1, <1>2, <2>1 DEF Waiting
<1>4. PICK j, p, y : j = job'[d] /\ p = PostStep(r)' /\ y = Req(r)'
  OBVIOUS
<1>5. j.phase = "idle"
  BY <1>1, <1>4, ShapesSplit DEF NoJob
<1>6. QED  BY <1>2, <1>3, <1>4, <1>5, FitNext

LEMMA TakeOwn ==
  ASSUME CommandsOK, NEW e \in Daemons, NEW x \in inbox[e], Take(e, x), NEW t \in Terms, Own(t)
  PROVE  Own(t)'
<1>1. /\ job[e].phase = "idle"
      /\ job' = [job EXCEPT ![e] = [phase |-> "run", req |-> x, step |-> 1, ans |-> NoAnswer]]
      /\ UNCHANGED <<script, home, reqs, out, session, who, listed, calls, apps, done, late,
                     stray, lost>>
      /\ CommandShapes /\ At(x, e)
  BY Zenon DEF Take, NoAnswer, CommandsOK, Inboxes
<1>2. Steady /\ Grows
  BY <1>1, SameSteady, SameGrows
<1>3. CASE home[t] # e
  <2>1. job'[home[t]] = job[home[t]]
    BY <1>1, <1>3
  <2>2. QED  BY <1>1, <1>2, <2>1, OwnSame
<1>4. CASE home[t] = e
  <2>1. ASSUME NEW d, NEW r, NEW k, OwnCase(t, d, r, k)  PROVE FittingNext(t, d, r)
    <3>1. d = e /\ k = Len(reqs[t]) /\ r = <<t, k>> /\ Alone(t) /\ Clean(t, Len(reqs[t])) /\ Fitting(t, d, r)
      BY <1>4, <2>1 DEF OwnCase
    <3>2. x \in Requests /\ home[x[1]] = home[t] /\ Open(x) /\ Sent(x)
      BY <1>1, <1>4 DEF At, Sent
    <3>3. x = r
      BY <1>1, <3>1, <3>2, Serves
    <3>4. Req(r)' = Req(r) /\ PostStep(r)' = PostStep(r) /\ PostStep(r) \in Nat \ {0}
      BY <1>1, <1>2, <3>2, <3>3, HandlerStays, SentProper
    <3>5. PICK j, p, q : j = job'[d] /\ p = PostStep(r) /\ q = Req(r)
      OBVIOUS
    <3>6. j = [phase |-> "run", req |-> r, step |-> 1, ans |-> NoAnswer]
      BY <1>1, <3>1, <3>3, <3>5, ShapesSplit
    <3>7. Becomes(session'[t], j, q, p) = session'[t]
      BY <3>4, <3>5, <3>6, BecomesEarly
    <3>8. Waiting(t)' => q.want = session'[t]
      BY <1>1, <3>1, <3>5 DEF Fitting, Waiting
    <3>9. who'[d] = session'[t]
      BY <1>1, <3>1 DEF Fitting
    <3>10. QED  BY <3>4, <3>5, <3>6, <3>7, <3>8, <3>9, FitNext
  <2>2. QED  BY <1>1, <1>2, <2>1, OwnBy
<1>5. QED  BY <1>3, <1>4

\* A handler goes on, or asks, and its terminal hears nothing.
LEMMA GoesOnOwn ==
  ASSUME CommandsOK, Steady, NEW t \in Terms, NEW d, NEW r, NEW k, NEW n, NEW a, Held(t, d, r, k, n, a),
         UNCHANGED <<reqs, out, session>>,
         NEW j, j = job'[d], j.req = r, j.phase # "idle", NEW q, q = Req(r), NEW p, p = PostStep(r),
         who'[d] = Becomes(session[t], j, q, p)
  PROVE  FittingNext(t, d, r)
<1>1. Sent(r) /\ q.want = session[t]
  BY DEF Held, AtStep
<1>2. Req(r)' = q /\ PostStep(r)' = p
  BY <1>1, HandlerStays
<1>3. Becomes(session'[t], j, q, p) = Becomes(session[t], j, q, p) /\ q.want = session'[t]
  BY <1>1
<1>4. QED  BY <1>2, <1>3, FitNext

LEMMA TestOwn ==
  ASSUME CommandsOK, NEW e \in Daemons, Test(e), NEW t \in Terms, Own(t)
  PROVE  Own(t)'
<1>1. /\ job[e].phase = "run" /\ ~Ended(e) /\ ~Remote(Step(e))
      /\ \/ /\ job' = [job EXCEPT ![e].step = @ + 1]
            /\ UNCHANGED <<out, session>>
         \/ Finish(e, "refused")
      /\ UNCHANGED <<script, home, reqs, inbox, who, listed, calls, apps, done, late, stray, lost>>
  BY Zenon DEF Test, Remote
<1>2. Active(e) /\ Steady /\ CommandShapes
  BY <1>1, SameSteady DEF Active, CommandsOK
<1>3. PICK r, n, a : AtStep(e, r, n, a)
  BY <1>2, UnderWay
<1>4. /\ r = job[e].req /\ Sent(r) /\ r \in Requests /\ home[r[1]] = e
      /\ job[e] = [phase |-> "run", req |-> r, step |-> n, ans |-> a]
      /\ n \in 1 .. Len(HandlerFor(r).steps) /\ ~Remote(HandlerFor(r).steps[n])
  BY <1>1, <1>3 DEF AtStep
<1>5. n < PostStep(r) /\ IsTest(HandlerFor(r).steps[n]) /\ PostStep(r) \in Nat
  BY <1>2, <1>4, StepFacts, SentProper
<1>6. Answered(r, "refused") \/ UNCHANGED <<out, session>>
  BY <1>1, <1>4 DEF Finish
<1>7. r[1] \in Terms
  BY <1>2, <1>4, RequestsAre
<1>8. Grows
  BY <1>2, <1>6, <1>7, AnsweredGrows, SameGrows
<1>9. CASE home[t] # e
  <2>1. \A x \in Daemons \ {e} : job'[x] = job[x] /\ who'[x] = who[x]
    BY <1>1, ShapesSplit DEF Finish
  <2>2. QED  BY <1>1, <1>2, <1>4, <1>6, <1>9, <2>1, OwnByDaemon
<1>10. CASE home[t] = e
  <2>1. ASSUME NEW d, NEW r2, NEW k, OwnCase(t, d, r2, k)  PROVE FittingNext(t, d, r2)
    <3>1. d = e
      BY <1>10, <2>1 DEF OwnCase
    <3>2. PICK n2, a2 : Held(t, d, r2, k, n2, a2)
      BY <1>2, <2>1, <3>1, HeldOf
    <3>3. r2 = r /\ n2 = n
      BY <1>3, <3>1, <3>2 DEF Held, AtStep
    <3>4. PICK q, p, j0, j : q = Req(r) /\ p = PostStep(r) /\ j0 = job[d] /\ j = job'[d]
      OBVIOUS
    <3>5. who[d] = session[t]
      <4>1. ~(j0.step > p)
        BY <1>4, <1>5, <3>1, <3>4
      <4>2. QED  BY <3>2, <3>3, <3>4, <4>1, BecomesEarly DEF Held
    <3>6. who'[d] = session[t]
      BY <1>1, <3>5
    <3>7. CASE job' = [job EXCEPT ![e].step = @ + 1] /\ UNCHANGED <<out, session>>
      <4>1. j = [phase |-> "run", req |-> r, step |-> n + 1, ans |-> a]
        BY <1>4, <3>1, <3>4, <3>7, ShapesSplit
      <4>2. ~(j.step > p)
        BY <1>4, <1>5, <3>4, <4>1
      <4>3. who'[d] = Becomes(session[t], j, q, p)
        BY <3>6, <4>2, BecomesEarly
      <4>4. QED  BY <1>1, <1>2, <3>2, <3>3, <3>4, <3>7, <4>1, <4>3, GoesOnOwn
    <3>8. CASE Finish(e, "refused")
      <4>1. q.cmd \in Special => Verdict(ToolOf(q.cmd), "refused") # "success"
        BY <1>2, <1>4, <1>5, <3>4, SpecialDown
      <4>2. QED  BY <1>1, <1>2, <3>1, <3>2, <3>3, <3>4, <3>6, <3>8, <4>1, FinishedOwn DEF Special
    <3>9. QED  BY <1>1, <3>7, <3>8
  <2>2. QED  BY <1>1, <1>2, <1>8, <2>1, OwnBy
<1>11. QED  BY <1>9, <1>10

LEMMA CallOwn ==
  ASSUME CommandsOK, NEW e \in Daemons, Call(e), NEW t \in Terms, Own(t)
  PROVE  Own(t)'
<1>1. /\ job[e].phase = "run" /\ Active(e) /\ job' = [job EXCEPT ![e].phase = "wait"]
      /\ UNCHANGED <<script, home, reqs, out, session, inbox, who, listed, apps, done, late, lost>>
  BY DEF Call, Active
<1>2. Steady /\ Grows
  BY <1>1, SameSteady, SameGrows
<1>3. CASE home[t] # e
  <2>1. job'[home[t]] = job[home[t]]
    BY <1>1, <1>3
  <2>2. QED  BY <1>1, <1>2, <2>1, OwnSame
<1>4. CASE home[t] = e
  <2>1. ASSUME NEW d, NEW r, NEW k, OwnCase(t, d, r, k)  PROVE FittingNext(t, d, r)
    <3>1. d = e
      BY <1>4, <2>1 DEF OwnCase
    <3>2. PICK n, a : Held(t, d, r, k, n, a)
      BY <1>1, <2>1, <3>1, HeldOf
    <3>3. PICK q, p, j : q = Req(r) /\ p = PostStep(r) /\ j = job'[d]
      OBVIOUS
    <3>4. job[d] = [phase |-> "run", req |-> r, step |-> n, ans |-> a]
      BY <1>1, <3>1, <3>2 DEF Held, AtStep
    <3>5. j = [phase |-> "wait", req |-> r, step |-> n, ans |-> a]
      BY <1>1, <3>1, <3>3, <3>4, ShapesSplit
    <3>6. who'[d] = Becomes(session[t], j, q, p)
      BY <1>1, <3>2, <3>3, <3>4, <3>5 DEF Held, Becomes
    <3>7. QED  BY <1>1, <1>2, <3>2, <3>3, <3>5, <3>6, GoesOnOwn
  <2>2. QED  BY <1>1, <1>2, <2>1, OwnBy
<1>5. QED  BY <1>3, <1>4

LEMMA LoginLostOwn ==
  ASSUME CommandsOK, NEW e \in Daemons, LoginLost(e), NEW t \in Terms, Own(t)
  PROVE  Own(t)'
<1>1. /\ job[e].phase = "wait" /\ Active(e) /\ job' = [job EXCEPT ![e] = Stopped("stuck")]
      /\ UNCHANGED <<script, home, reqs, out, session, inbox, who, listed, apps, done, late, stray>>
  BY Zenon DEF LoginLost, Active
<1>2. Steady /\ Grows
  BY <1>1, SameSteady, SameGrows
<1>3. CASE home[t] # e
  <2>1. job'[home[t]] = job[home[t]]
    BY <1>1, <1>3
  <2>2. QED  BY <1>1, <1>2, <2>1, OwnSame
<1>4. CASE home[t] = e
  <2>1. ASSUME NEW d, NEW r, NEW k, OwnCase(t, d, r, k)  PROVE FittingNext(t, d, r)
    <3>1. d = e /\ Fitting(t, d, r) /\ r = <<t, k>>
      BY <1>4, <2>1 DEF OwnCase
    <3>2. PICK q, p, j : q = Req(r) /\ p = PostStep(r)' /\ j = job'[d]
      OBVIOUS
    <3>3. Req(r)' = q
      BY <1>1, <3>2 DEF Req
    <3>4. j.phase = "stuck"
      BY <1>1, <3>1, <3>2, ShapesSplit DEF Stopped
    <3>5. Waiting(t)' => q.want = session'[t]
      BY <1>1, <3>1, <3>2 DEF Fitting, Waiting
    <3>6. QED  BY <3>2, <3>3, <3>4, <3>5, FitNext
  <2>2. QED  BY <1>1, <1>2, <2>1, OwnBy
<1>5. QED  BY <1>3, <1>4

LEMMA DoneOwn ==
  ASSUME CommandsOK, NEW e \in Daemons, Done(e), NEW t \in Terms, Own(t)
  PROVE  Own(t)'
<1>0. job[e].phase = "run" /\ Ended(e) /\ Active(e) /\ CommandShapes
  BY DEF Done, Active, CommandsOK
<1>1. PICK r, n, a : AtStep(e, r, n, a)
  BY <1>0, UnderWay
<1>2. /\ r = job[e].req /\ n = job[e].step /\ a = job[e].ans
      /\ Sent(r) /\ r \in Requests /\ home[r[1]] = e /\ n \in Nat
      /\ n > Len(HandlerFor(r).steps) /\ Len(HandlerFor(r).steps) \in Nat /\ JobAt(e, "run", r, n, a)
  BY <1>0, <1>1 DEF AtStep
<1>3. PICK x \in Reply(HandlerFor(r).how, a) : Finish(e, x)
  BY <1>2 DEF Done
<1>4. UNCHANGED <<script, home, reqs, inbox, who, listed, calls, apps, done, late, stray, lost>>
  BY DEF Done
<1>5. Steady
  BY <1>4, SameSteady
<1>6. Answered(r, x) /\ job' = [job EXCEPT ![e] = NoJob]
  BY <1>2, <1>3 DEF Finish
<1>7. Grows
  BY <1>0, <1>2, <1>6, RequestsAre, AnsweredGrows
<1>8. CASE home[t] # e
  <2>1. \A y \in Daemons \ {e} : job'[y] = job[y] /\ who'[y] = who[y]
    BY <1>4, <1>6, ShapesSplit
  <2>2. QED  BY <1>2, <1>4, <1>5, <1>6, <1>8, <2>1, OwnByDaemon
<1>9. CASE home[t] = e
  <2>1. ASSUME NEW d, NEW r2, NEW k, OwnCase(t, d, r2, k)  PROVE FittingNext(t, d, r2)
    <3>1. d = e
      BY <1>9, <2>1 DEF OwnCase
    <3>2. PICK n2, a2 : Held(t, d, r2, k, n2, a2)
      BY <1>0, <2>1, <3>1, HeldOf
    <3>3. r2 = r /\ n2 = n /\ a2 = a
      BY <1>2, <3>1, <3>2 DEF Held, AtStep
    <3>4. r \notin late
      BY <1>4, <3>2, <3>3 DEF Held
    <3>5. PICK q, p, j : q = Req(r) /\ p = PostStep(r) /\ j = job[d]
      OBVIOUS
    <3>6. p \in Nat /\ n > p
      BY <1>0, <1>2, <3>5, SentProper
    <3>7. a \in Ans(PostRoute(r))
      BY <1>2, <3>4, <3>5, <3>6 DEF JobAt, Kept
    <3>8. /\ ToolOf(q.cmd).cmd = q.cmd
          /\ Reads(ToolOf(q.cmd), HandlerFor(r).how, PostRoute(r))
      <4>1. q \in Rec
        BY <1>0, <1>2, <3>5, RequestsAre
      <4>2. QED  BY <1>0, <1>2, <3>5, <4>1, ToolKnown, SentProper DEF Rec, Proper
    <3>9. q.cmd \in {"userlogin", "userexit"} => (Verdict(ToolOf(q.cmd), x) = "success" <=> a = "0")
      BY <1>3, <3>7, <3>8 DEF Reads
    <3>10. who[d] = Becomes(session[t], j, q, p) /\ j.step > p /\ j.ans = a
      BY <1>2, <3>1, <3>2, <3>3, <3>5, <3>6 DEF Held
    <3>11. who'[d] = IF Verdict(ToolOf(q.cmd), x) = "success" /\ q.cmd = "userlogin" THEN q.name
                     ELSE IF Verdict(ToolOf(q.cmd), x) = "success" /\ q.cmd = "userexit" THEN "exited"
                     ELSE session[t]
      BY <1>4, <3>9, <3>10 DEF Becomes
    <3>12. QED  BY <1>3, <1>4, <1>5, <3>1, <3>2, <3>3, <3>5, <3>11, FinishedOwn
  <2>2. QED  BY <1>4, <1>5, <1>7, <2>1, OwnBy
<1>10. QED  BY <1>8, <1>9

\* A lone terminal's daemon has the answer to a call, or none in time.
LEMMA ReturnOwn ==
  ASSUME CommandsOK, Steady, NEW t \in Terms, NEW d, NEW r, NEW k, NEW n, NEW a, Held(t, d, r, k, n, a),
         job[d].phase = "wait", reqs' = reqs, NEW x, NEW rows, Return(d, x, rows)
  PROVE  FittingNext(t, d, r)
<1>1. /\ CommandShapes /\ d \in Daemons /\ d = home[t] /\ r = <<t, k>> /\ k = Len(reqs[t])
      /\ r = job[d].req /\ Sent(r) /\ n \in Nat /\ JobAt(d, "wait", r, n, a)
      /\ job[d] = [phase |-> "wait", req |-> r, step |-> n, ans |-> a]
      /\ Step(d) = HandlerFor(r).steps[n] /\ Req(r).want = session[t]
      /\ who[d] = Becomes(session[t], job[d], Req(r), PostStep(r))
  BY DEF Held, OwnCase, AtStep
<1>2. /\ n \in 1 .. Len(HandlerFor(r).steps) /\ Remote(HandlerFor(r).steps[n])
      /\ PostStep(r) \in Nat
  BY <1>1, SentProper DEF JobAt
<1>3. PICK q, p, j0, j : q = Req(r) /\ p = PostStep(r) /\ j0 = job[d] /\ j = job'[d]
  OBVIOUS
<1>4. Req(r)' = q /\ PostStep(r)' = p
  BY <1>1, <1>3, HandlerStays
<1>5. n = p <=> Step(d).kind = "post"
  BY <1>1, <1>2, <1>3, StepFacts
<1>6. /\ who \in [Daemons -> Accounts]
      /\ who'[d] = IF Step(d).kind = "post" /\ q.cmd = "userlogin" /\ x = "0" THEN q.name
                   ELSE IF Step(d).kind = "post" /\ q.cmd = "userexit" /\ x = "0" THEN "exited"
                   ELSE who[d]
  <2>1. Keeps(d, x, rows)
    BY ReturnCases
  <2>2. who \in [Daemons -> Accounts]
    BY ShapesSplit
  <2>3. QED  BY <1>1, <1>3, <2>1, <2>2 DEF Keeps
<1>7. CASE job' = [job EXCEPT ![d] = Stopped("dead")] /\ UNCHANGED <<out, session>>
  <2>1. j.phase = "dead"
    BY <1>1, <1>3, <1>7, ShapesSplit DEF Stopped
  <2>2. Waiting(t)' => q.want = session'[t]
    BY <1>1, <1>3, <1>7
  <2>3. QED  BY <1>3, <1>4, <2>1, <2>2, FitNext
<1>8. ASSUME NEW y \in {"error", "-1"}, Step(d).kind \in {"id", "ids", "zone"}, Finish(d, y)
      PROVE  FittingNext(t, d, r)
  <2>1. Step(d).kind # "post" /\ Step(d).kind # "more"
    BY <1>8
  <2>2. n < p /\ IsAsk(HandlerFor(r).steps[n])
    BY <1>1, <1>2, <1>3, <2>1, StepFacts
  <2>3. q.cmd \notin Special
    BY <1>1, <1>2, <1>3, <2>2, SpecialDown
  <2>4. who[d] = session[t]
    <3>1. ~(j0.step > p)
      BY <1>1, <1>2, <1>3, <2>2
    <3>2. QED  BY <1>1, <1>3, <3>1, BecomesEarly
  <2>5. who'[d] = session[t]
    BY <1>6, <2>1, <2>4
  <2>6. who'[d] = IF Verdict(ToolOf(q.cmd), y) = "success" /\ q.cmd = "userlogin" THEN q.name
                  ELSE IF Verdict(ToolOf(q.cmd), y) = "success" /\ q.cmd = "userexit" THEN "exited"
                  ELSE session[t]
    BY <2>3, <2>5 DEF Special
  <2>7. QED  BY <1>3, <1>8, <2>6, FinishedOwn
<1>9. CASE GoesOn(d, x) /\ UNCHANGED <<out, session>>
  <2>1. PICK b : NextAnswer(d, x, a, b)
    BY DEF NextAnswer
  <2>2. JobIs(job'[d], "run", r, n + 1, b)
    <3>1. JobIs(job[d], "wait", r, n, a)
      BY <1>1 DEF JobIs
    <3>2. QED  BY <1>1, <1>9, <2>1, <3>1, ReturnJob
  <2>3. j.phase = "run" /\ j.req = r /\ j.step = n + 1 /\ j.ans = b /\ j0.step = n /\ j0.ans = a
    BY <1>1, <1>3, <2>2 DEF JobIs
  <2>4. who'[d] = Becomes(session[t], j, q, p)
    <3>1. CASE n < p
      <4>1. ~(j.step > p) /\ ~(j0.step > p)
        BY <1>2, <1>3, <2>3, <3>1
      <4>2. QED  BY <1>1, <1>2, <1>3, <1>5, <1>6, <3>1, <4>1, BecomesEarly
    <3>2. CASE n = p
      <4>1. b = x /\ j.step > p /\ ~(j0.step > p)
        BY <1>2, <1>3, <1>5, <2>1, <2>3, <3>2 DEF NextAnswer
      <4>2. who[d] = session[t]
        BY <1>1, <1>3, <4>1, BecomesEarly
      <4>3. QED  BY <1>5, <1>6, <2>3, <3>2, <4>1, <4>2 DEF Becomes
    <3>3. CASE n > p
      <4>1. b = a /\ j.step > p /\ j0.step > p
        BY <1>2, <1>3, <1>5, <2>1, <2>3, <3>3 DEF NextAnswer
      <4>2. who'[d] = who[d]
        BY <1>2, <1>3, <1>5, <1>6, <3>3
      <4>3. QED  BY <1>1, <1>3, <2>3, <4>1, <4>2 DEF Becomes
    <3>4. QED  BY <1>2, <1>3, <3>1, <3>2, <3>3
  <2>5. QED  BY <1>3, <1>9, <2>3, <2>4, GoesOnOwn
<1>10. QED  BY <1>7, <1>8, <1>9, ReturnCases

LEMMA ReturnElsewhere ==
  ASSUME CommandsOK, Steady, NEW e \in Daemons, NEW r, NEW n, NEW a, AtStep(e, r, n, a), reqs' = reqs,
         NEW x, NEW rows, Return(e, x, rows), NEW t \in Terms, Own(t)
  PROVE  Grows /\ (home[t] # e => Own(t)')
<1>1. CommandShapes /\ r = job[e].req /\ r \in Requests /\ home[r[1]] = e
  BY DEF AtStep
<1>2. /\ UNCHANGED <<out, session>> \/ \E y : Answered(r, y)
      /\ \E v : job' = [job EXCEPT ![e] = v]
  BY <1>1, ReturnCases DEF Finish, GoesOn
<1>3. Grows
  BY <1>1, <1>2, RequestsAre, AnsweredGrows, SameGrows
<1>4. \A y \in Daemons \ {e} : job'[y] = job[y] /\ who'[y] = who[y]
  <2>1. Keeps(e, x, rows)
    BY ReturnCases
  <2>2. \E v : who' = [who EXCEPT ![e] = v]
    BY <2>1 DEF Keeps
  <2>3. QED  BY <1>2, <2>2, ShapesSplit
<1>5. home[t] # e => Own(t)'
  BY <1>1, <1>2, <1>4, OwnByDaemon
<1>6. QED  BY <1>3, <1>5

LEMMA RpcTimeoutOwn ==
  ASSUME CommandsOK, NEW e \in Daemons, RpcTimeout(e), NEW t \in Terms, Own(t)
  PROVE  Own(t)'
<1>1. /\ job[e].phase = "wait" /\ late' = late \cup {job[e].req} /\ Return(e, NoAnswer, {}) /\ Active(e)
      /\ UNCHANGED <<script, home, reqs, inbox, calls, apps, done, stray>>
  BY Zenon DEF RpcTimeout, NoAnswer, Active
<1>2. PICK r, n, a : AtStep(e, r, n, a)
  BY <1>1, UnderWay
<1>3. Steady
  BY <1>1, SameSteady
<1>4. Grows /\ (home[t] # e => Own(t)')
  BY <1>1, <1>2, <1>3, ReturnElsewhere
<1>5. CASE home[t] = e
  <2>1. ASSUME NEW d, NEW r2, NEW k, OwnCase(t, d, r2, k)  PROVE FALSE
    <3>1. d = e
      BY <1>5, <2>1 DEF OwnCase
    <3>2. PICK n2, a2 : Held(t, d, r2, k, n2, a2)
      BY <1>1, <2>1, <3>1, HeldOf
    <3>3. r2 = job[e].req /\ r2 \notin late'
      BY <3>1, <3>2 DEF Held, AtStep
    <3>4. QED  BY <1>1, <3>3
  <2>2. QED  BY <1>1, <1>3, <1>4, <2>1, OwnBy
<1>6. QED  BY <1>4, <1>5

LEMMA ExecuteOwn ==
  ASSUME CommandsOK, Steady, NEW c \in calls, NEW a, NEW rows, Execute(c, a, rows),
         NEW t \in Terms, Own(t)
  PROVE  Grows /\ Own(t)'
<1>1. PICK e : e = c.daemon
  OBVIOUS
<1>2. /\ reqs' = reqs /\ home' = home
      /\ \/ Awaited(c) /\ Return(e, a, rows)
         \/ UNCHANGED <<job, out, session, who, listed>>
  BY <1>1, Zenon DEF Execute
<1>3. e \in Daemons
  BY <1>1 DEF CommandsOK, CallOK
<1>4. CASE UNCHANGED <<job, out, session, who, listed>>
  <2>1. Grows
    BY <1>4, SameGrows
  <2>2. QED  BY <1>2, <1>4, <2>1, OwnSame
<1>5. CASE Awaited(c) /\ Return(e, a, rows)
  <2>1. job[e].phase = "wait" /\ Active(e)
    BY <1>1, <1>5 DEF Awaited, Active
  <2>2. PICK r, n, b : AtStep(e, r, n, b)
    BY <1>3, <2>1, UnderWay
  <2>3. Grows /\ (home[t] # e => Own(t)')
    BY <1>2, <1>3, <1>5, <2>2, ReturnElsewhere
  <2>4. CASE home[t] = e
    <3>1. ASSUME NEW d, NEW r2, NEW k, OwnCase(t, d, r2, k)  PROVE FittingNext(t, d, r2)
      <4>1. d = e
        BY <2>4, <3>1 DEF OwnCase
      <4>2. PICK n2, a2 : Held(t, d, r2, k, n2, a2)
        BY <2>1, <3>1, <4>1, HeldOf
      <4>3. QED  BY <1>2, <1>5, <2>1, <4>1, <4>2, ReturnOwn
    <3>2. QED  BY <1>2, <2>3, <3>1, OwnBy
  <2>5. QED  BY <2>3, <2>4
<1>6. QED  BY <1>2, <1>4, <1>5

\* A request made under another account than its terminal's.
Shared(r) ==
  \/ \E t \in Terms \ {r[1]} : home[t] = home[r[1]]
  \/ \E n \in 1 .. r[2] : Outcome(<<r[1], n>>) = "timeout" \/ <<r[1], n>> \in late

LEMMA SharedStays ==
  ASSUME CommandShapes, Steady, Grows, NEW r \in Requests, Shared(r)
  PROVE  Shared(r)'
<1>1. CASE \E t \in Terms \ {r[1]} : home[t] = home[r[1]]
  BY <1>1 DEF Shared, Steady
<1>2. CASE \E n \in 1 .. r[2] : Outcome(<<r[1], n>>) = "timeout" \/ <<r[1], n>> \in late
  <2>1. PICK n \in 1 .. r[2] : Outcome(<<r[1], n>>) = "timeout" \/ <<r[1], n>> \in late
    BY <1>2
  <2>2. PICK x : x = <<r[1], n>>
    OBVIOUS
  <2>3. x \in Requests
    <3>1. r[1] \in Terms /\ r[2] \in Nat /\ r[2] \in 1 .. Len(reqs[r[1]]) /\ Len(reqs[r[1]]) \in Nat
      BY RequestsAre, Lengths
    <3>2. n \in Nat /\ n \in 1 .. Len(reqs[r[1]])
      BY <3>1
    <3>3. QED  BY <2>2, <3>1, <3>2, RequestsAre
  <2>4. Outcome(x)' = "timeout" \/ x \in late'
    BY <2>1, <2>2, <2>3 DEF Grows, Steady
  <2>5. QED  BY <2>2, <2>4 DEF Shared
<1>3. QED  BY <1>1, <1>2 DEF Shared

\* A request that is made under a foreign account has a reason.
LEMMA CallShared ==
  ASSUME CommandsOK, NEW d \in Daemons, Call(d), \A t \in Terms : Own(t),
         NEW r \in stray', r \notin stray
  PROVE  r \in Requests /\ Shared(r)
<1>1. /\ job[d].phase = "run" /\ ~Ended(d) /\ Active(d)
      /\ r = job[d].req /\ Step(d).kind = "post" /\ who[d] # Req(r).want
  BY Zenon DEF Call, Active
<1>2. PICK x, n, a : AtStep(d, x, n, a)
  BY <1>1, UnderWay
<1>3. /\ CommandShapes /\ x = r /\ Sent(r) /\ r \in Requests /\ home[r[1]] = d /\ Open(r) /\ n \in Nat
      /\ job[d] = [phase |-> job[d].phase, req |-> r, step |-> n, ans |-> a]
      /\ n \in 1 .. Len(HandlerFor(r).steps) /\ Step(d) = HandlerFor(r).steps[n]
  BY <1>1, <1>2 DEF AtStep
<1>4. n = PostStep(r)
  BY <1>1, <1>3, StepFacts
<1>5. SUFFICES ASSUME ~Shared(r)  PROVE FALSE
  BY <1>3
<1>6. PICK t, k : t = r[1] /\ k = Len(reqs[t])
  OBVIOUS
<1>7. /\ t \in Terms /\ r[2] \in Nat /\ r[2] \in 1 .. k /\ r = <<t, r[2]>> /\ k \in Nat
      /\ k <= Len(out[t]) + 1 /\ Len(out[t]) \in Nat
  BY <1>3, <1>6, RequestsAre, Lengths
<1>8. Alone(t) /\ Clean(t, r[2])
  BY <1>5, <1>6 DEF Shared, Alone, Clean
<1>9. r[2] = k /\ Waiting(t)
  <2>1. Outcome(r) = "none"
    <3>1. r[2] \in 1 .. r[2]
      BY <1>7
    <3>2. QED  BY <1>3, <1>7, <1>8, <3>1 DEF Clean, Open
  <2>2. ~(r[2] <= Len(out[t]))
    <3>1. ASSUME r[2] <= Len(out[t])  PROVE FALSE
      <4>1. PICK m : m = r[2]
        OBVIOUS
      <4>2. Outcome(r) = out[t][m] /\ m \in 1 .. Len(out[t])
        BY <1>6, <1>7, <3>1, <4>1 DEF Outcome
      <4>3. out[t] \in Seq(Outcomes)
        BY <1>3, <1>7 DEF CommandShapes
      <4>4. out[t][m] \in Outcomes
        BY <4>2, <4>3, ElementOfSeq
      <4>5. QED  BY <2>1, <4>2, <4>4 DEF Outcomes
    <3>2. QED  BY <3>1
  <2>3. QED  BY <1>6, <1>7, <2>2 DEF Waiting
<1>10. Fitting(t, d, r)
  BY <1>3, <1>6, <1>7, <1>8, <1>9 DEF Own
<1>11. who[d] = session[t] /\ Req(r).want = session[t]
  <2>1. PICK j, p, q : j = job[d] /\ p = PostStep(r) /\ q = Req(r)
    OBVIOUS
  <2>2. ~(j.step > p)
    BY <1>3, <1>4, <2>1
  <2>3. who[d] = Becomes(session[t], j, q, p) /\ q.want = session[t]
    BY <1>1, <1>9, <1>10, <2>1 DEF Fitting
  <2>4. QED  BY <2>1, <2>2, <2>3, BecomesEarly
<1>12. QED  BY <1>1, <1>11

LEMMA DaemonGrows ==
  ASSUME CommandsOK, NEW d \in Daemons, Daemon(d) \/ LoginLost(d)
  PROVE  Grows
<1>1. CASE (\E x : Take(d, x)) \/ Call(d) \/ LoginLost(d)
  <2>1. out' = out
    BY <1>1, Zenon DEF Take, Call, LoginLost
  <2>2. QED  BY <2>1, SameGrows
<1>2. ASSUME Active(d), NEW a, Finish(d, a)  PROVE Grows
  <2>1. PICK r, n, b : AtStep(d, r, n, b)
    BY <1>2, UnderWay
  <2>2. CommandShapes /\ r \in Requests /\ r = job[d].req
    BY <2>1 DEF AtStep
  <2>3. Answered(r, a) /\ r[1] \in Terms
    BY <1>2, <2>2, RequestsAre DEF Finish
  <2>4. QED  BY <2>2, <2>3, AnsweredGrows
<1>3. CASE Test(d)
  <2>1. Active(d) /\ (out' = out \/ Finish(d, "refused"))
    BY <1>3, Zenon DEF Test, Active
  <2>2. QED  BY <1>2, <2>1, SameGrows
<1>4. CASE Done(d)
  <2>1. Active(d) /\ \E a : Finish(d, a)
    BY <1>4 DEF Done, Active
  <2>2. QED  BY <1>2, <2>1
<1>5. CASE RpcTimeout(d)
  <2>1. Active(d) /\ Return(d, NoAnswer, {})
    BY <1>5, Zenon DEF RpcTimeout, Active, NoAnswer
  <2>2. out' = out \/ \E a : Finish(d, a)
    BY <2>1, ReturnCases
  <2>3. QED  BY <1>2, <2>1, <2>2, SameGrows
<1>6. QED  BY <1>1, <1>3, <1>4, <1>5 DEF Daemon

LEMMA OwnOKInit == CommandsInit => OwnOK
<1>1. SUFFICES ASSUME CommandsInit  PROVE OwnOK
  OBVIOUS
<1>2. /\ reqs = [t \in Terms |-> <<>>] /\ out = [t \in Terms |-> <<>>]
      /\ session = [t \in Terms |-> "nobody"] /\ job = [d \in Daemons |-> NoJob]
      /\ who = [d \in Daemons |-> "nobody"] /\ stray = {} /\ home \in [Terms -> Daemons]
  BY <1>1, CommandsAssumption DEF CommandsInit
<1>3. ASSUME NEW t \in Terms  PROVE Own(t)
  <2>1. PICK d, r : d = home[t] /\ r = <<t, Len(reqs[t])>>
    OBVIOUS
  <2>2. d \in Daemons /\ job[d] = NoJob /\ who[d] = session[t]
    BY <1>2, <2>1
  <2>3. ~Waiting(t)
    <3>1. Len(reqs[t]) = 0 /\ Len(out[t]) = 0
      <4>1. Len(<<>>) = 0
        OBVIOUS
      <4>2. QED  BY <1>2, <4>1
    <3>2. QED  BY <3>1 DEF Waiting
  <2>4. Fitting(t, d, r)
    BY <2>2, <2>3 DEF Fitting, Active, NoJob
  <2>5. QED  BY <2>1, <2>4 DEF Own
<1>4. QED  BY <1>2, <1>3 DEF OwnOK, OwnAccountUnlessShared

\* Steps that make no request under a foreign account.
LEMMA OwnOKFrom ==
  ASSUME CommandsOK, OwnOK, Steady, Grows, stray' = stray, \A t \in Terms : Own(t)'
  PROVE  OwnOK'
<1>1. CommandShapes /\ stray \subseteq Requests /\ \A r \in stray : Shared(r)
  BY DEF CommandsOK, OwnOK, OwnAccountUnlessShared, Shared
<1>2. stray' \subseteq Requests'
  BY <1>1 DEF Steady
<1>3. \A r \in stray' : Shared(r)'
  BY <1>1, SharedStays
<1>4. QED  BY <1>2, <1>3 DEF OwnOK, OwnAccountUnlessShared, Shared

LEMMA OwnOKNext == CommandsOK /\ OwnOK /\ [CommandsNext]_cvars => OwnOK'
<1>1. SUFFICES ASSUME CommandsOK, OwnOK, [CommandsNext]_cvars  PROVE OwnOK'
  OBVIOUS
<1>2. CommandShapes /\ \A t \in Terms : Own(t)
  BY <1>1 DEF CommandsOK, OwnOK
<1>3. CASE \E u \in Terms : BadArguments(u)
  <2>1. PICK u \in Terms : BadArguments(u)
    BY <1>3
  <2>2. Steady /\ stray' = stray
    BY <1>1, <2>1, BadArgumentsDoes DEF Effect, BadArguments
  <2>3. Grows
    BY <1>2, <2>1, OutAppend DEF Grows, BadArguments
  <2>4. \A t \in Terms : Own(t)'
    BY <1>1, <1>2, <2>1, BadArgumentsOwn
  <2>5. QED  BY <1>1, <2>2, <2>3, <2>4, OwnOKFrom
<1>4. CASE \E u \in Terms, name \in Names, app \in {<<>>} \cup DOMAIN apps : Send(u, name, app)
  <2>1. PICK u \in Terms, name \in Names, app \in {<<>>} \cup DOMAIN apps : Send(u, name, app)
    BY <1>4
  <2>2. stray' = stray /\ out' = out
    BY <2>1, Zenon DEF Send
  <2>3. Steady
    BY <1>1, <2>1, SendDoes DEF Effect
  <2>4. Grows
    BY <2>2, SameGrows
  <2>5. \A t \in Terms : Own(t)'
    BY <1>1, <1>2, <2>1, SendOwn
  <2>6. QED  BY <1>1, <2>2, <2>3, <2>4, <2>5, OwnOKFrom
<1>5. CASE \E u \in Terms : Timeout(u)
  <2>1. PICK u \in Terms : Timeout(u)
    BY <1>5
  <2>2. Steady /\ stray' = stray
    BY <1>1, <2>1, TimeoutDoes DEF Effect, Timeout
  <2>3. Grows
    BY <1>2, <2>1, OutAppend DEF Grows, Timeout
  <2>4. \A t \in Terms : Own(t)'
    BY <1>1, <1>2, <2>1, TimeoutOwn
  <2>5. QED  BY <1>1, <2>2, <2>3, <2>4, OwnOKFrom
<1>6. CASE \E d \in Daemons : Daemon(d) \/ LoginLost(d)
  <2>1. PICK d \in Daemons : Daemon(d) \/ LoginLost(d)
    BY <1>6
  <2>2. Steady
    <3>1. Effect(d)
      BY <1>1, <2>1, TakeDoes, TestDoes, CallDoes, DoneDoes, RpcTimeoutDoes, LoginLostDoes DEF Daemon
    <3>2. QED  BY <3>1 DEF Effect
  <2>3. \A t \in Terms : Own(t)'
    BY <1>1, <1>2, <2>1, TakeOwn, TestOwn, CallOwn, DoneOwn, RpcTimeoutOwn, LoginLostOwn DEF Daemon
  <2>4. Grows
    BY <1>1, <2>1, DaemonGrows
  <2>5. CASE Call(d)
    <3>1. \A r \in stray' : r \in Requests /\ Shared(r)
      BY <1>1, <1>2, <2>5, CallShared DEF OwnOK, OwnAccountUnlessShared, Shared
    <3>2. \A r \in stray' : r \in Requests' /\ Shared(r)'
      BY <1>2, <2>2, <2>4, <3>1, SharedStays DEF Steady
    <3>3. QED  BY <2>3, <3>2 DEF OwnOK, OwnAccountUnlessShared, Shared
  <2>6. CASE ~Call(d)
    <3>1. stray' = stray
      BY <2>1, <2>6, Zenon DEF Daemon, Take, Test, Done, RpcTimeout, LoginLost
    <3>2. QED  BY <1>1, <2>2, <2>3, <2>4, <3>1, OwnOKFrom
  <2>7. QED  BY <2>5, <2>6
<1>7. CASE Manager
  <2>1. PICK c \in calls : \E x \in AnswersTo(c) : \E y \in viewbufferList(c, x) : Execute(c, x, y)
    BY <1>7, Zenon DEF Manager, Handle
  <2>8. PICK a \in AnswersTo(c) : \E y \in viewbufferList(c, a) : Execute(c, a, y)
    BY <2>1
  <2>2. PICK rows : Execute(c, a, rows)
    BY <2>8
  <2>3. Steady
    BY <1>1, <2>2, ExecuteDoes DEF Effect
  <2>4. stray' = stray
    BY <2>2, Zenon DEF Execute
  <2>5. \A t \in Terms : Own(t)' /\ Grows
    BY <1>1, <1>2, <2>2, <2>3, ExecuteOwn
  <2>6. Grows
    <3>1. CASE Terms = {}
      BY <3>1 DEF Grows, Requests
    <3>2. QED  BY <2>5, <3>1
  <2>7. QED  BY <1>1, <2>3, <2>4, <2>5, <2>6, OwnOKFrom
<1>8. CASE UNCHANGED cvars
  <2>1. UNCHANGED <<script, home, reqs, out, session, inbox, job, who, listed, calls, apps, done,
                    late, stray, lost>>
    BY <1>8 DEF cvars
  <2>2. Steady /\ Grows
    BY <2>1, SameSteady, SameGrows
  <2>3. \A t \in Terms : Own(t)'
    BY <1>1, <1>2, <2>1, <2>2, OwnSame
  <2>4. QED  BY <1>1, <2>1, <2>2, <2>3, OwnOKFrom
<1>9. AllDone => UNCHANGED cvars
  BY DEF AllDone
<1>10. (\E t \in Terms : Terminal(t) \/ Timeout(t)) =>
          \/ \E u \in Terms : BadArguments(u) \/ Timeout(u)
          \/ \E u \in Terms, name \in Names, app \in {<<>>} \cup DOMAIN apps : Send(u, name, app)
  <2>1. Names = Users \cup {NoAnswer}
    BY Zenon DEF Names, NoAnswer
  <2>2. \A t \in Terms : Terminal(t) =>
           BadArguments(t) \/ \E name \in Users \cup {NoAnswer}, app \in {<<>>} \cup DOMAIN apps : Send(t, name, app)
    BY Zenon DEF Terminal, NoAnswer
  <2>3. QED  BY <2>1, <2>2
<1>11. QED  BY <1>1, <1>3, <1>4, <1>5, <1>6, <1>7, <1>8, <1>9, <1>10 DEF CommandsNext

-----------------------------------------------------------------------------
LEMMA CommandsInvariant == CommandsSpec => [](CommandsOK /\ OwnOK)
<1>1. CommandsInit => CommandsOK /\ OwnOK
  BY CommandsOKInit, OwnOKInit
<1>2. CommandsOK /\ OwnOK /\ [CommandsNext]_cvars => (CommandsOK /\ OwnOK)'
  BY CommandsOKNext, OwnOKNext
<1>3. QED  BY <1>1, <1>2, PTL DEF CommandsSpec

\* The tools other than the queries print success only for a request that the
\* manager has carried out (dealmsg in src/client/ipc_mod.cc hands its answer
\* on), unless a call was given up and the empty answer was misread.
THEOREM SuccessIsTrue == CommandsSpec => []SuccessUnlessMisread
<1>1. CommandsOK => SuccessUnlessMisread
  BY DEF CommandsOK, Reported, SuccessUnlessMisread
<1>2. QED  BY <1>1, CommandsInvariant, PTL

\* A tool that prints a failure has changed nothing, unless its call was given
\* up after the 30 s of post_request and carried out afterwards.
THEOREM FailureIsTrue == CommandsSpec => []FailureUnlessLate
<1>1. CommandsOK => FailureUnlessLate
  BY DEF CommandsOK, Reported, FailureUnlessLate
<1>2. QED  BY <1>1, CommandsInvariant, PTL

\* dosuggestion removes an application only after the check of its kind, so
\* that it leaves the list performed, rejected or refused, or given up.
THEOREM NoneForgotten == CommandsSpec => []NotForgottenUnlessRefused
<1>1. CommandsOK => NotForgottenUnlessRefused
  BY DEF CommandsOK
<1>2. QED  BY <1>1, CommandsInvariant, PTL

\* ClientUser, which douserlogin and douserexit set for all terminals of a
\* machine, is the account that a lone terminal has logged in as.
THEOREM OwnAccount == CommandsSpec => []OwnAccountUnlessShared
<1>1. OwnOK => OwnAccountUnlessShared
  BY DEF OwnOK
<1>2. QED  BY <1>1, CommandsInvariant, PTL

-----------------------------------------------------------------------------
(* The types of the commands. *)

LoggedIn == Users \cup {"nobody", "exited"}
\* A login carries the name of an account.
GivesName(r) == Req(r).cmd = "userlogin" => Req(r).name \in Users
Sessions ==
  /\ \A t \in Terms : session[t] \in LoggedIn
  /\ \A d \in Daemons : who[d] \in LoggedIn
Logins ==
  \A d \in Daemons : /\ \A r \in inbox[d] : GivesName(r)
                     /\ Active(d) => GivesName(job[d].req)
Listings ==
  /\ IsFiniteSet(DOMAIN apps)
  /\ listed \in [Daemons -> SUBSET DOMAIN apps]
  /\ \A d \in Daemons : Cardinality(listed[d]) <= ListLimit
CommandTypes == Sessions /\ Logins /\ Listings /\ lost \in 0 .. MaxLost

LEMMA CommandBounds == ListLimit \in Nat /\ MaxLost \in Nat
BY Zenon, CommandsAssumption

LEMMA GivesStays ==
  ASSUME Steady, NEW r \in Requests, GivesName(r)
  PROVE  GivesName(r)'
BY DEF Steady, GivesName

LEMMA LoginsKept ==
  ASSUME CommandsOK, NEW d \in Daemons, Effect(d), Logins,
         \A e \in Daemons : \A r \in inbox'[e] : r \in inbox[e] \/ GivesName(r)'
  PROVE  Logins'
<1>1. Steady /\ Inboxes
  BY DEF Effect, CommandsOK
<1>2. \A e \in Daemons : \A r \in inbox[e] : r \in Requests /\ GivesName(r)
  BY <1>1 DEF Inboxes, At, Sent, Logins
<1>3. \A e \in Daemons : \A r \in inbox'[e] : GivesName(r)'
  BY <1>1, <1>2, GivesStays
<1>4. ASSUME NEW e \in Daemons, Active(e)  PROVE job[e].req \in Requests /\ GivesName(job[e].req)
  <2>1. PICK r, n, a : AtStep(e, r, n, a)
    BY <1>4, UnderWay
  <2>2. QED  BY <1>4, <2>1 DEF AtStep, Logins
<1>5. ASSUME NEW e \in Daemons, NEW x \in Requests, GivesName(x), job'[e].req = x
      PROVE  GivesName(job[e].req)'
  <2>1. GivesName(x)'
    BY <1>1, <1>5, GivesStays
  <2>2. QED  BY <1>5, <2>1 DEF GivesName, Req
<1>6. ASSUME NEW e \in Daemons, Active(e)'
      PROVE  \E x \in Requests : GivesName(x) /\ job'[e].req = x
  <2>1. CASE job'[e] = job[e]
    <3>1. Active(e)
      BY <1>6, <2>1 DEF Active
    <3>2. QED  BY <1>4, <2>1, <3>1
  <2>2. CASE e = d /\ Takes(d)
    <3>1. PICK r \in inbox[d] : job'[d] = [phase |-> "run", req |-> r, step |-> 1, ans |-> NoAnswer]
      BY <2>2 DEF Takes
    <3>2. job'[d].req = r
      BY <3>1
    <3>3. QED  BY <1>2, <2>2, <3>2
  <2>3. CASE e = d /\ Asks(d)
    <3>1. PICK r, n, b : r = job[d].req /\ n = job[d].step /\ b = job[d].ans
      OBVIOUS
    <3>2. Active(d) /\ job'[d] = [phase |-> "wait", req |-> r, step |-> n, ans |-> b]
      BY <2>3, <3>1 DEF Asks, Active
    <3>3. job'[d].req = r
      BY <3>2
    <3>4. QED  BY <1>4, <2>3, <3>1, <3>2, <3>3
  <2>4. CASE e = d /\ Proceeds(d)
    <3>1. Active(d) /\ Moves(d)
      BY <1>6, <2>4 DEF Proceeds
    <3>2. PICK r, n, b : MovesTo(d, r, n, b)
      BY <3>1 DEF Moves
    <3>3. r = job[d].req /\ job'[d] = [phase |-> "run", req |-> r, step |-> n + 1, ans |-> b]
      BY <3>2 DEF MovesTo
    <3>4. job'[d].req = r
      BY <3>3
    <3>5. QED  BY <1>4, <2>4, <3>1, <3>3, <3>4
  <2>5. QED  BY <2>1, <2>2, <2>3, <2>4 DEF Effect, Rests
<1>7. ASSUME NEW e \in Daemons, Active(e)'  PROVE GivesName(job[e].req)'
  <2>1. PICK x \in Requests : GivesName(x) /\ job'[e].req = x
    BY <1>6, <1>7
  <2>2. QED  BY <1>5, <2>1
<1>8. QED  BY <1>3, <1>7 DEF Logins

\* The answer to a login makes its terminal take the account it named.
LEMMA FinishSession ==
  ASSUME CommandsOK, Logins, Sessions, NEW d \in Daemons, Active(d), NEW a, Finish(d, a)
  PROVE  \A t \in Terms : session'[t] \in LoggedIn
<1>1. PICK r : r = job[d].req
  OBVIOUS
<1>2. GivesName(r) /\ Answered(r, a) /\ CommandShapes
  BY <1>1 DEF Logins, Finish, CommandsOK
<1>3. session \in [Terms -> Accounts] /\ \A t \in Terms : session[t] \in LoggedIn
  BY <1>2 DEF CommandShapes, Sessions
<1>4. PICK v : v = Verdict(ToolOf(Req(r).cmd), a)
  OBVIOUS
<1>5. PICK x, t : /\ t = r[1]
                  /\ x = IF v = "success" /\ Req(r).cmd = "userlogin" THEN Req(r).name
                         ELSE IF v = "success" /\ Req(r).cmd = "userexit" THEN "exited"
                         ELSE session[t]
  OBVIOUS
<1>6. session' = session \/ session' = [session EXCEPT ![t] = x]
  BY <1>2, <1>4, <1>5 DEF Answered
<1>7. x \in LoggedIn \/ x = session[t]
  BY <1>2, <1>5 DEF GivesName, LoggedIn
<1>8. QED  BY <1>3, <1>6, <1>7

\* What a handler keeps of an answer.
LEMMA KeepsTypes ==
  ASSUME CommandsOK, Logins, Sessions, NEW d \in Daemons, Active(d), NEW a, NEW rows,
         Keeps(d, a, rows)
  PROVE  /\ \A e \in Daemons : who'[e] \in LoggedIn
         /\ listed' = [listed EXCEPT ![d] = rows] \/ listed' = [listed EXCEPT ![d] = @]
<1>1. PICK r, k : r = job[d].req /\ k = Step(d).kind
  OBVIOUS
<1>2. GivesName(r) /\ CommandShapes
  BY <1>1 DEF Logins, CommandsOK
<1>3. who \in [Daemons -> Accounts] /\ \A e \in Daemons : who[e] \in LoggedIn
  BY <1>2 DEF CommandShapes, Sessions
<1>4. PICK x : x = IF k = "post" /\ Req(r).cmd = "userlogin" /\ a = "0" THEN Req(r).name
                   ELSE IF k = "post" /\ Req(r).cmd = "userexit" /\ a = "0" THEN "exited"
                   ELSE who[d]
  OBVIOUS
<1>5. who' = [who EXCEPT ![d] = x]
  BY <1>1, <1>4 DEF Keeps
<1>6. x \in LoggedIn
  BY <1>2, <1>3, <1>4 DEF GivesName, LoggedIn
<1>7. \A e \in Daemons : who'[e] \in LoggedIn
  BY <1>3, <1>5, <1>6
<1>8. PICK b : b = (k = "post" /\ Req(r).cmd = "listapply" /\ a \notin {"1", "33"})
  OBVIOUS
<1>9. listed' = [listed EXCEPT ![d] = IF b THEN rows ELSE @]
  BY <1>1, <1>8, Zenon DEF Keeps
<1>10. QED  BY <1>7, <1>9

LEMMA ReturnTypes ==
  ASSUME CommandsOK, Logins, Sessions, NEW d \in Daemons, Active(d), NEW a, NEW rows,
         Return(d, a, rows)
  PROVE  /\ Sessions'
         /\ listed' = [listed EXCEPT ![d] = rows] \/ listed' = [listed EXCEPT ![d] = @]
<1>1. Keeps(d, a, rows) /\ (UNCHANGED session \/ \E y : Finish(d, y))
  BY ReturnCases
<1>2. \A t \in Terms : session'[t] \in LoggedIn
  BY <1>1, FinishSession DEF Sessions
<1>3. QED  BY <1>1, <1>2, KeepsTypes DEF Sessions

\* A daemon holds rows of the manager's applications, and not more than a
\* listing has.
Rows(rows) == rows \subseteq DOMAIN apps /\ Cardinality(rows) <= ListLimit

LEMMA NoRows == Rows({})
<1>1. Cardinality({}) = 0 /\ ListLimit \in Nat
  BY FS_EmptySet, CommandBounds
<1>2. QED  BY <1>1 DEF Rows

LEMMA ListedRows ==
  ASSUME IsFiniteSet(DOMAIN apps), NEW c, NEW a, NEW rows \in viewbufferList(c, a)
  PROVE  Rows(rows)
<1>1. PICK n : n = IF Cardinality(Present) < ListLimit THEN Cardinality(Present) ELSE ListLimit
  OBVIOUS
<1>2. rows = {} \/ rows \in kSubset(n, Present)
  BY <1>1 DEF viewbufferList
<1>3. CASE rows \in kSubset(n, Present)
  <2>1. rows \subseteq Present /\ Cardinality(rows) = n
    BY <1>3 DEF kSubset
  <2>2. Present \subseteq DOMAIN apps
    BY DEF Present
  <2>3. Cardinality(Present) \in Nat /\ ListLimit \in Nat
    BY <2>2, FS_Subset, FS_CardinalityType, CommandBounds
  <2>4. QED  BY <1>1, <2>1, <2>2, <2>3 DEF Rows
<1>4. QED  BY <1>2, <1>3, NoRows

LEMMA ListingsKept ==
  ASSUME Listings, Steady, IsFiniteSet(DOMAIN apps'),
         \/ listed' = listed
         \/ \E d \in Daemons : \E rows : Rows(rows) /\ (\/ listed' = [listed EXCEPT ![d] = rows]
                                                    \/ listed' = [listed EXCEPT ![d] = @])
  PROVE  Listings'
<1>1. DOMAIN apps \subseteq DOMAIN apps'
  BY DEF Steady, AppKept
<1>2. listed \in [Daemons -> SUBSET DOMAIN apps] /\ \A d \in Daemons : Cardinality(listed[d]) <= ListLimit
  BY DEF Listings
<1>3. listed' = listed \/ \E d \in Daemons : \E rows : Rows(rows) /\ listed' = [listed EXCEPT ![d] = rows]
  BY <1>2
<1>4. listed' \in [Daemons -> SUBSET DOMAIN apps] /\ \A d \in Daemons : Cardinality(listed'[d]) <= ListLimit
  <2>1. CASE listed' = listed
    BY <1>2, <2>1
  <2>2. CASE listed' # listed
    <3>0. PICK d \in Daemons : \E rows : Rows(rows) /\ listed' = [listed EXCEPT ![d] = rows]
      BY <1>3, <2>2
    <3>1. PICK rows : Rows(rows) /\ listed' = [listed EXCEPT ![d] = rows]
      BY <3>0
    <3>2. rows \in SUBSET DOMAIN apps /\ Cardinality(rows) <= ListLimit
      BY <3>1 DEF Rows
    <3>3. QED  BY <1>2, <3>1, <3>2
  <2>3. QED  BY <2>1, <2>2
<1>5. QED  BY <1>1, <1>4 DEF Listings

\* A step that leaves the applications, the listings and the losses alone, and
\* puts nothing into an inbox.
LEMMA PlainTypes ==
  ASSUME CommandsOK, CommandTypes, NEW d \in Daemons, Effect(d), Sessions',
         \A e \in Daemons : \A r \in inbox'[e] : r \in inbox[e] \/ GivesName(r)',
         apps' = apps, listed' = listed, lost' \in 0 .. MaxLost
  PROVE  CommandTypes'
<1>1. Logins'
  BY LoginsKept DEF CommandTypes
<1>2. Steady /\ IsFiniteSet(DOMAIN apps')
  BY DEF Effect, CommandTypes, Listings
<1>3. Listings'
  BY <1>2, ListingsKept DEF CommandTypes
<1>4. QED  BY <1>1, <1>3 DEF CommandTypes

LEMMA TerminalTypes ==
  ASSUME CommandsOK, CommandTypes, NEW t \in Terms, BadArguments(t) \/ Timeout(t)
  PROVE  CommandTypes'
<1>1. UNCHANGED <<session, who, inbox, apps, listed, lost>>
  BY Zenon DEF BadArguments, Timeout
<1>2. PICK d \in Daemons : Effect(d)
  BY BadArgumentsDoes, TimeoutDoes
<1>3. Sessions' /\ lost' \in 0 .. MaxLost
  BY <1>1 DEF CommandTypes, Sessions
<1>4. QED  BY <1>1, <1>2, <1>3, PlainTypes

LEMMA SendTypes ==
  ASSUME CommandsOK, CommandTypes, NEW t \in Terms, NEW name \in Names,
         NEW app \in {<<>>} \cup DOMAIN apps, Send(t, name, app)
  PROVE  CommandTypes'
<1>1. PICK q : q = [cmd |-> Typed(t).cmd, sug |-> Typed(t).sug, name |-> name, app |-> app,
                    want |-> session[t]]
  OBVIOUS
<1>2. /\ CanStart(t) /\ reqs' = [reqs EXCEPT ![t] = Append(@, q)]
      /\ inbox' = [inbox EXCEPT ![home[t]] = @ \cup {<<t, Len(out[t]) + 1>>}]
      /\ UNCHANGED <<session, who, apps, listed, lost>>
  BY <1>1, Zenon DEF Send
<1>3. q.cmd = "userlogin" => q.name \in Users
  <2>1. Typed(t).cmd = "userlogin" => name # NoAnswer
    BY Zenon DEF Send, Named, NoAnswer
  <2>2. name # NoAnswer => name \in Users
    BY Zenon DEF Names, NoAnswer
  <2>3. q.cmd = Typed(t).cmd /\ q.name = name
    BY <1>1
  <2>4. QED  BY <2>1, <2>2, <2>3
<1>4. CommandShapes
  BY DEF CommandsOK
<1>5. PICK n, x : n = Len(reqs[t]) + 1 /\ x = <<t, n>>
  OBVIOUS
<1>6. Len(out[t]) = Len(reqs[t])
  BY <1>2, <1>4, TypedOK
<1>7. Req(x)' = q
  BY <1>2, <1>4, <1>5, RequestMade
<1>8. GivesName(x)'
  BY <1>3, <1>7 DEF GivesName
<1>9. \A e \in Daemons : \A r \in inbox'[e] : r \in inbox[e] \/ r = x
  <2>1. inbox \in [Daemons -> SUBSET (Terms \X Nat)]
    BY <1>4 DEF CommandShapes
  <2>2. inbox' = [inbox EXCEPT ![home[t]] = @ \cup {x}]
    BY <1>2, <1>5, <1>6
  <2>3. QED  BY <2>1, <2>2
<1>10. \A e \in Daemons : \A r \in inbox'[e] : r \in inbox[e] \/ GivesName(r)'
  BY <1>8, <1>9
<1>11. PICK d \in Daemons : Effect(d)
  BY SendDoes
<1>12. Sessions' /\ lost' \in 0 .. MaxLost
  BY <1>2 DEF CommandTypes, Sessions
<1>13. QED  BY <1>2, <1>10, <1>11, <1>12, PlainTypes

LEMMA DaemonTypes ==
  ASSUME CommandsOK, CommandTypes, NEW d \in Daemons, Daemon(d) \/ LoginLost(d)
  PROVE  CommandTypes'
<1>1. Effect(d)
  BY TakeDoes, TestDoes, CallDoes, DoneDoes, RpcTimeoutDoes, LoginLostDoes DEF Daemon
<1>2. Sessions /\ Logins /\ Listings /\ lost \in 0 .. MaxLost /\ MaxLost \in Nat
  BY CommandBounds DEF CommandTypes
<1>3. apps' = apps /\ \A e \in Daemons : \A r \in inbox'[e] : r \in inbox[e]
  <2>1. CASE \E x \in inbox[d] : Take(d, x)
    <3>1. inbox \in [Daemons -> SUBSET (Terms \X Nat)]
      BY DEF CommandsOK, CommandShapes
    <3>2. PICK x \in inbox[d] : inbox' = [inbox EXCEPT ![d] = @ \ {x}]
      BY <2>1 DEF Take
    <3>3. QED  BY <2>1, <3>1, <3>2 DEF Take
  <2>2. CASE ~ \E x \in inbox[d] : Take(d, x)
    BY <2>2, Zenon DEF Daemon, Test, Call, Done, RpcTimeout, LoginLost
  <2>3. QED  BY <2>1, <2>2
<1>4. CASE (\E x \in inbox[d] : Take(d, x)) \/ Call(d) \/ LoginLost(d)
  <2>1. UNCHANGED <<session, who, listed>>
    BY <1>4, Zenon DEF Take, Call, LoginLost
  <2>2. lost' = lost \/ (lost < MaxLost /\ lost' = lost + 1)
    BY <1>4, Zenon DEF Take, Call, LoginLost
  <2>3. Sessions' /\ lost' \in 0 .. MaxLost
    BY <1>2, <2>1, <2>2 DEF Sessions
  <2>4. QED  BY <1>1, <1>3, <2>1, <2>3, PlainTypes
<1>5. CASE Test(d) \/ Done(d)
  <2>1. Active(d) /\ UNCHANGED <<who, listed, lost>>
    BY <1>5, Zenon DEF Test, Done, Active
  <2>2. UNCHANGED session \/ \E a : Finish(d, a)
    BY <1>5, Zenon DEF Test, Done
  <2>3. Sessions'
    BY <1>2, <2>1, <2>2, FinishSession DEF Sessions
  <2>4. QED  BY <1>1, <1>2, <1>3, <2>1, <2>3, PlainTypes
<1>6. CASE RpcTimeout(d)
  <2>1. Active(d) /\ Return(d, NoAnswer, {})
    BY <1>6, Zenon DEF RpcTimeout, Active, NoAnswer
  <2>2. lost' = lost \/ (lost < MaxLost /\ lost' = lost + 1)
    BY <1>6, Zenon DEF RpcTimeout
  <2>3. /\ Sessions'
        /\ listed' = [listed EXCEPT ![d] = {}] \/ listed' = [listed EXCEPT ![d] = @]
    BY <1>2, <2>1, ReturnTypes
  <2>4. Logins'
    BY <1>1, <1>2, <1>3, LoginsKept
  <2>5. IsFiniteSet(DOMAIN apps') /\ Steady
    BY <1>1, <1>2, <1>3 DEF Listings, Effect
  <2>6. Listings'
    BY <1>2, <2>3, <2>5, NoRows, ListingsKept
  <2>7. QED  BY <1>2, <2>2, <2>3, <2>4, <2>6 DEF CommandTypes
<1>7. QED  BY <1>4, <1>5, <1>6 DEF Daemon

LEMMA ManagerTypes ==
  ASSUME CommandsOK, CommandTypes, NEW c \in calls, NEW a \in AnswersTo(c),
         NEW rows \in viewbufferList(c, a), Execute(c, a, rows)
  PROVE  CommandTypes'
<1>1. PICK e \in Daemons : Effect(e)
  BY ExecuteDoes
<1>2. PICK d, r : d = c.daemon /\ r = c.req
  OBVIOUS
<1>3. /\ apps' = AppsAfter(c, a) /\ UNCHANGED <<reqs, inbox>>
      /\ lost' = lost \/ (lost < MaxLost /\ lost' = lost + 1)
      /\ (Awaited(c) /\ Return(d, a, rows)) \/ UNCHANGED <<session, who, listed>>
  <2>1. /\ apps' = AppsAfter(c, a) /\ UNCHANGED <<reqs, inbox>>
        /\ \/ Awaited(c) /\ Return(d, a, rows) /\ lost' = lost
           \/ /\ Awaited(c) => lost < MaxLost
              /\ lost' = IF Awaited(c) THEN lost + 1 ELSE lost
              /\ UNCHANGED <<session, who, listed>>
    BY <1>2, Zenon DEF Execute
  <2>2. QED  BY <2>1
<1>4. Sessions /\ Logins /\ Listings /\ lost \in 0 .. MaxLost /\ MaxLost \in Nat
  BY CommandBounds DEF CommandTypes
<1>5. d \in Daemons
  BY <1>2 DEF CommandsOK, CallOK
<1>6. IsFiniteSet(DOMAIN apps')
  <2>1. \A z \in DOMAIN apps' : z \in DOMAIN apps \/ z = r
    BY <1>2, <1>3, AppsStep
  <2>2. IsFiniteSet(DOMAIN apps \cup {r})
    BY <1>4, FS_AddElement DEF Listings
  <2>3. DOMAIN apps' \in SUBSET (DOMAIN apps \cup {r})
    BY <2>1
  <2>4. QED  BY <2>2, <2>3, FS_Subset
<1>7. Rows(rows)
  BY <1>4, ListedRows DEF Listings
<1>8. /\ Sessions'
      /\ \/ listed' = listed
         \/ listed' = [listed EXCEPT ![d] = rows] \/ listed' = [listed EXCEPT ![d] = @]
  <2>1. CASE Awaited(c) /\ Return(d, a, rows)
    <3>1. Active(d)
      BY <1>2, <2>1 DEF Awaited, Active
    <3>2. QED  BY <1>4, <1>5, <2>1, <3>1, ReturnTypes
  <2>2. CASE UNCHANGED <<session, who, listed>>
    BY <1>4, <2>2 DEF Sessions
  <2>3. QED  BY <1>3, <2>1, <2>2
<1>9. Logins'
  <2>1. inbox' = inbox
    BY <1>3
  <2>2. QED  BY <1>1, <1>4, <2>1, LoginsKept
<1>10. Steady
  BY <1>1 DEF Effect
<1>11. Listings'
  BY <1>4, <1>5, <1>6, <1>7, <1>8, <1>10, ListingsKept
<1>12. QED  BY <1>3, <1>4, <1>8, <1>9, <1>11 DEF CommandTypes

LEMMA CommandTypesNext == CommandsOK /\ CommandTypes /\ [CommandsNext]_cvars => CommandTypes'
<1>1. SUFFICES ASSUME CommandsOK, CommandTypes, [CommandsNext]_cvars  PROVE CommandTypes'
  OBVIOUS
<1>2. CASE \E t \in Terms : Terminal(t) \/ Timeout(t)
  <2>1. PICK t \in Terms : Terminal(t) \/ Timeout(t)
    BY <1>2
  <2>2. CASE BadArguments(t) \/ Timeout(t)
    BY <1>1, <2>2, TerminalTypes
  <2>3. CASE \E name \in Users \cup {NoAnswer}, app \in {<<>>} \cup DOMAIN apps : Send(t, name, app)
    <3>1. Users \cup {NoAnswer} = Names
      BY Zenon DEF Names, NoAnswer
    <3>2. QED  BY <1>1, <2>3, <3>1, SendTypes
  <2>4. QED  BY <2>1, <2>2, <2>3, Zenon DEF Terminal, NoAnswer
<1>3. CASE \E d \in Daemons : Daemon(d) \/ LoginLost(d)
  BY <1>1, <1>3, DaemonTypes
<1>4. CASE Manager
  BY <1>1, <1>4, ManagerTypes DEF Manager, Handle
<1>5. CASE UNCHANGED cvars
  <2>1. UNCHANGED <<reqs, session, inbox, job, who, listed, apps, lost>>
    BY <1>5 DEF cvars
  <2>2. Logins'
    <3>1. Logins
      BY <1>1 DEF CommandTypes
    <3>2. QED  BY <2>1, <3>1 DEF Logins, GivesName, Req, Active
  <2>3. QED  BY <1>1, <2>1, <2>2 DEF CommandTypes, Sessions, Listings
<1>6. AllDone => UNCHANGED cvars
  BY DEF AllDone
<1>7. QED  BY <1>1, <1>2, <1>3, <1>4, <1>5, <1>6 DEF CommandsNext

LEMMA CommandTypesInit == IsFiniteSet(DOMAIN OldApps) /\ CommandsInit => CommandTypes
<1>1. SUFFICES ASSUME IsFiniteSet(DOMAIN OldApps), CommandsInit  PROVE CommandTypes
  OBVIOUS
<1>2. /\ session = [t \in Terms |-> "nobody"] /\ inbox = [d \in Daemons |-> {}]
      /\ job = [d \in Daemons |-> NoJob] /\ who = [d \in Daemons |-> "nobody"]
      /\ listed = [d \in Daemons |-> {}] /\ lost = 0
      /\ DOMAIN apps = DOMAIN OldApps
  BY <1>1 DEF CommandsInit
<1>3. Sessions
  BY <1>2 DEF Sessions, LoggedIn
<1>4. \A d \in Daemons : ~Active(d)
  BY <1>2 DEF Active, NoJob
<1>5. Logins
  BY <1>2, <1>4 DEF Logins
<1>6. Cardinality({}) <= ListLimit
  BY NoRows DEF Rows
<1>7. Listings
  BY <1>1, <1>2, <1>6 DEF Listings
<1>8. QED  BY <1>2, <1>3, <1>5, <1>7, CommandBounds DEF CommandTypes

LEMMA TypesOfCommands == CommandsOK /\ OwnOK /\ CommandTypes => CommandsTypeOK
<1>1. SUFFICES ASSUME CommandsOK, OwnOK, CommandTypes  PROVE CommandsTypeOK
  OBVIOUS
<1>2. CommandShapes /\ Sessions /\ Listings /\ lost \in 0 .. MaxLost /\ stray \subseteq Requests /\ Inboxes
  BY <1>1 DEF CommandsOK, OwnOK, CommandTypes
<1>3. \A d \in Daemons : inbox[d] \subseteq Requests
  BY <1>2 DEF Inboxes, At, Sent
<1>4. ASSUME NEW d \in Daemons  PROVE job[d].phase \in {"idle", "run", "wait", "stuck", "dead"}
  <2>1. job[d] \in Jobs \cup Halted
    BY <1>2 DEF CommandShapes
  <2>2. QED  BY <2>1 DEF Jobs, Halted, NoJob, Stopped
<1>5. \A t \in Terms : Len(out[t]) <= Len(reqs[t]) /\ Len(reqs[t]) <= Len(out[t]) + 1
  BY <1>2 DEF CommandShapes
<1>6. done \cup late \cup stray \subseteq Requests
  BY <1>2 DEF CommandShapes
<1>7. \A d \in Daemons : listed[d] \subseteq DOMAIN apps /\ Cardinality(listed[d]) <= ListLimit
  BY <1>2 DEF Listings
<1>8. QED  BY <1>2, <1>3, <1>4, <1>5, <1>6, <1>7 DEF CommandsTypeOK, Sessions, LoggedIn

(* A daemon never holds more rows than one listing has, whatever terminals *)
(* ask for and however often, since dolistapply replaces what it held; and *)
(* a terminal takes itself for an account, never for the empty name that   *)
(* other tools send.  Finitely many applications wait from the start.      *)
THEOREM CommandsTypeCorrect ==
  IsFiniteSet(DOMAIN OldApps) => (CommandsSpec => []CommandsTypeOK)
<1>1. SUFFICES ASSUME IsFiniteSet(DOMAIN OldApps)  PROVE CommandsSpec => []CommandsTypeOK
  OBVIOUS
<1>2. CommandsInit => CommandTypes
  BY <1>1, CommandTypesInit
<1>3. CommandsOK /\ CommandTypes /\ [CommandsNext]_cvars => CommandTypes'
  BY CommandTypesNext
<1>4. CommandsSpec => []CommandTypes
  BY <1>2, <1>3, CommandsInvariant, PTL DEF CommandsSpec
<1>5. QED  BY <1>4, CommandsInvariant, TypesOfCommands, PTL

-----------------------------------------------------------------------------
(* Directory and Registry. *)

USE RegistryAssumption, DirectoryAssumption

-----------------------------------------------------------------------------
(* The inductive invariant, by parts. *)

SeenPcs == {"addpool", "addset", "delset"}
CenterPcs == {"addget", "delget"} \cup SeenPcs
ProxyPcs == {"liveadd", "dbadd", "dbdel", "livedel"}
ChangePcs == {"updset", "useset"}
ResPcs == {"resget", "resins", "resdel", "updget", "useget"} \cup ChangePcs
Pcs == CenterPcs \cup ProxyPcs \cup ResPcs

ResDocs == [total : Nat, used : Nat]
RegHandler == [pc : Pcs, arg : Centers \cup Proxies \cup Resources,
            seen : {NoDoc} \cup (SUBSET Centers) \cup ResDocs, at : Nat]

\* What a handler has in its locals when it waits for its next call.
HandlerOK(r) ==
  \/ r = Idle
  \/ /\ r \in RegHandler
     /\ r.pc \in CenterPcs => r.arg \in Centers
     /\ r.pc \in ProxyPcs => r.arg \in Proxies
     /\ r.pc \in ResPcs => r.arg \in Resources
     /\ r.pc \in SeenPcs => r.seen = NoDoc \/ r.seen \in SUBSET Centers
     /\ r.pc = "delset" => r.seen \in SUBSET Centers
     /\ r.pc \in ChangePcs => r.seen \in ResDocs /\ r.seen # NoRes

HandlersOK == th = [t \in Threads |-> th[t]] /\ \A t \in Threads : HandlerOK(th[t])

DocsOK == /\ doc = NoDoc \/ doc \in SUBSET Centers
          /\ pool = [c \in Centers |-> pool[c]]
          /\ res \in [Resources -> ResDocs \cup {NoRes}] /\ wantR \in [Resources -> ResDocs \cup {NoRes}]
          /\ ver \in [{"centers"} \cup Resources -> Nat]
ProxiesOK == /\ db \in SUBSET Proxies /\ live \in [Centers -> SUBSET Proxies]
             /\ wantP \in SUBSET Proxies

Shaped == HandlersOK /\ DocsOK /\ ProxiesOK

\* A handler that has read the newest version of the centers has seen them.
FreshCenters ==
  \A t \in Threads : th[t].pc \in SeenPcs =>
    /\ th[t].at <= ver["centers"]
    /\ th[t].at = ver["centers"] => th[t].seen = doc \/ misread

FreshResource ==
  \A t \in Threads : th[t].pc \in ChangePcs =>
    /\ th[t].at <= ver[th[t].arg]
    /\ th[t].at = ver[th[t].arg] => th[t].seen = res[th[t].arg]

\* How far the only request for a proxy has come.
InDb(p) == p \in wantP <=> p \in db
InList(p) == p \in wantP <=> p \in live[Cid[p]]
HalfWay(p, pc) ==
  CASE pc = "liveadd" -> InDb(p) /\ InList(p)
    [] pc = "dbadd"   -> InDb(p) /\ p \in live[Cid[p]]
    [] pc = "dbdel"   -> InDb(p) /\ InList(p)
    [] pc = "livedel" -> p \notin db /\ InList(p)
    [] OTHER          -> FALSE
ProxySafe(p) ==
  \/ p \in drift
  \/ Busy(p) = {} /\ InDb(p) /\ InList(p)
  \/ \E t \in Threads : Busy(p) = {t} /\ HalfWay(p, th[t].pc)

\* Until an answer without a center comes, what is stored has centers.
CentersHeard == ~blank => /\ info = Empty \/ Known(info) # {}
                          /\ had => nodes # {}

-----------------------------------------------------------------------------
(* What a step does to the handlers: thread t alone moves. *)

OnlyThread(t) == \A w \in Threads \ {t} : th'[w] = th[w]
SameLocals(t) == th'[t].arg = th[t].arg /\ th'[t].seen = th[t].seen /\ th'[t].at = th[t].at

LEMMA IdlePc == Idle.pc = "idle" /\ "idle" \notin Pcs
BY DEF Idle, Pcs, CenterPcs, SeenPcs, ProxyPcs, ResPcs, ChangePcs

LEMMA UpdateThread ==
  ASSUME HandlersOK, NEW t \in Threads, NEW r, HandlerOK(r), th' = [th EXCEPT ![t] = r]
  PROVE  HandlersOK' /\ th'[t] = r /\ OnlyThread(t)
<1>1. HandlersOK'
  BY DEF HandlersOK
<1>2. th'[t] = r /\ OnlyThread(t)
  BY DEF HandlersOK, OnlyThread
<1> QED BY <1>1, <1>2

LEMMA EndOK ==
  ASSUME HandlersOK, NEW t \in Threads, End(t)
  PROVE  HandlersOK' /\ th'[t] = Idle /\ OnlyThread(t)
BY UpdateThread DEF End, HandlerOK

LEMMA LocalsOK ==
  ASSUME HandlersOK, NEW t \in Threads, th[t].pc # "idle"
  PROVE  /\ th[t] \in RegHandler /\ th[t].pc \in Pcs /\ th[t].at \in Nat
         /\ th[t].pc \in CenterPcs => th[t].arg \in Centers
         /\ th[t].pc \in ProxyPcs => th[t].arg \in Proxies
         /\ th[t].pc \in ResPcs => th[t].arg \in Resources
         /\ th[t].pc \in SeenPcs => th[t].seen = NoDoc \/ th[t].seen \in SUBSET Centers
         /\ th[t].pc = "delset" => th[t].seen \in SUBSET Centers
         /\ th[t].pc \in ChangePcs => th[t].seen \in ResDocs /\ th[t].seen # NoRes
BY IdlePc DEF HandlersOK, HandlerOK, RegHandler

\* A handler goes on to a place that asks no more of its locals.
LEMMA GotoOK ==
  ASSUME HandlersOK, NEW t \in Threads, NEW q, Goto(t, q), th[t].pc # "idle", 
         <<th[t].pc, q>> \in {<<"addpool", "addset">>, <<"liveadd", "dbadd">>, <<"dbdel", "livedel">>,
                              <<"resget", "resins">>}
  PROVE  HandlersOK' /\ th'[t].pc = q /\ SameLocals(t) /\ OnlyThread(t)
<1> DEFINE r == [th[t] EXCEPT !.pc = q]
<1>1. q \in Pcs
  BY DEF Pcs, CenterPcs, SeenPcs, ProxyPcs, ResPcs
<1>2. th' = [th EXCEPT ![t] = r]
  BY DEF Goto
<1>3. r \in RegHandler /\ r.pc = q /\ r.arg = th[t].arg /\ r.seen = th[t].seen /\ r.at = th[t].at
  BY <1>1, LocalsOK DEF RegHandler
<1> HIDE DEF r
<1>4. HandlerOK(r)
  BY <1>3, LocalsOK DEF HandlerOK, Pcs, CenterPcs, SeenPcs, ProxyPcs, ResPcs, ChangePcs
<1> QED BY <1>2, <1>3, <1>4, UpdateThread DEF SameLocals

LEMMA ReadOK ==
  ASSUME HandlersOK, NEW t \in Threads, NEW q, NEW s, NEW n \in Nat, Read(t, q, s, n),
         \/ th[t].pc = "addget" /\ q = "addpool" /\ (s = NoDoc \/ s \in SUBSET Centers)
         \/ th[t].pc = "delget" /\ q = "delset" /\ s \in SUBSET Centers
         \/ th[t].pc \in {"updget", "useget"} /\ q \in ChangePcs /\ s \in ResDocs /\ s # NoRes
  PROVE  /\ HandlersOK' /\ OnlyThread(t)
         /\ th'[t].pc = q /\ th'[t].arg = th[t].arg /\ th'[t].seen = s /\ th'[t].at = n
<1> DEFINE r == [th[t] EXCEPT !.pc = q, !.seen = s, !.at = n]
<1>0. th[t].pc # "idle"
  OBVIOUS
<1>1. q \in Pcs
  BY DEF Pcs, CenterPcs, SeenPcs, ResPcs
<1>2. th' = [th EXCEPT ![t] = r]
  BY DEF Read
<1>3. r \in RegHandler /\ r.pc = q /\ r.arg = th[t].arg /\ r.seen = s /\ r.at = n
  BY <1>0, <1>1, LocalsOK DEF RegHandler
<1> HIDE DEF r
<1>4. HandlerOK(r)
  BY <1>0, <1>3, LocalsOK DEF HandlerOK, Pcs, CenterPcs, SeenPcs, ProxyPcs, ResPcs, ChangePcs
<1> QED BY <1>2, <1>3, <1>4, UpdateThread

LEMMA BeginOK ==
  ASSUME HandlersOK, NEW t \in Threads, NEW q, NEW a, Begin(t, q, a),
         \/ q \in {"addget", "delget"} /\ a \in Centers
         \/ q \in {"liveadd", "dbdel"} /\ a \in Proxies
         \/ q \in {"resget", "resdel", "updget", "useget"} /\ a \in Resources
  PROVE  HandlersOK' /\ OnlyThread(t) /\ th[t].pc = "idle" /\ th'[t].pc = q /\ th'[t].arg = a
<1> DEFINE r == [pc |-> q, arg |-> a, seen |-> NoDoc, at |-> 0]
<1>1. th' = [th EXCEPT ![t] = r] /\ th[t].pc = "idle"
  BY DEF Begin
<1>2. r \in RegHandler /\ r.pc = q /\ r.arg = a
  BY DEF RegHandler, Pcs, CenterPcs, ProxyPcs, ResPcs
<1> HIDE DEF r
<1>3. HandlerOK(r)
  BY <1>2 DEF HandlerOK, Pcs, CenterPcs, SeenPcs, ProxyPcs, ResPcs, ChangePcs
<1> QED BY <1>1, <1>2, <1>3, UpdateThread

LEMMA VersionsOK == ASSUME DocsOK PROVE ver["centers"] \in Nat /\ \A r \in Resources : ver[r] \in Nat
BY DEF DocsOK

-----------------------------------------------------------------------------
(* Shapes. *)

core == <<doc, pool, db, live, res, th, ver, want, wantP, wantR, raced, misread, drift>>

\* The client changes nothing of the managers.
ClientStep == OptThread \/ DefaultCenter \/ GraphThread \/ \E c \in Centers : get_mapping(c)

LEMMA ClientLeavesCore == ClientStep => UNCHANGED core
BY DEF ClientStep, OptThread, OptStart, OptRank, OptAsk, DefaultCenter, GraphThread, FreshBegin,
       FreshAsk, FreshStore, get_mapping, regvars, ghosts, core

LEMMA NextCases ==
  [Next]_vars => RegNext \/ UNCHANGED core
BY ClientLeavesCore DEF Next, ClientStep, vars, regvars, core

LEMMA RequestShaped ==
  ASSUME Shaped, NEW t \in Threads, RegRequest(t)
  PROVE  /\ Shaped' /\ OnlyThread(t) /\ th[t].pc = "idle"
         /\ th'[t].pc \in {"addget", "delget", "liveadd", "dbdel", "resget", "resdel", "updget", "useget"}
         /\ UNCHANGED <<doc, pool, db, live, res, ver, want, wantP, wantR, raced, misread>>
         /\ \/ drift' = drift /\ th'[t].pc \notin ProxyPcs
            \/ drift' = (IF Busy(th'[t].arg) # {} THEN drift \cup {th'[t].arg} ELSE drift)
<1>1. UNCHANGED <<doc, pool, db, live, res, ver, want, wantP, wantR, raced, misread>>
  BY DEF RegRequest, BeginProxy, ghosts
<1>2. DocsOK' /\ ProxiesOK'
  BY <1>1 DEF Shaped, DocsOK, ProxiesOK
<1>3. ASSUME NEW c \in Centers, NEW q \in {"addget", "delget"}, Begin(t, q, c), drift' = drift
      PROVE  /\ HandlersOK' /\ OnlyThread(t) /\ th[t].pc = "idle" /\ th'[t].pc = q
             /\ drift' = drift /\ q \notin ProxyPcs
  BY <1>3, BeginOK DEF Shaped, ProxyPcs
<1>4. ASSUME NEW r \in Resources, NEW q \in {"resget", "resdel", "updget", "useget"}, Begin(t, q, r),
             drift' = drift
      PROVE  /\ HandlersOK' /\ OnlyThread(t) /\ th[t].pc = "idle" /\ th'[t].pc = q
             /\ drift' = drift /\ q \notin ProxyPcs
  BY <1>4, BeginOK DEF Shaped, ProxyPcs
<1>5. ASSUME NEW p \in Proxies, NEW q \in {"liveadd", "dbdel"}, BeginProxy(t, q, p)
      PROVE  /\ HandlersOK' /\ OnlyThread(t) /\ th[t].pc = "idle" /\ th'[t].pc = q
             /\ drift' = (IF Busy(th'[t].arg) # {} THEN drift \cup {th'[t].arg} ELSE drift)
  <2>1. Begin(t, q, p) /\ drift' = IF Busy(p) # {} THEN drift \cup {p} ELSE drift
    BY <1>5 DEF BeginProxy
  <2>2. HandlersOK' /\ OnlyThread(t) /\ th[t].pc = "idle" /\ th'[t].pc = q /\ th'[t].arg = p
    BY <2>1, BeginOK DEF Shaped
  <2> QED BY <2>1, <2>2
<1> QED BY <1>1, <1>2, <1>3, <1>4, <1>5 DEF RegRequest, Shaped, ghosts

\* The version of a document that is written.
LEMMA WroteOK ==
  ASSUME DocsOK, NEW t \in Threads, NEW d \in {"centers"} \cup Resources, Wrote(t, d)
  PROVE  /\ ver' \in [{"centers"} \cup Resources -> Nat] /\ ver'[d] = ver[d] + 1
         /\ \A e \in {"centers"} \cup Resources : e # d => ver'[e] = ver[e]
         /\ raced \subseteq raced' /\ (th[t].at # ver[d] => d \in raced')
BY DEF DocsOK, Wrote

LEMMA CenterStepShaped ==
  ASSUME Shaped, NEW t \in Threads, addCenter(t) \/ deleteCenter(t)
  PROVE  Shaped'
<1> USE DEF Shaped
<1>0. ver["centers"] \in Nat
  BY VersionsOK
<1>1. CASE AddGet(t)
  <2>1. PICK s \in {doc, NoDoc} : Read(t, "addpool", s, ver["centers"])
    BY <1>1 DEF AddGet
  <2>2. s = NoDoc \/ s \in SUBSET Centers
    BY DEF DocsOK
  <2>3. HandlersOK'
    BY <1>0, <1>1, <2>1, <2>2, ReadOK DEF AddGet
  <2> QED BY <1>1, <2>3 DEF AddGet, DocsOK, ProxiesOK
<1>2. CASE AddPool(t)
  <2>1. HandlersOK'
    BY <1>2, GotoOK DEF AddPool
  <2>2. pool' = [c \in Centers |-> pool'[c]]
    BY <1>2 DEF AddPool, DocsOK
  <2> QED BY <1>2, <2>1, <2>2 DEF AddPool, ghosts, DocsOK, ProxiesOK
<1>3. CASE AddSet(t)
  <2>1. HandlersOK'
    BY <1>3, EndOK DEF AddSet
  <2>2. th[t].arg \in Centers /\ (th[t].seen = NoDoc \/ th[t].seen \in SUBSET Centers)
    BY <1>3, LocalsOK DEF AddSet, CenterPcs, SeenPcs
  <2>3. WithCenter(th[t].seen, th[t].arg) \in SUBSET Centers
    BY <2>2 DEF WithCenter, CentersIn
  <2>4. doc' = NoDoc \/ doc' \in SUBSET Centers
    BY <1>3, <2>3 DEF AddSet, DocsOK
  <2>5. ver' \in [{"centers"} \cup Resources -> Nat]
    BY <1>3, WroteOK DEF AddSet, DocsOK
  <2> QED BY <1>3, <2>1, <2>4, <2>5 DEF AddSet, DocsOK, ProxiesOK
<1>4. CASE DelGet(t)
  <2>1. HandlersOK'
    <3>1. CASE End(t)
      BY <3>1, EndOK
    <3>2. CASE th[t].arg \in CentersIn(doc) /\ Read(t, "delset", doc, ver["centers"])
      <4>1. doc \in SUBSET Centers
        BY <3>2 DEF CentersIn, DocsOK
      <4> QED BY <1>0, <1>4, <3>2, <4>1, ReadOK DEF DelGet
    <3> QED BY <1>4, <3>1, <3>2 DEF DelGet
  <2> QED BY <1>4, <2>1 DEF DelGet, ghosts, DocsOK, ProxiesOK
<1>5. CASE DelSet(t)
  <2>1. HandlersOK'
    BY <1>5, EndOK DEF DelSet
  <2>2. th[t].seen \in SUBSET Centers
    BY <1>5, LocalsOK DEF DelSet
  <2>4. doc' = NoDoc \/ doc' \in SUBSET Centers
    BY <1>5, <2>2 DEF DelSet, DocsOK
  <2>5. ver' \in [{"centers"} \cup Resources -> Nat]
    BY <1>5, WroteOK DEF DelSet, DocsOK
  <2> QED BY <1>5, <2>1, <2>4, <2>5 DEF DelSet, DocsOK, ProxiesOK
<1> QED BY <1>1, <1>2, <1>3, <1>4, <1>5 DEF addCenter, deleteCenter

LEMMA ProxyStepShaped ==
  ASSUME Shaped, NEW t \in Threads, LiveAdd(t) \/ DbAdd(t) \/ DbDel(t) \/ LiveDel(t)
  PROVE  Shaped'
<1> USE DEF Shaped
<1>0. th[t].pc \in ProxyPcs => th[t].arg \in Proxies /\ Home(t) \in Centers
  BY LocalsOK DEF Home, ProxyPcs
<1>1. CASE LiveAdd(t)
  <2>1. HandlersOK'
    BY <1>1, GotoOK DEF LiveAdd
  <2>2. ProxiesOK'
    BY <1>0, <1>1 DEF LiveAdd, ghosts, ProxiesOK, ProxyPcs
  <2> QED BY <1>1, <2>1, <2>2 DEF LiveAdd, ghosts, DocsOK
<1>2. CASE DbAdd(t)
  <2>1. HandlersOK'
    BY <1>2, EndOK DEF DbAdd
  <2>2. ProxiesOK'
    BY <1>0, <1>2 DEF DbAdd, ProxiesOK, ProxyPcs
  <2> QED BY <1>2, <2>1, <2>2 DEF DbAdd, DocsOK
<1>3. CASE DbDel(t)
  <2>1. HandlersOK'
    BY <1>3, GotoOK DEF DbDel
  <2>2. ProxiesOK'
    BY <1>3 DEF DbDel, ProxiesOK
  <2> QED BY <1>3, <2>1, <2>2 DEF DbDel, DocsOK
<1>4. CASE LiveDel(t)
  <2>1. HandlersOK'
    BY <1>4, EndOK DEF LiveDel
  <2>2. ProxiesOK'
    BY <1>0, <1>4 DEF LiveDel, ProxiesOK, ProxyPcs
  <2> QED BY <1>4, <2>1, <2>2 DEF LiveDel, DocsOK
<1> QED BY <1>1, <1>2, <1>3, <1>4

LEMMA ResourceStepShaped ==
  ASSUME Shaped, NEW t \in Threads,
         ResGet(t) \/ ResInsert(t) \/ ResDelete(t) \/ ChangeGet(t) \/ ChangeSet(t)
  PROVE  Shaped'
<1> USE DEF Shaped
<1>0. th[t].pc \in ResPcs => th[t].arg \in Resources /\ ver[th[t].arg] \in Nat
  BY LocalsOK, VersionsOK DEF ResPcs, ChangePcs
<1>1. CASE ResGet(t)
  <2>1. HandlersOK'
    BY <1>1, GotoOK, EndOK DEF ResGet
  <2> QED BY <1>1, <2>1 DEF ResGet, ghosts, DocsOK, ProxiesOK
<1>2. CASE ResInsert(t)
  <2>1. HandlersOK'
    BY <1>2, EndOK DEF ResInsert
  <2>2. th[t].arg \in Resources /\ NewRes \in ResDocs
    BY <1>0, <1>2 DEF ResInsert, ResPcs, NewRes, ResDocs
  <2>3. Insert(th[t].arg) \in ResDocs \cup {NoRes}
    BY <2>2 DEF Insert, DocsOK
  <2>4. DocsOK'
    BY <1>2, <2>2, <2>3 DEF ResInsert, DocsOK
  <2> QED BY <1>2, <2>1, <2>4 DEF ResInsert, ProxiesOK
<1>3. CASE ResDelete(t)
  <2>1. HandlersOK'
    BY <1>3, EndOK DEF ResDelete
  <2>2. DocsOK'
    BY <1>0, <1>3 DEF ResDelete, DocsOK, ResPcs
  <2> QED BY <1>3, <2>1, <2>2 DEF ResDelete, ProxiesOK
<1>4. CASE ChangeGet(t)
  <2> DEFINE q == IF th[t].pc = "updget" THEN "updset" ELSE "useset"
  <2>1. HandlersOK'
    <3>1. CASE End(t)
      BY <3>1, EndOK
    <3>2. CASE res[th[t].arg] # NoRes /\ Read(t, q, res[th[t].arg], ver[th[t].arg])
      <4>1. q \in ChangePcs
        BY DEF ChangePcs
      <4>2. res[th[t].arg] \in ResDocs /\ ver[th[t].arg] \in Nat
        BY <1>0, <1>4, <3>2 DEF ChangeGet, ResPcs, DocsOK
      <4> HIDE DEF q
      <4> QED BY <1>4, <3>2, <4>1, <4>2, ReadOK DEF ChangeGet
    <3> QED BY <1>4, <3>1, <3>2 DEF ChangeGet
  <2> QED BY <1>4, <2>1 DEF ChangeGet, ghosts, DocsOK, ProxiesOK
<1>5. CASE ChangeSet(t)
  <2>1. HandlersOK'
    BY <1>5, EndOK DEF ChangeSet
  <2>2. th[t].arg \in Resources /\ th[t].seen \in ResDocs
    BY <1>5, LocalsOK DEF ChangeSet, ResPcs, ChangePcs
  <2>3. \A v \in ResDocs : [v EXCEPT !.total = 2] \in ResDocs /\ [v EXCEPT !.used = v.used + 1] \in ResDocs
    BY DEF ResDocs
  <2>4. Changed(th[t].seen, th[t].pc) \in ResDocs
    BY <2>2, <2>3 DEF Changed
  <2>5. res' \in [Resources -> ResDocs \cup {NoRes}]
    BY <1>5, <2>2, <2>4 DEF ChangeSet, DocsOK
  <2>6. wantR' \in [Resources -> ResDocs \cup {NoRes}]
    <3> DEFINE w == wantR[th[t].arg]
               v == IF w = NoRes THEN w ELSE Changed(w, th[t].pc)
    <3>1. w \in ResDocs \cup {NoRes}
      BY <2>2 DEF DocsOK
    <3>2. v \in ResDocs \cup {NoRes}
      BY <2>3, <3>1 DEF Changed
    <3>3. wantR' = wantR \/ wantR' = [wantR EXCEPT ![th[t].arg] = v]
      BY <1>5 DEF ChangeSet
    <3> HIDE DEF v
    <3> QED BY <3>2, <3>3 DEF DocsOK
  <2>7. ver' \in [{"centers"} \cup Resources -> Nat]
    BY <1>5, <2>2, WroteOK DEF ChangeSet, DocsOK
  <2> QED BY <1>5, <2>1, <2>5, <2>6, <2>7 DEF ChangeSet, DocsOK, ProxiesOK
<1> QED BY <1>1, <1>2, <1>3, <1>4, <1>5

LEMMA RestartShaped ==
  ASSUME Shaped, NEW m \in Centers, NEW ok \in BOOLEAN, Restart(m, ok)
  PROVE  Shaped'
<1> USE DEF Shaped
<1>1. HandlersOK'
  BY DEF Restart, HandlersOK, HandlerOK
<1>2. ProxiesOK'
  BY DEF Restart, ProxiesOK, init_ioproxy_list
<1> QED BY <1>1, <1>2 DEF Restart, DocsOK

LEMMA RegNextShaped == ASSUME Shaped, RegNext PROVE Shaped'
<1>1. ASSUME NEW c \in Centers, UsePool(c) PROVE Shaped'
  BY <1>1 DEF UsePool, ghosts, Shaped, HandlersOK, DocsOK, ProxiesOK
<1>2. ASSUME NEW t \in Threads, RegStep(t) PROVE Shaped'
  BY <1>2, CenterStepShaped, ProxyStepShaped, ResourceStepShaped DEF RegStep
<1> QED BY <1>1, <1>2, RequestShaped, RestartShaped DEF RegNext

LEMMA InitShaped == Init => Shaped
<1> SUFFICES ASSUME Init PROVE Shaped
  OBVIOUS
<1>1. load \in Loads /\ load.db \subseteq Proxies /\ (load.doc = NoDoc \/ load.doc \subseteq Centers)
  BY DEF Init, RegInit
<1>2. NewRes \in ResDocs
  BY DEF NewRes, ResDocs
<1>3. HandlersOK
  BY DEF Init, RegInit, HandlersOK, HandlerOK
<1>4. DocsOK
  BY <1>1, <1>2 DEF Init, RegInit, DocsOK
<1>5. ProxiesOK
  BY <1>1 DEF Init, RegInit, ProxiesOK
<1> QED BY <1>3, <1>4, <1>5 DEF Shaped

LEMMA NextShaped == ASSUME Shaped, [Next]_vars PROVE Shaped'
<1>1. CASE UNCHANGED core
  BY <1>1 DEF core, Shaped, HandlersOK, DocsOK, ProxiesOK
<1> QED BY <1>1, NextCases, RegNextShaped

-----------------------------------------------------------------------------
(* The centers: read, then written back as a whole. *)

CentersIInv == CentersKept /\ FreshCenters

\* A step that leaves the centers alone and lets no handler read them.
LEMMA CentersAlone ==
  ASSUME CentersIInv, UNCHANGED <<doc, want>>, ver'["centers"] = ver["centers"],
         raced \subseteq raced', misread => misread', NEW t \in Threads, OnlyThread(t),
         th'[t].pc \in SeenPcs => th[t].pc \in SeenPcs /\ SameLocals(t)
  PROVE  CentersIInv'
BY DEF CentersIInv, CentersKept, FreshCenters, OnlyThread, SameLocals

\* A resource that has the name of the other document only makes its version grow.
LEMMA ResourceBump ==
  ASSUME Shaped, CentersIInv, UNCHANGED <<doc, want>>, ver'["centers"] \in Nat,
         ver'["centers"] >= ver["centers"], raced \subseteq raced', misread => misread',
         NEW t \in Threads, OnlyThread(t), th'[t].pc \notin SeenPcs
  PROVE  CentersIInv'
<1>1. \A w \in Threads : th[w].pc \in SeenPcs => th[w].at \in Nat
  BY LocalsOK DEF Shaped, SeenPcs
<1>2. ver["centers"] \in Nat
  BY VersionsOK DEF Shaped
<1>3. CentersKept'
  BY DEF CentersIInv, CentersKept
<1>4. FreshCenters'
  BY <1>1, <1>2 DEF CentersIInv, FreshCenters, OnlyThread
<1> QED BY <1>3, <1>4 DEF CentersIInv

\* A write of the centers by a handler that changes the set by f.
LEMMA CentersWritten ==
  ASSUME Shaped, CentersIInv, NEW t \in Threads, OnlyThread(t), th'[t] = Idle,
         th[t].pc \in SeenPcs, Wrote(t, "centers"), UNCHANGED misread,
         doc' \in SUBSET Centers,
         th[t].seen = doc /\ CentersIn(doc) = want => doc' = want'
  PROVE  CentersIInv'
<1>1. ver'["centers"] = ver["centers"] + 1 /\ raced \subseteq raced' /\ ver["centers"] \in Nat
      /\ (th[t].at # ver["centers"] => "centers" \in raced')
  BY WroteOK, VersionsOK DEF Shaped
<1>2. CentersIn(doc') = doc'
  BY DEF CentersIn
<1>3. CentersKept'
  <2>1. CASE th[t].at # ver["centers"] \/ "centers" \in raced \/ misread
    BY <1>1, <2>1 DEF CentersKept
  <2>2. CASE th[t].at = ver["centers"] /\ "centers" \notin raced /\ ~misread
    <3>1. th[t].seen = doc /\ CentersIn(doc) = want
      BY <2>2 DEF CentersIInv, CentersKept, FreshCenters
    <3> QED BY <1>2, <3>1 DEF CentersKept, CentersIn
  <2> QED BY <2>1, <2>2
<1>4. FreshCenters'
  <2>1. \A w \in Threads : th[w].pc \in SeenPcs => th[w].at \in Nat
    BY LocalsOK DEF Shaped, SeenPcs
  <2>2. th'[t].pc \notin SeenPcs
    BY IdlePc DEF Pcs, CenterPcs
  <2> QED BY <1>1, <2>1, <2>2 DEF CentersIInv, FreshCenters, OnlyThread
<1> QED BY <1>3, <1>4 DEF CentersIInv

LEMMA CentersStep ==
  ASSUME Shaped, CentersIInv, NEW t \in Threads, RegStep(t)
  PROVE  CentersIInv'
<1>0. HandlersOK /\ DocsOK /\ ver["centers"] \in Nat
  BY VersionsOK DEF Shaped
<1>a. "idle" \notin SeenPcs
  BY DEF SeenPcs
<1>1. CASE AddGet(t)
  <2>1. ASSUME NEW s, s = doc \/ s = NoDoc, Read(t, "addpool", s, ver["centers"]),
               s = doc \/ misread', misread => misread'
        PROVE  CentersIInv'
    <3>1. OnlyThread(t) /\ th'[t].pc = "addpool" /\ th'[t].seen = s /\ th'[t].at = ver["centers"]
      BY <1>0, <1>1, <2>1, ReadOK DEF AddGet, DocsOK
    <3>2. UNCHANGED <<doc, ver, want, raced>>
      BY <1>1 DEF AddGet
    <3>3. CentersKept'
      BY <2>1, <3>2 DEF CentersIInv, CentersKept
    <3>4. \A w \in Threads \ {t} : th'[w].pc \in SeenPcs =>
            /\ th'[w].at <= ver["centers"]
            /\ th'[w].at = ver["centers"] => th'[w].seen = doc \/ misread'
      BY <2>1, <3>1 DEF CentersIInv, FreshCenters, OnlyThread
    <3>5. th'[t].at <= ver["centers"] /\ (th'[t].seen = doc \/ misread')
      BY <1>0, <2>1, <3>1
    <3>6. FreshCenters'
      BY <3>2, <3>4, <3>5 DEF FreshCenters
    <3> QED BY <3>3, <3>6 DEF CentersIInv
  <2>2. CASE Read(t, "addpool", doc, ver["centers"]) /\ misread' = misread
    BY <2>1, <2>2
  <2>3. CASE Read(t, "addpool", NoDoc, ver["centers"]) /\ misread' = (misread \/ doc # NoDoc)
    <3>1. NoDoc = doc \/ misread'
      BY <2>3
    <3>2. misread => misread'
      BY <2>3
    <3> QED BY <2>1, <2>3, <3>1, <3>2
  <2> QED BY <1>1, <2>2, <2>3 DEF AddGet
<1>2. CASE AddPool(t)
  <2>1. OnlyThread(t) /\ SameLocals(t) /\ th[t].pc \in SeenPcs
    BY <1>0, <1>2, GotoOK DEF AddPool, SeenPcs
  <2> QED BY <1>2, <2>1, CentersAlone DEF AddPool, ghosts
<1>3. CASE AddSet(t)
  <2>0. OnlyThread(t) /\ th'[t] = Idle /\ th[t].pc \in SeenPcs
    BY <1>0, <1>3, EndOK DEF AddSet, SeenPcs
  <2>1. CASE UNCHANGED <<doc, want, ver, raced>>
    BY <1>3, <1>a, <2>0, <2>1, IdlePc, CentersAlone DEF AddSet
  <2>2. CASE /\ doc' = WithCenter(th[t].seen, th[t].arg) /\ want' = want \cup {th[t].arg}
             /\ Wrote(t, "centers")
    <3>1. th[t].arg \in Centers /\ (th[t].seen = NoDoc \/ th[t].seen \in SUBSET Centers)
      BY <1>0, <1>3, LocalsOK DEF AddSet, CenterPcs, SeenPcs
    <3>2. doc' \in SUBSET Centers
      BY <2>2, <3>1 DEF WithCenter, CentersIn
    <3> QED BY <1>3, <2>0, <2>2, <3>2, CentersWritten DEF AddSet, WithCenter
  <2> QED BY <1>3, <2>1, <2>2 DEF AddSet
<1>4. CASE DelGet(t)
  <2>1. CASE End(t)
    BY <1>0, <1>4, <1>a, <2>1, EndOK, IdlePc, CentersAlone DEF DelGet, ghosts
  <2>2. CASE th[t].arg \in CentersIn(doc) /\ Read(t, "delset", doc, ver["centers"])
    <3>1. doc \in SUBSET Centers
      BY <1>0, <2>2 DEF CentersIn, DocsOK
    <3>2. OnlyThread(t) /\ th'[t].seen = doc /\ th'[t].at = ver["centers"]
      BY <1>0, <1>4, <2>2, <3>1, ReadOK DEF DelGet
    <3>3. CentersKept'
      BY <1>4 DEF DelGet, ghosts, CentersIInv, CentersKept
    <3>4. FreshCenters'
      BY <1>0, <1>4, <3>2 DEF DelGet, ghosts, CentersIInv, FreshCenters, OnlyThread
    <3> QED BY <3>3, <3>4 DEF CentersIInv
  <2> QED BY <1>4, <2>1, <2>2 DEF DelGet
<1>5. CASE DelSet(t)
  <2>0. OnlyThread(t) /\ th'[t] = Idle /\ th[t].pc \in SeenPcs
    BY <1>0, <1>5, EndOK DEF DelSet, SeenPcs
  <2>1. CASE UNCHANGED <<doc, want, ver, raced>>
    BY <1>5, <1>a, <2>0, <2>1, IdlePc, CentersAlone DEF DelSet
  <2>2. CASE doc' = th[t].seen \ {th[t].arg} /\ want' = want \ {th[t].arg} /\ Wrote(t, "centers")
    <3>1. th[t].seen \in SUBSET Centers
      BY <1>0, <1>5, LocalsOK DEF DelSet
    <3>2. th[t].seen = doc /\ CentersIn(doc) = want => doc' = want'
      BY <2>2, <3>1 DEF CentersIn
    <3> QED BY <1>5, <2>0, <2>2, <3>1, <3>2, CentersWritten DEF DelSet
  <2> QED BY <1>5, <2>1, <2>2 DEF DelSet
<1>6. CASE LiveAdd(t) \/ DbAdd(t) \/ DbDel(t) \/ LiveDel(t)
  <2>1. OnlyThread(t) /\ th'[t].pc \notin SeenPcs
    BY <1>0, <1>6, <1>a, GotoOK, EndOK, IdlePc DEF LiveAdd, DbAdd, DbDel, LiveDel, SeenPcs
  <2> QED BY <1>6, <2>1, CentersAlone DEF LiveAdd, DbAdd, DbDel, LiveDel, ghosts
<1>7. CASE ResGet(t) \/ ResInsert(t) \/ ResDelete(t) \/ ChangeGet(t) \/ ChangeSet(t)
  <2>1. OnlyThread(t) /\ th'[t].pc \notin SeenPcs
    <3> DEFINE q == IF th[t].pc = "updget" THEN "updset" ELSE "useset"
               r == th[t].arg
    <3>1. CASE End(t) \/ (Goto(t, "resins") /\ th[t].pc = "resget")
      BY <1>0, <1>a, <3>1, GotoOK, EndOK, IdlePc DEF SeenPcs
    <3>2. CASE th[t].pc \in {"updget", "useget"} /\ res[r] # NoRes /\ Read(t, q, res[r], ver[r])
      <4>1. q \in ChangePcs /\ q \notin SeenPcs
        BY DEF ChangePcs, SeenPcs
      <4>2. r \in Resources
        BY <1>0, <3>2, LocalsOK DEF ResPcs
      <4>3. res[r] \in ResDocs /\ ver[r] \in Nat
        BY <1>0, <3>2, <4>2 DEF DocsOK
      <4> HIDE DEF q, r
      <4> QED BY <1>0, <3>2, <4>1, <4>3, ReadOK
    <3> QED BY <1>7, <3>1, <3>2 DEF ResGet, ResInsert, ResDelete, ChangeGet, ChangeSet
  <2>2. /\ ver'["centers"] \in Nat /\ ver'["centers"] >= ver["centers"]
        /\ UNCHANGED <<doc, want, misread>> /\ raced \subseteq raced'
    <3>1. th[t].pc \in ResPcs => th[t].arg \in Resources
      BY <1>0, LocalsOK DEF ResPcs, ChangePcs
    <3>2. CASE ResGet(t) \/ ChangeGet(t)
      BY <1>0, <3>2 DEF ResGet, ChangeGet, ghosts
    <3>3. CASE ResInsert(t)
      BY <1>0, <3>1, <3>3 DEF ResInsert, ResPcs, DocsOK
    <3>4. CASE ResDelete(t)
      BY <1>0, <3>1, <3>4 DEF ResDelete, ResPcs, DocsOK
    <3>5. CASE ChangeSet(t)
      BY <1>0, <3>1, <3>5, WroteOK DEF ChangeSet, ResPcs, ChangePcs
    <3> QED BY <1>7, <3>2, <3>3, <3>4, <3>5
  <2> QED BY <2>1, <2>2, ResourceBump
<1> QED BY <1>1, <1>2, <1>3, <1>4, <1>5, <1>6, <1>7 DEF RegStep, addCenter, deleteCenter

LEMMA CentersNext == ASSUME Shaped, CentersIInv, [Next]_vars PROVE CentersIInv'
<1>1. ASSUME NEW t \in Threads, RegRequest(t) PROVE CentersIInv'
  BY <1>1, RequestShaped, CentersAlone DEF SeenPcs
<1>2. ASSUME NEW c \in Centers, UsePool(c) PROVE CentersIInv'
  BY <1>2 DEF UsePool, ghosts, CentersIInv, CentersKept, FreshCenters
<1>3. ASSUME NEW m \in Centers, NEW ok \in BOOLEAN, Restart(m, ok) PROVE CentersIInv'
  <2>1. \A t \in Threads : th'[t] = Idle \/ th'[t] = th[t]
    BY <1>3 DEF Restart
  <2>2. UNCHANGED <<doc, want, ver, raced, misread>>
    BY <1>3 DEF Restart
  <2> QED BY <2>1, <2>2, IdlePc DEF CentersIInv, CentersKept, FreshCenters, Pcs, CenterPcs
<1>4. CASE UNCHANGED core
  BY <1>4 DEF core, CentersIInv, CentersKept, FreshCenters
<1> QED BY <1>1, <1>2, <1>3, <1>4, CentersStep, NextCases DEF RegNext

LEMMA InitCenters == Init => CentersIInv
BY DEF Init, RegInit, CentersIInv, CentersKept, FreshCenters, Idle, SeenPcs

LEMMA CentersInductive == Spec => [](Shaped /\ CentersIInv)
<1>1. Shaped /\ CentersIInv /\ [Next]_vars => (Shaped /\ CentersIInv)'
  BY NextShaped, CentersNext
<1> QED BY <1>1, InitShaped, InitCenters, PTL DEF Spec

(* The configuration has exactly the centers that were added and not       *)
(* deleted, unless requests overlapped or addCenter took a failed get for  *)
(* a first access: no other order of Mconf's reads and writes loses one.   *)
THEOREM CentersAlwaysKept == Spec => []CentersKept
<1>1. Shaped /\ CentersIInv => CentersKept
  BY DEF CentersIInv
<1> QED BY <1>1, CentersInductive, PTL

(* A configured center keeps its account pool once accounts were taken     *)
(* from it, except for the causes that PoolKept names: addCenter writes a  *)
(* fresh pool only for a center that its document does not have.           *)
THEOREM PoolsAlwaysKept == Spec => PoolKept
<1> DEFINE A == \A c \in Centers :
          pool[c] = "used" /\ pool'[c] # "used" =>
              \/ c \notin want
              \/ misread
              \/ "centers" \in raced
              \/ \E t \in Threads : th[t].pc = "addpool" /\ th[t].at # ver["centers"]
<1>1. ASSUME Shaped, CentersIInv, [Next]_vars PROVE [A]_regvars
  <2>1. CASE UNCHANGED pool
    BY <2>1
  <2>2. ASSUME NEW t \in Threads, AddPool(t) PROVE A
    <3> SUFFICES ASSUME NEW c \in Centers, pool[c] = "used", pool'[c] # "used",
                        ~misread, "centers" \notin raced, th[t].at = ver["centers"]
                 PROVE  c \notin want
      BY <2>2 DEF AddPool
    <3>1. th[t].arg = c /\ NewCenter(th[t].seen, c)
      BY <1>1, <2>2 DEF AddPool, Shaped, DocsOK
    <3>2. th[t].seen = doc /\ CentersIn(doc) = want
      BY <1>1, <2>2 DEF AddPool, CentersIInv, CentersKept, FreshCenters, SeenPcs
    <3> QED BY <3>1, <3>2 DEF NewCenter
  <2>3. ASSUME NEW e \in Centers, UsePool(e) PROVE A
    BY <1>1, <2>3 DEF UsePool, Shaped, DocsOK
  <2>4. RegNext => UNCHANGED pool \/ (\E t \in Threads : AddPool(t)) \/ (\E e \in Centers : UsePool(e))
    BY DEF RegNext, RegRequest, BeginProxy, RegStep, addCenter, deleteCenter, AddGet, AddSet, DelGet,
           DelSet, LiveAdd, DbAdd, DbDel, LiveDel, ResGet, ResInsert, ResDelete, ChangeGet, ChangeSet,
           Restart
  <2> QED BY <1>1, <2>1, <2>2, <2>3, <2>4, NextCases DEF core
<1>2. [](Shaped /\ CentersIInv) /\ [][Next]_vars => [][A]_regvars
  BY <1>1, PTL
<1>3. Spec => [][Next]_vars
  BY PTL DEF Spec
<1> QED BY <1>2, <1>3, CentersInductive, PTL DEF PoolKept

-----------------------------------------------------------------------------
(* The resources: read, changed and written back as a whole. *)

ResourceIInv == ResourceKept /\ FreshResource

LEMMA ChangeLocals ==
  ASSUME Shaped, NEW w \in Threads, th[w].pc \in ChangePcs
  PROVE  th[w].arg \in Resources /\ th[w].at \in Nat /\ ver[th[w].arg] \in Nat
BY LocalsOK, VersionsOK DEF Shaped, ChangePcs, ResPcs

\* A step that leaves the resources alone and lets no handler read one.
LEMMA ResourcesAlone ==
  ASSUME Shaped, ResourceIInv, UNCHANGED <<res, wantR>>, raced \subseteq raced',
         \A r \in Resources : ver'[r] \in Nat /\ ver'[r] >= ver[r],
         NEW t \in Threads, OnlyThread(t), th'[t].pc \notin ChangePcs
  PROVE  ResourceIInv'
<1>1. ResourceKept'
  BY DEF ResourceIInv, ResourceKept
<1>2. FreshResource'
  BY ChangeLocals DEF ResourceIInv, FreshResource, OnlyThread
<1> QED BY <1>1, <1>2 DEF ResourceIInv

\* The document of r is written, and its version grows.
LEMMA ResourceWritten ==
  ASSUME Shaped, ResourceIInv, NEW t \in Threads, OnlyThread(t), th'[t] = Idle, NEW r \in Resources,
         \A s \in Resources \ {r} : res'[s] = res[s] /\ wantR'[s] = wantR[s] /\ ver'[s] = ver[s],
         ver'[r] = ver[r] + 1, raced \subseteq raced', r \in raced' \/ res'[r] = wantR'[r]
  PROVE  ResourceIInv'
<1>1. ResourceKept'
  BY DEF ResourceIInv, ResourceKept
<1>2. th'[t].pc \notin ChangePcs
  BY IdlePc DEF Pcs, ResPcs
<1>3. FreshResource'
  BY <1>2, ChangeLocals DEF ResourceIInv, FreshResource, OnlyThread
<1> QED BY <1>1, <1>3 DEF ResourceIInv

LEMMA ResourceStep ==
  ASSUME Shaped, ResourceIInv, NEW t \in Threads, RegStep(t)
  PROVE  ResourceIInv'
<1>0. HandlersOK /\ DocsOK /\ \A r \in Resources : ver[r] \in Nat
  BY VersionsOK DEF Shaped
<1>a. "idle" \notin ChangePcs
  BY DEF ChangePcs
<1>1. CASE addCenter(t) \/ deleteCenter(t)
  <2>1. UNCHANGED <<res, wantR>>
    BY <1>1 DEF addCenter, deleteCenter, AddGet, AddPool, AddSet, DelGet, DelSet, ghosts
  <2>2. raced \subseteq raced' /\ \A r \in Resources : ver'[r] \in Nat /\ ver'[r] >= ver[r]
    <3>1. CASE Wrote(t, "centers")
      <4>1. /\ raced \subseteq raced' /\ ver' \in [{"centers"} \cup Resources -> Nat]
            /\ ver'["centers"] = ver["centers"] + 1
            /\ \A e \in {"centers"} \cup Resources : e # "centers" => ver'[e] = ver[e]
        BY <1>0, <3>1, WroteOK, Zenon
      <4>2. ver["centers"] \in Nat
        BY <1>0 DEF DocsOK
      <4>3. ASSUME NEW r \in Resources  PROVE ver'[r] \in Nat /\ ver'[r] >= ver[r]
        <5>1. CASE r = "centers"
          BY <4>1, <4>2, <5>1
        <5>2. CASE r # "centers"
          <6>1. ver'[r] = ver[r] /\ ver[r] \in Nat
            BY <1>0, <4>1, <5>2, Zenon
          <6> QED BY ONLY <6>1
        <5> QED BY <5>1, <5>2
      <4> QED BY <4>1, <4>3
    <3>2. CASE UNCHANGED <<ver, raced>>
      BY <1>0, <3>2
    <3> QED BY <1>1, <3>1, <3>2
         DEF addCenter, deleteCenter, AddGet, AddPool, AddSet, DelGet, DelSet, ghosts
  <2>3. OnlyThread(t) /\ th'[t].pc \notin ChangePcs
    <3>1. CASE End(t) \/ (Goto(t, "addset") /\ th[t].pc = "addpool")
      BY <1>0, <1>a, <3>1, GotoOK, EndOK, IdlePc DEF ChangePcs
    <3>2. CASE AddGet(t)
      <4>1. PICK s \in {doc, NoDoc} : Read(t, "addpool", s, ver["centers"])
        BY <3>2 DEF AddGet
      <4>2. s = NoDoc \/ s \in SUBSET Centers
        BY <1>0 DEF DocsOK
      <4> QED BY <1>0, <3>2, <4>1, <4>2, ReadOK, VersionsOK DEF AddGet, ChangePcs
    <3>3. CASE th[t].pc = "delget" /\ th[t].arg \in CentersIn(doc) /\ Read(t, "delset", doc, ver["centers"])
      <4>1. doc \in SUBSET Centers
        BY <1>0, <3>3 DEF CentersIn, DocsOK
      <4> QED BY <1>0, <3>3, <4>1, ReadOK, VersionsOK DEF ChangePcs
    <3> QED BY <1>1, <3>1, <3>2, <3>3 DEF addCenter, deleteCenter, AddPool, AddSet, DelGet, DelSet
  <2> QED BY <2>1, <2>2, <2>3, ResourcesAlone
<1>2. CASE LiveAdd(t) \/ DbAdd(t) \/ DbDel(t) \/ LiveDel(t)
  <2>1. OnlyThread(t) /\ th'[t].pc \notin ChangePcs
    BY <1>0, <1>2, <1>a, GotoOK, EndOK, IdlePc DEF LiveAdd, DbAdd, DbDel, LiveDel, ChangePcs
  <2>2. UNCHANGED <<res, wantR, ver, raced>>
    BY <1>2 DEF LiveAdd, DbAdd, DbDel, LiveDel, ghosts
  <2> QED BY <1>0, <2>1, <2>2, ResourcesAlone
<1>3. CASE ResGet(t)
  <2>1. OnlyThread(t) /\ th'[t].pc \notin ChangePcs
    BY <1>0, <1>3, <1>a, GotoOK, EndOK, IdlePc DEF ResGet, ChangePcs
  <2>2. UNCHANGED <<res, wantR, ver, raced>>
    BY <1>3 DEF ResGet, ghosts
  <2> QED BY <1>0, <2>1, <2>2, ResourcesAlone
<1> DEFINE r == th[t].arg
<1>b. th[t].pc \in ResPcs => r \in Resources
  BY <1>0, LocalsOK DEF ResPcs, ChangePcs
<1>4. CASE ResInsert(t)
  <2>0. OnlyThread(t) /\ th'[t] = Idle /\ r \in Resources /\ raced' = raced
    BY <1>0, <1>4, <1>b, EndOK DEF ResInsert, ResPcs
  <2>1. CASE UNCHANGED <<res, wantR, ver>>
    BY <1>0, <1>a, <2>0, <2>1, IdlePc, ResourcesAlone
  <2>2. CASE /\ res' = [res EXCEPT ![r] = Insert(r)]
             /\ wantR' = [wantR EXCEPT ![r] = IF wantR[r] = NoRes THEN NewRes ELSE wantR[r]]
             /\ ver' = [ver EXCEPT ![r] = IF res[r] = NoRes THEN ver[r] + 1 ELSE ver[r]]
    <3>1. CASE res[r] = NoRes
      <4>1. r \in raced \/ res'[r] = wantR'[r]
        BY <1>0, <2>0, <2>2, <3>1 DEF DocsOK, Insert, ResourceIInv, ResourceKept
      <4>2. ver'[r] = ver[r] + 1 /\ (r \in raced \/ res'[r] = wantR'[r])
        BY <1>0, <2>0, <2>2, <3>1, <4>1 DEF DocsOK
      <4>3. \A s \in Resources \ {r} : res'[s] = res[s] /\ wantR'[s] = wantR[s] /\ ver'[s] = ver[s]
        BY <1>0, <2>2 DEF DocsOK
      <4> QED BY <2>0, <4>2, <4>3, ResourceWritten
    <3>2. CASE res[r] # NoRes
      <4>1. res' = res /\ ver' = ver
        BY <1>0, <2>0, <2>2, <3>2 DEF DocsOK, Insert
      <4>2. ResourceKept'
        BY <1>0, <2>0, <2>2, <3>2, <4>1 DEF DocsOK, ResourceIInv, ResourceKept
      <4>3. FreshResource'
        BY <1>a, <2>0, <4>1, IdlePc DEF ResourceIInv, FreshResource, OnlyThread
      <4> QED BY <4>2, <4>3 DEF ResourceIInv
    <3> QED BY <3>1, <3>2
  <2> QED BY <1>4, <2>1, <2>2 DEF ResInsert
<1>5. CASE ResDelete(t)
  <2>0. OnlyThread(t) /\ th'[t] = Idle /\ r \in Resources /\ raced' = raced
    BY <1>0, <1>5, <1>b, EndOK DEF ResDelete, ResPcs
  <2>1. CASE UNCHANGED <<res, wantR, ver>>
    BY <1>0, <1>a, <2>0, <2>1, IdlePc, ResourcesAlone
  <2>2. CASE /\ res' = [res EXCEPT ![r] = NoRes] /\ wantR' = [wantR EXCEPT ![r] = NoRes]
             /\ ver' = [ver EXCEPT ![r] = ver[r] + 1]
    <3>1. /\ ver'[r] = ver[r] + 1 /\ res'[r] = wantR'[r]
          /\ \A s \in Resources \ {r} : res'[s] = res[s] /\ wantR'[s] = wantR[s] /\ ver'[s] = ver[s]
      BY <1>0, <2>0, <2>2 DEF DocsOK
    <3> QED BY <2>0, <3>1, ResourceWritten
  <2> QED BY <1>5, <2>1, <2>2 DEF ResDelete
<1>6. CASE ChangeGet(t)
  <2> DEFINE q == IF th[t].pc = "updget" THEN "updset" ELSE "useset"
  <2>0. UNCHANGED <<res, wantR, ver, raced>> /\ r \in Resources /\ th[t].pc \in {"updget", "useget"}
    BY <1>6, <1>b DEF ChangeGet, ghosts, ResPcs
  <2>1. CASE End(t)
    BY <1>0, <1>a, <2>0, <2>1, EndOK, IdlePc, ResourcesAlone
  <2>2. CASE res[r] # NoRes /\ Read(t, q, res[r], ver[r])
    <3>1. q \in ChangePcs
      BY DEF ChangePcs
    <3>2. res[r] \in ResDocs /\ ver[r] \in Nat
      BY <1>0, <2>0, <2>2 DEF DocsOK
    <3> HIDE DEF q
    <3>3. OnlyThread(t) /\ th'[t].arg = r /\ th'[t].seen = res[r] /\ th'[t].at = ver[r]
      BY <1>0, <2>0, <2>2, <3>1, <3>2, ReadOK
    <3>4. ResourceKept'
      BY <2>0 DEF ResourceIInv, ResourceKept
    <3>5. FreshResource'
      BY <2>0, <3>2, <3>3 DEF ResourceIInv, FreshResource, OnlyThread
    <3> QED BY <3>4, <3>5 DEF ResourceIInv
  <2> QED BY <1>6, <2>1, <2>2 DEF ChangeGet
<1>7. CASE ChangeSet(t)
  <2>0. OnlyThread(t) /\ th'[t] = Idle /\ r \in Resources /\ th[t].pc \in ChangePcs /\ th[t].seen # NoRes
    BY <1>0, <1>7, <1>b, EndOK, LocalsOK DEF ChangeSet, ResPcs, ChangePcs
  <2>1. CASE UNCHANGED <<res, wantR, ver, raced>>
    BY <1>0, <1>a, <2>0, <2>1, IdlePc, ResourcesAlone
  <2>2. CASE /\ res' = [res EXCEPT ![r] = Changed(th[t].seen, th[t].pc)]
             /\ wantR' = [wantR EXCEPT ![r] =
                            IF wantR[r] = NoRes THEN wantR[r] ELSE Changed(wantR[r], th[t].pc)]
             /\ Wrote(t, r)
    <3>1. /\ ver'[r] = ver[r] + 1 /\ raced \subseteq raced' /\ (th[t].at # ver[r] => r \in raced')
          /\ \A s \in Resources \ {r} : ver'[s] = ver[s]
      BY <1>0, <2>0, <2>2, WroteOK
    <3>2. \A s \in Resources \ {r} : res'[s] = res[s] /\ wantR'[s] = wantR[s]
      BY <1>0, <2>2 DEF DocsOK
    <3>3. r \in raced' \/ res'[r] = wantR'[r]
      <4> SUFFICES ASSUME th[t].at = ver[r], r \notin raced PROVE res'[r] = wantR'[r]
        BY <3>1
      <4>1. th[t].seen = res[r] /\ res[r] = wantR[r]
        BY <2>0 DEF ResourceIInv, FreshResource, ResourceKept
      <4> QED BY <1>0, <2>0, <2>2, <4>1 DEF DocsOK
    <3> QED BY <2>0, <3>1, <3>2, <3>3, ResourceWritten
  <2> QED BY <1>7, <2>1, <2>2 DEF ChangeSet
<1> QED BY <1>1, <1>2, <1>3, <1>4, <1>5, <1>6, <1>7 DEF RegStep

LEMMA ResourceNext == ASSUME Shaped, ResourceIInv, [Next]_vars PROVE ResourceIInv'
<1>0. \A r \in Resources : ver[r] \in Nat
  BY VersionsOK DEF Shaped
<1>1. ASSUME NEW t \in Threads, RegRequest(t) PROVE ResourceIInv'
  <2>1. /\ OnlyThread(t) /\ UNCHANGED <<res, wantR, ver, raced>>
        /\ th'[t].pc \in {"addget", "delget", "liveadd", "dbdel", "resget", "resdel", "updget", "useget"}
    BY <1>1, RequestShaped
  <2> QED BY <1>0, <2>1, ResourcesAlone DEF ChangePcs
<1>2. ASSUME NEW c \in Centers, UsePool(c) PROVE ResourceIInv'
  BY <1>2 DEF UsePool, ghosts, ResourceIInv, ResourceKept, FreshResource
<1>3. ASSUME NEW m \in Centers, NEW ok \in BOOLEAN, Restart(m, ok) PROVE ResourceIInv'
  <2>1. \A t \in Threads : th'[t] = Idle \/ th'[t] = th[t]
    BY <1>3 DEF Restart
  <2>2. UNCHANGED <<res, wantR, ver, raced>>
    BY <1>3 DEF Restart
  <2> QED BY <2>1, <2>2, IdlePc DEF ResourceIInv, ResourceKept, FreshResource, ChangePcs
<1>4. CASE UNCHANGED core
  BY <1>4 DEF core, ResourceIInv, ResourceKept, FreshResource
<1> QED BY <1>1, <1>2, <1>3, <1>4, ResourceStep, NextCases DEF RegNext

(* The document of a resource is what all writes together make of it,      *)
(* unless two requests overlapped: neither a failed get nor a second       *)
(* registration takes away what the space service has assigned.            *)
THEOREM ResourcesAlwaysKept == Spec => []ResourceKept
<1>1. Init => ResourceIInv
  BY DEF Init, RegInit, ResourceIInv, ResourceKept, FreshResource, Idle, ChangePcs
<1>2. Shaped /\ ResourceIInv /\ [Next]_vars => (Shaped /\ ResourceIInv)'
  BY NextShaped, ResourceNext
<1>3. ResourceIInv => ResourceKept
  BY DEF ResourceIInv
<1> QED BY <1>1, <1>2, <1>3, InitShaped, PTL DEF Spec

-----------------------------------------------------------------------------
(* The proxies: in a manager's list and in the database. *)

ProxyIInv == \A p \in Proxies : ProxySafe(p)

SameProxy(p) == /\ p \in wantP' <=> p \in wantP
                /\ p \in db' <=> p \in db
                /\ p \in live'[Cid[p]] <=> p \in live[Cid[p]]

LEMMA BusyAfter ==
  ASSUME NEW t \in Threads, OnlyThread(t), NEW p
  PROVE  Busy(p)' = (Busy(p) \ {t}) \cup (IF th'[t].pc \in ProxyPcs /\ th'[t].arg = p THEN {t} ELSE {})
BY DEF OnlyThread, Busy, OnProxy, ProxyPcs

LEMMA BusyIs == ASSUME NEW p, NEW t \in Threads PROVE t \in Busy(p) <=> th[t].pc \in ProxyPcs /\ th[t].arg = p
BY DEF Busy, OnProxy, ProxyPcs

\* A step of a thread that is not busy with p.
LEMMA OtherProxy ==
  ASSUME NEW p \in Proxies, ProxySafe(p), NEW t \in Threads, OnlyThread(t), drift \subseteq drift',
         SameProxy(p), t \notin Busy(p), ~(th'[t].pc \in ProxyPcs /\ th'[t].arg = p)
  PROVE  ProxySafe(p)'
<1>0. Busy(p)' = (Busy(p) \ {t}) \cup {}
  BY BusyAfter
<1>1. Busy(p)' = Busy(p)
  BY <1>0
<1>2. (InDb(p)' <=> InDb(p)) /\ (InList(p)' <=> InList(p))
  BY DEF InDb, InList, SameProxy
<1>3. ASSUME NEW w \in Threads, Busy(p) = {w}, HalfWay(p, th[w].pc) PROVE ProxySafe(p)'
  <2>1. th'[w] = th[w]
    BY <1>3 DEF OnlyThread
  <2>2. HalfWay(p, th[w].pc)'
    BY <1>2, <1>3, <2>1 DEF HalfWay, SameProxy
  <2> QED BY <1>1, <1>3, <2>2 DEF ProxySafe
<1> QED BY <1>1, <1>2, <1>3 DEF ProxySafe

\* A proxy whose only request is the one of thread t.
LEMMA OwnProxy ==
  ASSUME NEW p \in Proxies, ProxySafe(p), NEW t \in Threads, th[t].pc \in ProxyPcs, th[t].arg = p,
         OnlyThread(t), p \notin drift
  PROVE  /\ HalfWay(p, th[t].pc)
         /\ Busy(p)' = IF th'[t].pc \in ProxyPcs /\ th'[t].arg = p THEN {t} ELSE {}
<1>1. t \in Busy(p)
  BY BusyIs
<1>2. Busy(p) = {t} /\ HalfWay(p, th[t].pc)
  BY <1>1 DEF ProxySafe
<1> QED BY <1>2, BusyAfter

LEMMA ProxyStep ==
  ASSUME Shaped, ProxyIInv, NEW t \in Threads, LiveAdd(t) \/ DbAdd(t) \/ DbDel(t) \/ LiveDel(t)
  PROVE  ProxyIInv'
<1>a. PICK q : q = th[t].arg
  OBVIOUS
<1>0. HandlersOK /\ q = th[t].arg /\ q \in Proxies /\ Cid[q] \in Centers /\ live \in [Centers -> SUBSET Proxies]
      /\ Home(t) = Cid[q] /\ th[t].pc \in ProxyPcs
  BY <1>a, LocalsOK DEF Shaped, ProxiesOK, LiveAdd, DbAdd, DbDel, LiveDel, ProxyPcs, Home
<1>1. OnlyThread(t) /\ drift \subseteq drift' /\ (th'[t].arg = q \/ th'[t].pc = "idle")
  BY <1>0, GotoOK, EndOK, IdlePc DEF LiveAdd, DbAdd, DbDel, LiveDel, SameLocals, ghosts
<1>2. ASSUME NEW p \in Proxies, p # q PROVE ProxySafe(p)'
  <2>1. SameProxy(p)
    BY <1>0, <1>2 DEF LiveAdd, DbAdd, DbDel, LiveDel, SameProxy, ghosts
  <2>2. t \notin Busy(p) /\ ~(th'[t].pc \in ProxyPcs /\ th'[t].arg = p)
    BY <1>0, <1>1, <1>2, BusyIs DEF ProxyPcs
  <2> QED BY <1>1, <2>1, <2>2, OtherProxy DEF ProxyIInv
<1>3. ProxySafe(q)'
  <2>1. CASE q \in drift'
    BY <2>1 DEF ProxySafe
  <2>2. CASE q \notin drift'
    <3>0. HalfWay(q, th[t].pc) /\ Busy(q)' = IF th'[t].pc \in ProxyPcs /\ th'[t].arg = q THEN {t} ELSE {}
      BY <1>0, <1>1, <2>2, OwnProxy DEF ProxyIInv
    <3>1. CASE LiveAdd(t)
      <4>1. th'[t].pc = "dbadd" /\ th'[t].arg = q
        BY <1>0, <3>1, GotoOK DEF LiveAdd, SameLocals
      <4>2. Busy(q)' = {t}
        BY <3>0, <4>1 DEF ProxyPcs
      <4>3. HalfWay(q, th[t].pc)'
        BY <1>0, <3>0, <3>1, <4>1 DEF LiveAdd, HalfWay, InDb, InList, ghosts
      <4> QED BY <4>2, <4>3 DEF ProxySafe
    <3>2. CASE DbAdd(t)
      <4>1. Busy(q)' = {}
        BY <1>0, <3>0, <3>2, EndOK, IdlePc DEF DbAdd, ProxyPcs
      <4>2. InDb(q)' /\ InList(q)'
        BY <1>0, <2>2, <3>0, <3>2 DEF DbAdd, HalfWay, InDb, InList
      <4> QED BY <4>1, <4>2 DEF ProxySafe
    <3>3. CASE DbDel(t)
      <4>1. th'[t].pc = "livedel" /\ th'[t].arg = q
        BY <1>0, <3>3, GotoOK DEF DbDel, SameLocals
      <4>2. Busy(q)' = {t}
        BY <3>0, <4>1 DEF ProxyPcs
      <4>3. HalfWay(q, th[t].pc)'
        BY <1>0, <2>2, <3>0, <3>3, <4>1 DEF DbDel, HalfWay, InDb, InList
      <4> QED BY <4>2, <4>3 DEF ProxySafe
    <3>4. CASE LiveDel(t)
      <4>1. Busy(q)' = {}
        BY <1>0, <3>0, <3>4, EndOK, IdlePc DEF LiveDel, ProxyPcs
      <4>2. InDb(q)' /\ InList(q)'
        BY <1>0, <3>0, <3>4 DEF LiveDel, HalfWay, InDb, InList
      <4> QED BY <4>1, <4>2 DEF ProxySafe
    <3> QED BY <3>1, <3>2, <3>3, <3>4
  <2> QED BY <2>1, <2>2
<1> QED BY <1>2, <1>3 DEF ProxyIInv

\* The other handlers have no request for a proxy.
LEMMA ProxyOtherStep ==
  ASSUME Shaped, ProxyIInv, NEW t \in Threads,
         \/ addCenter(t) \/ deleteCenter(t)
         \/ ResGet(t) \/ ResInsert(t) \/ ResDelete(t) \/ ChangeGet(t) \/ ChangeSet(t)
  PROVE  ProxyIInv'
<1>0. HandlersOK
  BY DEF Shaped
<1>1. UNCHANGED <<db, live, wantP, drift>>
  BY DEF addCenter, deleteCenter, AddGet, AddPool, AddSet, DelGet, DelSet, ResGet, ResInsert, ResDelete,
         ChangeGet, ChangeSet, ghosts
<1>2. OnlyThread(t) /\ th[t].pc \notin ProxyPcs /\ th'[t].pc \notin ProxyPcs
  <2>1. th[t].pc \notin ProxyPcs /\ th[t].pc # "idle"
    BY DEF addCenter, deleteCenter, AddGet, AddPool, AddSet, DelGet, DelSet, ResGet, ResInsert, ResDelete,
           ChangeGet, ChangeSet, ProxyPcs
  <2>2. ASSUME NEW r, r.pc \notin ProxyPcs, th' = [th EXCEPT ![t] = r]
        PROVE  OnlyThread(t) /\ th'[t].pc \notin ProxyPcs
    BY <1>0, <2>2 DEF HandlersOK, OnlyThread
  <2>3. ASSUME End(t) PROVE OnlyThread(t) /\ th'[t].pc \notin ProxyPcs
    BY <1>0, <2>3, EndOK, IdlePc DEF ProxyPcs
  <2>4. ASSUME NEW p \in {"addset", "resins"}, Goto(t, p) PROVE OnlyThread(t) /\ th'[t].pc \notin ProxyPcs
    <3>1. [th[t] EXCEPT !.pc = p].pc \notin ProxyPcs
      BY <1>0, <2>1, LocalsOK DEF RegHandler, ProxyPcs
    <3> QED BY <2>2, <2>4, <3>1 DEF Goto
  <2>5. ASSUME NEW p \in {"addpool", "delset", "updset", "useset"}, NEW s, NEW n, Read(t, p, s, n)
        PROVE  OnlyThread(t) /\ th'[t].pc \notin ProxyPcs
    <3>1. [th[t] EXCEPT !.pc = p, !.seen = s, !.at = n].pc \notin ProxyPcs
      BY <1>0, <2>1, LocalsOK DEF RegHandler, ProxyPcs
    <3> QED BY <2>2, <2>5, <3>1 DEF Read
  <2> QED BY <2>1, <2>3, <2>4, <2>5
       DEF addCenter, deleteCenter, AddGet, AddPool, AddSet, DelGet, DelSet, ResGet, ResInsert, ResDelete,
           ChangeGet, ChangeSet
<1>3. \A p \in Proxies : ProxySafe(p)'
  BY <1>1, <1>2, OtherProxy, BusyIs DEF ProxyIInv, SameProxy
<1> QED BY <1>3 DEF ProxyIInv

LEMMA ProxyRequest ==
  ASSUME Shaped, ProxyIInv, NEW t \in Threads, RegRequest(t)
  PROVE  ProxyIInv'
<1>1. /\ OnlyThread(t) /\ th[t].pc = "idle" /\ UNCHANGED <<db, live, wantP>>
      /\ th'[t].pc \in {"addget", "delget", "liveadd", "dbdel", "resget", "resdel", "updget", "useget"}
      /\ \/ drift' = drift /\ th'[t].pc \notin ProxyPcs
         \/ drift' = (IF Busy(th'[t].arg) # {} THEN drift \cup {th'[t].arg} ELSE drift)
  BY RequestShaped
<1>2. ASSUME NEW p \in Proxies PROVE ProxySafe(p)'
  <2>0. SameProxy(p) /\ drift \subseteq drift' /\ t \notin Busy(p)
    BY <1>1, BusyIs DEF SameProxy, ProxyPcs
  <2>1. CASE th'[t].pc \in ProxyPcs /\ th'[t].arg = p
    <3>1. CASE Busy(p) # {}
      BY <1>1, <2>1, <3>1 DEF ProxySafe
    <3>2. CASE Busy(p) = {} /\ p \notin drift
      <4>1. Busy(p)' = {t}
        BY <1>1, <2>1, <3>2, BusyAfter
      <4>2. InDb(p)' /\ InList(p)'
        BY <2>0, <3>2 DEF ProxyIInv, ProxySafe, InDb, InList, SameProxy
      <4>3. HalfWay(p, th[t].pc)'
        BY <1>1, <2>1, <4>2 DEF HalfWay, ProxyPcs
      <4> QED BY <4>1, <4>3 DEF ProxySafe
    <3> QED BY <2>0, <3>1, <3>2 DEF ProxySafe
  <2>2. CASE ~(th'[t].pc \in ProxyPcs /\ th'[t].arg = p)
    BY <1>1, <2>0, <2>2, OtherProxy DEF ProxyIInv
  <2> QED BY <2>1, <2>2
<1> QED BY <1>2 DEF ProxyIInv

LEMMA ProxyRestart ==
  ASSUME Shaped, ProxyIInv, NEW m \in Centers, NEW ok \in BOOLEAN, Restart(m, ok)
  PROVE  ProxyIInv'
<1>1. PICK gone \in SUBSET {t \in Threads : th[t].pc # "idle"} :
        /\ \A t \in Threads : OnProxy(t) => (t \in gone) = (Home(t) = m)
        /\ th' = [t \in Threads |-> IF t \in gone THEN Idle ELSE th[t]]
        /\ drift' = drift \cup {th[t].arg : t \in {u \in gone : OnProxy(u)}}
                          \cup (IF ok THEN {} ELSE {p \in Proxies : Cid[p] = m})
  BY DEF Restart
<1>2. /\ UNCHANGED <<db, wantP>> /\ live \in [Centers -> SUBSET Proxies]
      /\ live' = [live EXCEPT ![m] = IF ok THEN db ELSE {}]
  BY DEF Restart, init_ioproxy_list, Shaped, ProxiesOK
<1>3. ASSUME NEW p \in Proxies, p \notin drift' PROVE ProxySafe(p)'
  <2>0. p \notin drift /\ ProxySafe(p) /\ Cid[p] \in Centers
    BY <1>1, <1>3 DEF ProxyIInv
  <2>1. \A t \in Busy(p) : t \notin gone /\ th'[t] = th[t]
    BY <1>1, <1>3 DEF Busy, OnProxy
  <2>2. Busy(p)' = Busy(p)
    <3>1. \A t \in Threads : t \notin Busy(p) => t \notin Busy(p)'
      BY <1>1, IdlePc DEF Busy, OnProxy
    <3>2. \A t \in Busy(p) : t \in Busy(p)'
      BY <2>1 DEF Busy, OnProxy
    <3>3. Busy(p) \subseteq Threads /\ Busy(p)' \subseteq Threads
      BY DEF Busy
    <3> QED BY <3>1, <3>2, <3>3
  <2>3. CASE Cid[p] # m
    <3>1. SameProxy(p)
      BY <1>2, <2>0, <2>3 DEF SameProxy
    <3>2. (InDb(p)' <=> InDb(p)) /\ (InList(p)' <=> InList(p))
      BY <3>1 DEF InDb, InList, SameProxy
    <3>3. ASSUME NEW w \in Threads, Busy(p) = {w}, HalfWay(p, th[w].pc) PROVE ProxySafe(p)'
      <4>1. HalfWay(p, th[w].pc)'
        BY <2>1, <3>1, <3>2, <3>3 DEF HalfWay, SameProxy
      <4> QED BY <2>2, <3>3, <4>1 DEF ProxySafe
    <3> QED BY <2>0, <2>2, <3>2, <3>3 DEF ProxySafe
  <2>4. CASE Cid[p] = m
    <3>1. ok
      BY <1>1, <1>3, <2>4
    <3>2. Busy(p) = {}
      BY <1>1, <2>1, <2>4 DEF Busy, Home
    <3>3. InDb(p)
      BY <2>0, <3>2 DEF ProxySafe
    <3>4. InDb(p)' /\ InList(p)'
      BY <1>2, <2>0, <2>4, <3>1, <3>3 DEF InDb, InList
    <3> QED BY <2>2, <3>2, <3>4 DEF ProxySafe
  <2> QED BY <2>3, <2>4
<1> QED BY <1>3 DEF ProxyIInv, ProxySafe

LEMMA ProxyNext == ASSUME Shaped, ProxyIInv, [Next]_vars PROVE ProxyIInv'
<1>1. ASSUME NEW t \in Threads, RegStep(t) PROVE ProxyIInv'
  BY <1>1, ProxyStep, ProxyOtherStep DEF RegStep
<1>2. ASSUME UNCHANGED <<db, live, wantP, drift, th>> PROVE ProxyIInv'
  BY <1>2 DEF ProxyIInv, ProxySafe, Busy, OnProxy, InDb, InList, HalfWay
<1>3. ASSUME NEW c \in Centers, UsePool(c) PROVE ProxyIInv'
  BY <1>2, <1>3 DEF UsePool, ghosts
<1>4. CASE UNCHANGED core
  BY <1>2, <1>4 DEF core
<1> QED BY <1>1, <1>3, <1>4, ProxyRequest, ProxyRestart, NextCases DEF RegNext

(* When no request for a proxy is under way, its center's manager and the  *)
(* database have it if and only if it was added and not deleted since,     *)
(* except after a failed call, overlapping requests or a restart in the    *)
(* middle of one: add and del of IOProxy_MGR keep the two in step.         *)
THEOREM ProxiesAlwaysKept == Spec => []ProxiesKept
<1>1. Init => ProxyIInv
  <2> SUFFICES ASSUME Init, NEW p \in Proxies PROVE ProxySafe(p)
    BY DEF ProxyIInv
  <2>1. Busy(p) = {}
    BY IdlePc DEF Init, RegInit, Busy, OnProxy
  <2>2. InDb(p) /\ InList(p)
    BY DEF Init, RegInit, InDb, InList
  <2> QED BY <2>1, <2>2 DEF ProxySafe
<1>2. Shaped /\ ProxyIInv /\ [Next]_vars => (Shaped /\ ProxyIInv)'
  BY NextShaped, ProxyNext
<1>3. ProxyIInv => ProxiesKept
  BY DEF ProxyIInv, ProxySafe, ProxiesKept, InDb, InList
<1> QED BY <1>1, <1>2, <1>3, InitShaped, PTL DEF Spec

-----------------------------------------------------------------------------
(* The client's list of centers. *)

ListIInv == DiesOnlyWithoutCenters /\ CentersHeard

LEMMA AnswerHeard ==
  ASSUME CentersHeard, getCenterInformation
  PROVE  /\ blank => blank'
         /\ ~blank' => info' = Empty \/ Known(info') # {}
<1>1. CASE info' = Store(searchCenter) /\ blank' = (blank \/ Known(searchCenter) = {})
  <2>1. ~blank' => searchCenter # Failed /\ Known(searchCenter) # {}
    BY <1>1 DEF Known
  <2>2. ~blank' => info' = searchCenter
    BY <1>1, <2>1 DEF Store
  <2>3. blank => blank'
    BY <1>1
  <2> QED BY <2>1, <2>2, <2>3
<1>2. CASE blank' = TRUE
  BY <1>2
<1>3. CASE info' = Store(Empty) /\ blank' = blank
  <2>1. Store(Empty) = Empty
    BY DEF Store
  <2> QED BY <1>3, <2>1
<1> QED BY <1>1, <1>2, <1>3 DEF getCenterInformation

LEMMA ListNext == ASSUME ListIInv, [Next]_vars PROVE ListIInv'
<1> USE DEF ListIInv
<1>1. CASE UNCHANGED <<info, nodes, had, blank, dead>>
  BY <1>1 DEF DiesOnlyWithoutCenters, CentersHeard
<1>2. CASE OptStart
  <2>1. blank => blank'
    BY <1>2, AnswerHeard DEF OptStart
  <2>2. ~blank' => info' = Empty \/ Known(info') # {}
    BY <1>2, AnswerHeard DEF OptStart
  <2>3. had' => nodes' # {}
    BY <1>2 DEF OptStart
  <2>4. ~dead'
    BY <1>2 DEF OptStart
  <2> QED BY <2>2, <2>3, <2>4 DEF CentersHeard, DiesOnlyWithoutCenters
<1>3. CASE OptAsk
  <2>1. blank => blank'
    BY <1>3, AnswerHeard DEF OptAsk
  <2>2. ~blank' => info' = Empty \/ Known(info') # {}
    BY <1>3, AnswerHeard DEF OptAsk
  <2>3. UNCHANGED <<had, nodes>> /\ ~dead'
    BY <1>3 DEF OptAsk
  <2> QED BY <2>1, <2>2, <2>3 DEF CentersHeard, DiesOnlyWithoutCenters
<1>4. CASE OptRank
  <2>1. UNCHANGED <<info, blank>> /\ ~dead' /\ nodes' = Ranked
    BY <1>4 DEF OptRank
  <2>2. ~blank => (had' => nodes' # {})
    <3> SUFFICES ASSUME ~blank, had', nodes' = {} PROVE FALSE
      OBVIOUS
    <3>1. had
      BY <1>4 DEF OptRank
    <3>2. nodes # {}
      BY <3>1 DEF CentersHeard
    <3>3. info = Empty \/ Known(info) # {}
      BY DEF CentersHeard
    <3> QED BY <2>1, <3>2, <3>3 DEF Ranked
  <2> QED BY <2>1, <2>2 DEF CentersHeard, DiesOnlyWithoutCenters
<1>5. CASE DefaultCenter
  BY <1>5 DEF DefaultCenter, CentersHeard, DiesOnlyWithoutCenters
<1>6. \/ UNCHANGED <<info, nodes, had, blank, dead>>
      \/ OptStart \/ OptAsk \/ OptRank \/ DefaultCenter
  BY DEF Next, OptThread, GraphThread, FreshBegin, FreshAsk, FreshStore, get_mapping, clivars, vars
<1> QED BY <1>1, <1>2, <1>3, <1>4, <1>5, <1>6

(* Once the daemon has had a list of centers, a command without a center   *)
(* does not end it unless the manager answered "fail" or with no center:   *)
(* an answer that is late or lost never empties the list.                  *)
THEOREM OnlyBlankAnswersKill == Spec => []DiesOnlyWithoutCenters
<1>1. Init => ListIInv
  BY DEF Init, ListIInv, DiesOnlyWithoutCenters, CentersHeard
<1>2. ListIInv => DiesOnlyWithoutCenters
  BY DEF ListIInv
<1> QED BY <1>1, <1>2, ListNext, PTL DEF Spec

------------------------------------------------------------------------------
(* The types of the directory: answers, counters, centers and proxies. *)

\* A finite set of numbers has a largest one.
LEMMA Greatest ==
  ASSUME NEW S \in SUBSET Nat, IsFiniteSet(S), S # {}
  PROVE  Max(S) \in S /\ \A y \in S : Max(S) >= y
<1> DEFINE Unbounded == {T \in SUBSET S : T # {} /\ ~ \E x \in T : \A y \in T : x >= y}
<1>1. ASSUME Unbounded # {} PROVE FALSE
  <2>1. IsWellFoundedOn(StrictSubsetOrdering(S), SUBSET S)
    BY FS_StrictSubsetOrderingWellFounded, FS_FiniteSubsetsOfFinite
  <2>2. PICK T \in Unbounded : \A U \in Unbounded : <<U, T>> \notin StrictSubsetOrdering(S)
    <3>1. Unbounded \subseteq SUBSET S
      OBVIOUS
    <3> HIDE DEF Unbounded
    <3> QED BY <1>1, <2>1, <3>1, WFMin
  <2>3. PICK x \in T : TRUE
    OBVIOUS
  <2> DEFINE U == T \ {x}
  <2>4. U \notin Unbounded
    <3>1. T \in SUBSET S /\ U \in SUBSET S /\ U \subseteq T /\ U # T
      BY <2>3
    <3>2. <<U, T>> \in StrictSubsetOrdering(S)
      BY <3>1 DEF StrictSubsetOrdering
    <3> HIDE DEF Unbounded, U
    <3> QED BY <2>2, <3>2
  <2>5. x \in Nat /\ T \subseteq Nat
    OBVIOUS
  <2>6. CASE U = {}
    <3>1. \A y \in T : x >= y
      BY <2>5, <2>6
    <3> QED BY <3>1, <2>3
  <2>7. CASE U # {}
    <3>1. PICK z \in U : \A y \in U : z >= y
      BY <2>4, <2>7
    <3>2. CASE z >= x
      <4>1. \A y \in T : z >= y
        BY <3>1, <3>2
      <4> QED BY <4>1, <3>1
    <3>3. CASE ~(z >= x)
      <4>1. \A y \in T : x >= y
        BY <3>1, <3>3, <2>5
      <4> QED BY <4>1, <2>3
    <3> QED BY <3>2, <3>3
  <2> QED BY <2>6, <2>7
<1>2. S \notin Unbounded
  BY <1>1
<1>3. PICK x \in S : \A y \in S : x >= y
  BY <1>2
<1> QED BY <1>3 DEF Max

-----------------------------------------------------------------------------
(* What the client has stored. *)

\* An answer is a list of proxies; each center leads to a proxy of its own.
DirTypes == TypeOK /\ (answer = NoList \/ answer \in SUBSET Proxies)

\* The handlers fail and begin within the bounds.
LEMMA FailCounts == ASSUME faults \in 0 .. MaxFaults, Fail PROVE faults' \in 0 .. MaxFaults
BY RegistryAssumption DEF Fail

LEMMA BeginCounts ==
  ASSUME ops \in 0 .. MaxOps, NEW t, NEW q, NEW a, Begin(t, q, a)
  PROVE  ops' \in 0 .. MaxOps
BY RegistryAssumption DEF Begin

Pools == [Centers -> {"none", "fresh", "used"}]

LEMMA RegCounts ==
  ASSUME RegNext, pool \in Pools
  PROVE  /\ faults' = faults \/ Fail
         /\ ops' = ops \/ \E t \in Threads : \E q, a : Begin(t, q, a)
         /\ pool' \in Pools
<1>1. ASSUME NEW t \in Threads, RegRequest(t)
      PROVE  /\ UNCHANGED <<faults, pool>>
             /\ \E q, a : Begin(t, q, a)
  BY <1>1 DEF RegRequest, BeginProxy
<1>2. ASSUME NEW t \in Threads, RegStep(t)
      PROVE  /\ faults' = faults \/ Fail
             /\ ops' = ops
             /\ pool' \in Pools
  <2>1. CASE AddPool(t)
    <3>1. \A c : [pool EXCEPT ![c] = "fresh"] \in Pools
      BY DEF Pools
    <3>2. pool' \in Pools
      BY <2>1, <3>1 DEF AddPool
    <3> QED BY <2>1, <3>2 DEF AddPool
  <2>2. CASE AddGet(t) \/ AddSet(t) \/ deleteCenter(t)
    BY <2>2 DEF AddGet, AddSet, deleteCenter, DelGet, DelSet
  <2>3. CASE LiveAdd(t) \/ DbAdd(t) \/ DbDel(t) \/ LiveDel(t)
    BY <2>3 DEF LiveAdd, DbAdd, DbDel, LiveDel
  <2>4. CASE ResGet(t) \/ ResInsert(t) \/ ResDelete(t) \/ ChangeGet(t) \/ ChangeSet(t)
    BY <2>4 DEF ResGet, ResInsert, ResDelete, ChangeGet, ChangeSet
  <2> QED BY <1>2, <2>1, <2>2, <2>3, <2>4 DEF RegStep, addCenter
<1>3. ASSUME NEW c \in Centers, UsePool(c)
      PROVE  UNCHANGED <<faults, ops>> /\ pool' \in Pools
  BY <1>3 DEF UsePool, Pools
<1>4. ASSUME NEW m \in Centers, NEW ok \in BOOLEAN, Restart(m, ok)
      PROVE  Fail /\ UNCHANGED <<ops, pool>>
  BY <1>4 DEF Restart
<1>5. CASE \E t \in Threads : RegRequest(t)
  BY <1>1, <1>5
<1>6. CASE \E t \in Threads : RegStep(t)
  BY <1>2, <1>6
<1>7. CASE \E c \in Centers : UsePool(c)
  BY <1>3, <1>7
<1>8. CASE \E m \in Centers, ok \in BOOLEAN : Restart(m, ok)
  BY <1>4, <1>8
<1> QED BY <1>5, <1>6, <1>7, <1>8 DEF RegNext

LEMMA RegTypes ==
  ASSUME Shaped, DirTypes, RegNext, UNCHANGED clivars
  PROVE  DirTypes'
<1>0. pool \in Pools
  BY DEF DirTypes, TypeOK, Pools
<1>1. faults' \in 0 .. MaxFaults /\ ops' \in 0 .. MaxOps
  BY <1>0, RegCounts, FailCounts, BeginCounts DEF DirTypes, TypeOK
<1>2. pool' \in [Centers -> {"none", "fresh", "used"}]
  BY <1>0, RegCounts DEF Pools
<1>3. /\ doc' \in {NoDoc} \cup SUBSET Centers /\ db' \subseteq Proxies
      /\ live' \in [Centers -> SUBSET Proxies]
  BY RegNextShaped DEF Shaped, DocsOK, ProxiesOK
<1> QED BY <1>1, <1>2, <1>3 DEF DirTypes, TypeOK, clivars

Infos == {Empty, Failed} \cup SUBSET Centers

LEMMA KnownCenters == \A i \in Infos : Known(i) \in SUBSET Centers
BY DEF Known, Infos

LEMMA AnswerTypes ==
  ASSUME DirTypes, getCenterInformation
  PROVE  info' \in Infos /\ faults' \in 0 .. MaxFaults
<1>1. info \in Infos /\ Empty \in Infos /\ Failed \in Infos /\ searchCenter \in Infos
  BY DEF DirTypes, TypeOK, searchCenter, Infos
<1>2. \A a \in Infos : Store(a) \in Infos
  BY <1>1 DEF Store
<1>3. info' \in Infos
  BY <1>1, <1>2 DEF getCenterInformation
<1>4. faults' = faults \/ Fail
  BY DEF getCenterInformation
<1> QED BY <1>3, <1>4, FailCounts DEF DirTypes, TypeOK

\* After an answer each center leads to a proxy of its own, or where it led.
LEMMA MergedTypes ==
  ASSUME IsFiniteSet(Proxies), DirTypes, NEW list \in SUBSET Proxies
  PROVE  /\ Merged(list) \in [Centers -> Proxies \cup {NoProxy}]
         /\ \A c \in Centers : Merged(list)[c] # NoProxy => Cid[Merged(list)[c]] = c
<1> SUFFICES ASSUME NEW c \in Centers
             PROVE  /\ Merged(list)[c] \in Proxies \cup {NoProxy}
                    /\ Merged(list)[c] # NoProxy => Cid[Merged(list)[c]] = c
  BY DEF Merged
<1> DEFINE ps == {p \in list : Cid[p] = c}
<1>1. CASE ps = {}
  <2>1. Merged(list)[c] = graph[c]
    BY <1>1 DEF Merged
  <2> QED BY <2>1 DEF DirTypes, TypeOK
<1>2. CASE ps # {}
  <2>1. Merged(list)[c] = Max(ps)
    BY <1>2 DEF Merged
  <2>2. ps \in SUBSET Nat /\ IsFiniteSet(ps)
    BY RegistryAssumption, FS_Subset
  <2>3. Max(ps) \in ps
    BY <1>2, <2>2, Greatest
  <2> QED BY <2>1, <2>3
<1> QED BY <1>1, <1>2

LEMMA ClientTypes ==
  ASSUME IsFiniteSet(Proxies), DirTypes, ClientStep
  PROVE  DirTypes'
<1>0. UNCHANGED <<doc, pool, db, live>>
  BY ClientLeavesCore DEF core
<1>1. CASE OptStart
  <2>1. info' \in Infos /\ faults' \in 0 .. MaxFaults /\ nodes' \in SUBSET Centers
    BY <1>1, AnswerTypes, KnownCenters DEF OptStart
  <2> QED BY <1>0, <1>1, <2>1 DEF OptStart, DirTypes, TypeOK, Infos
<1>2. CASE OptAsk
  <2>1. info' \in Infos /\ faults' \in 0 .. MaxFaults
    BY <1>2, AnswerTypes DEF OptAsk
  <2> QED BY <1>0, <1>2, <2>1 DEF OptAsk, DirTypes, TypeOK, Infos
<1>3. CASE OptRank
  <2>1. nodes' \in SUBSET Centers
    BY <1>3, KnownCenters DEF OptRank, Ranked, DirTypes, TypeOK, Infos
  <2> QED BY <1>0, <1>3, <2>1 DEF OptRank, DirTypes, TypeOK, regvars
<1>4. CASE DefaultCenter \/ FreshBegin \/ \E c \in Centers : get_mapping(c)
  BY <1>4 DEF DefaultCenter, FreshBegin, get_mapping, DirTypes, TypeOK, regvars
<1>5. ASSUME NEW m \in Centers, FreshAsk(m) PROVE DirTypes'
  <2>1. faults' = faults \/ Fail
    BY <1>5 DEF FreshAsk
  <2>2. faults' \in 0 .. MaxFaults
    BY <2>1, FailCounts DEF DirTypes, TypeOK
  <2>3. answer' = NoList \/ answer' \in SUBSET Proxies
    BY <1>5 DEF FreshAsk, DirTypes, TypeOK
  <2> QED BY <1>0, <1>5, <2>2, <2>3 DEF FreshAsk, DirTypes, TypeOK
<1>6. CASE FreshStore
  <2>1. answer \in SUBSET Proxies
    BY <1>6 DEF FreshStore, DirTypes
  <2>2. graph' = Merged(answer) /\ answer' = NoList
    BY <1>6 DEF FreshStore
  <2>3. /\ graph' \in [Centers -> Proxies \cup {NoProxy}]
        /\ \A c \in Centers : graph'[c] # NoProxy => Cid[graph'[c]] = c
    BY <2>1, <2>2, MergedTypes
  <2> QED BY <1>0, <1>6, <2>2, <2>3 DEF FreshStore, DirTypes, TypeOK, regvars
<1> QED BY <1>1, <1>2, <1>3, <1>4, <1>5, <1>6 DEF ClientStep, OptThread, GraphThread

LEMMA TypesNext ==
  ASSUME IsFiniteSet(Proxies), Shaped, DirTypes, [Next]_vars
  PROVE  DirTypes'
<1>1. CASE UNCHANGED vars
  BY <1>1 DEF vars, regvars, clivars, DirTypes, TypeOK
<1>2. CASE RegNext /\ UNCHANGED clivars
  BY <1>2, RegTypes
<1>3. CASE ClientStep
  BY <1>3, ClientTypes
<1> QED BY <1>1, <1>2, <1>3 DEF Next, ClientStep

LEMMA InitTypes == Init => DirTypes
<1> SUFFICES ASSUME Init PROVE DirTypes
  OBVIOUS
<1>1. load \in Loads /\ doc = load.doc /\ db = load.db
  BY DEF Init, RegInit
<1>2. doc \in {NoDoc} \cup SUBSET Centers /\ db \subseteq Proxies
  BY <1>1, RegistryAssumption
<1>3. /\ pool \in [Centers -> {"none", "fresh", "used"}] /\ live \in [Centers -> SUBSET Proxies]
      /\ ops = 0 /\ faults = 0
  BY <1>2 DEF Init, RegInit
<1>4. faults \in 0 .. MaxFaults /\ ops \in 0 .. MaxOps
  BY <1>3, RegistryAssumption
<1> QED BY <1>2, <1>3, <1>4 DEF Init, DirTypes, TypeOK

(* What the managers and the client store keeps its shape; in particular   *)
(* the proxy to which the client sends the requests for a center is always *)
(* one of that center (graph_mod.cc sorts each answer by center).          *)
THEOREM DirectoryTypes == IsFiniteSet(Proxies) => (Spec => []TypeOK)
<1> SUFFICES ASSUME IsFiniteSet(Proxies) PROVE Spec => []TypeOK
  OBVIOUS
<1>1. Init => Shaped /\ DirTypes
  BY InitShaped, InitTypes
<1>2. Shaped /\ DirTypes /\ [Next]_vars => Shaped' /\ DirTypes'
  BY NextShaped, TypesNext
<1>3. DirTypes => TypeOK
  BY DEF DirTypes
<1> QED BY <1>1, <1>2, <1>3, PTL DEF Spec
=============================================================================
