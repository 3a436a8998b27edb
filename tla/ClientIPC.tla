------------------------------ MODULE ClientIPC ------------------------------
(***************************************************************************)
(* The request handlers of the client daemon (src/client/ipc_mod.cc), one  *)
(* record each: the steps that a handler takes, in the order of the code,  *)
(* and how it turns the manager's answer into the answer to the tool.      *)
(*                                                                         *)
(* A step is a local test or a call of the manager.  The kinds are:        *)
(*   "login"  the account ID must not be empty                             *)
(*   "name"   the typed account name must be the daemon's, if it has one   *)
(*   "owner"  the request must name an owner                               *)
(*   "center" the typed center must be one that optNode knows              *)
(*   "id"     a call of getMemberID whose result is indexed with [0]       *)
(*   "ids"    a call of getMemberID whose result is used as a list         *)
(*   "zone"   a call of GetZoneInfo, then a search in the zones it stored  *)
(*   "post"   the call whose answer makes the answer to the tool           *)
(*   "more"   a call after it, whose answer is dropped                     *)
(* post_request, get_request and delete_request return the empty string if *)
(* the manager cannot be reached or does not answer within 30 s.           *)
(***************************************************************************)
EXTENDS Sequences

Local(kind) == [kind |-> kind, route |-> ""]
Login  == Local("login")
Name   == Local("name")
Owner  == Local("owner")
Center == Local("center")

getMemberID(kind) == [kind |-> kind, route |-> "/users/memberID"]
OwnerID == getMemberID("id")
Members == getMemberID("ids")
GetZoneInfo == [kind |-> "zone", route |-> "/zone/info"]
Post(route) == [kind |-> "post", route |-> route]
More(route) == [kind |-> "more", route |-> route]

\* Mutant: the code of the manager's answer is not looked at.
ReplyBlind(how, a) == IF how = "int" THEN {"success"} ELSE {a}

\* Mutant: only the answer of a text handler can be a success.
ReplyNever(how, a) == IF how = "int" THEN {"error"} ELSE {a}

(***************************************************************************)
(* How the answer is made.  "int": json_decode into an int that has no     *)
(* initial value; json_decode leaves it alone if the answer is no integer, *)
(* so an empty answer is read as any value.  "text": only "success" is     *)
(* passed on.  "auth": everything but "-1" and "33" counts as success.     *)
(* "raw": the manager's answer itself.                                     *)
(***************************************************************************)
Reply(how, a) ==
    CASE how = "int"  -> IF a = "" THEN {"success", "error"}
                         ELSE IF a = "0" THEN {"success"} ELSE {"error"}
      [] how = "text" -> IF a = "success" THEN {"success"} ELSE {"error"}
      [] how = "auth" -> IF a = "-1" THEN {"fail"} ELSE IF a = "33" THEN {"33"} ELSE {"success"}
      [] how = "raw"  -> {a}

Handler(steps, how) == [steps |-> steps, how |-> how]

(* What a handler answers if getMemberID did not find the name. *)
NoMember(cmd) == IF cmd \in {"adsearcham", "adauthsearch"} THEN "-1" ELSE "error"

(* The handlers for a logged-in user and for an administrator who types    *)
(* the owner's name differ in how they find the owner's ID.                *)
User(steps, how) == Handler(<<Login>> \o steps, how)
Admin(steps, how) == Handler(<<Owner, OwnerID>> \o steps, how)

-----------------------------------------------------------------------------
doregisterupdate(url) == Handler(<<Center, Post(url)>>, "raw")
doresourceupdate   == doregisterupdate("/resource/update")
doresourceregister == doregisterupdate("/resource/register")
doresourcequery    == Handler(<<Post("/resource/query")>>, "raw")
doresourcedelete   == Handler(<<Post("/resource/delete")>>, "raw")

dospacerename       == User(<<GetZoneInfo, Post("/space/rename")>>, "text")
dospacerename_admin == Admin(<<GetZoneInfo, Post("/space/rename")>>, "text")
dospaceusage        == User(<<GetZoneInfo, Post("/space/spaceusagecheck")>>, "raw")
dospaceusage_admin  == Admin(<<GetZoneInfo, Post("/space/spaceusagecheck")>>, "raw")
dospacesizechange   == User(<<GetZoneInfo, Post("/space/changesizeapply")>>, "int")
dospacereplica      == Handler(<<Post("/space/replica")>>, "int")

domapadd                == User(<<GetZoneInfo, Center, Post("/zone/mapaddapply")>>, "int")
domapdeduct             == User(<<GetZoneInfo, Post("/zone/mapdeduct")>>, "int")
domapdeduct_admin       == Admin(<<GetZoneInfo, Post("/zone/mapdeduct")>>, "int")
dozoneadd_admin         == Admin(<<Members, Center, Post("/zone/add")>>, "int")
dozonecancel            == User(<<GetZoneInfo, Post("/zone/cancel")>>, "int")
dozonecancel_admin      == Admin(<<GetZoneInfo, Post("/zone/cancel")>>, "int")
dozoneregister          == User(<<Members, Center, Post("/zone/registerapply")>>, "int")
dozonerename            == User(<<GetZoneInfo, Post("/zone/rename")>>, "int")
dozonerename_admin      == Admin(<<GetZoneInfo, Post("/zone/rename")>>, "int")
dozoneshare             == User(<<Members, GetZoneInfo, Post("/zone/share")>>, "int")
dozoneshare_admin       == Admin(<<Members, GetZoneInfo, Post("/zone/share")>>, "int")
dozonesharecancel       == User(<<Members, GetZoneInfo, Post("/zone/sharecancel")>>, "int")
dozonesharecancel_admin == Admin(<<Members, GetZoneInfo, Post("/zone/sharecancel")>>, "int")
dozonelist              == User(<<Post("/zone/info")>>, "raw")
dozonelist_admin        == Admin(<<Post("/zone/info")>>, "raw")

(* The login is sent by an HTTP client of its own, without a time limit;   *)
(* the permissions and the zones of the account are fetched afterwards.    *)
douserlogin   == Handler(<<Post("/users/login"), More("/auth/search"), More("/zone/info")>>, "raw")
dousersearch  == Handler(<<Name, Post("/users/search")>>, "raw")
dousersignup  == Handler(<<Post("/users/bufferuserregister")>>, "raw")
doadminsignup == Handler(<<Post("/users/adminregistration")>>, "raw")
dousermodify  == Handler(<<Name, Post("/users/modify")>>, "raw")
douserexit    == Handler(<<Name, Post("/users/exit")>>, "raw")
dousercancel  == Handler(<<Name, Post("/users/cancel")>>, "raw")
doauthsearch  == Handler(<<Name, Post("/auth/search")>>, "raw")
doauthmodify  == Handler(<<Name, Post("/auth/modify"), More("/auth/search")>>, "auth")

domodifycenter == Handler(<<Post("/mconf/addCenter")>>, "raw")
dosearchcenter == Handler(<<Post("/mconf/searchCenter")>>, "raw")
dodeletecenter == Handler(<<Post("/mconf/deleteCenter")>>, "raw")

dolistapply == Handler(<<Post("/users/listapply")>>, "raw")

\* Mutant: the application is removed first.
dosuggestionFirst(sug, kind) ==
    IF sug = "reject"
    THEN Handler(<<Post("/users/removeapply")>>, "int")
    ELSE Handler(<<More("/users/removeapply"), Post("/zone/registercheck")>>, "int")

(* An application is rejected by removing it.  If it is agreed to, the     *)
(* route that its kind belongs to is called with the data that the daemon  *)
(* holds for the id, and the application is removed whatever came back.    *)
dosuggestion(sug, kind) ==
    LET check == [usign |-> "/users/registration", zregi |-> "/zone/registercheck",
                  spadd |-> "/zone/mapaddcheck", spsiz |-> "/space/changesize"]
    IN  IF sug = "reject"
        THEN Handler(<<Post("/users/removeapply")>>, "int")
        ELSE Handler(<<Post(check[kind]), More("/users/removeapply")>>,
                     IF kind = "usign" THEN "raw" ELSE "int")

doadcam        == Handler(<<OwnerID, Post("/users/adcam")>>, "raw")
doaduam        == Handler(<<OwnerID, Post("/users/aduam")>>, "raw")
doadsearcham   == Handler(<<OwnerID, Post("/users/adsearcham")>>, "raw")
doadseepool    == Handler(<<Post("/users/adsearchpool")>>, "raw")
doadauthsearch == Handler(<<OwnerID, Post("/auth/search")>>, "raw")
doadauthmodify == Handler(<<OwnerID, Post("/auth/modify")>>, "auth")

-----------------------------------------------------------------------------
(* The callback that ClientIPC::init gives to the IPC server.              *)
Dispatch ==
    [resourceupdate |-> doresourceupdate, resourceregister |-> doresourceregister,
     resourcequery |-> doresourcequery, resourcedelete |-> doresourcedelete,
     spacerename |-> dospacerename, spacerename_admin |-> dospacerename_admin,
     spaceusage |-> dospaceusage, spaceusage_admin |-> dospaceusage_admin,
     spacesizechange |-> dospacesizechange, spacereplica |-> dospacereplica,
     mapadd |-> domapadd, mapdeduct |-> domapdeduct, mapdeduct_admin |-> domapdeduct_admin,
     zoneadd_admin |-> dozoneadd_admin, zonecancel |-> dozonecancel,
     zonecancel_admin |-> dozonecancel_admin, zoneregister |-> dozoneregister,
     zonerename |-> dozonerename, zonerename_admin |-> dozonerename_admin,
     zoneshare |-> dozoneshare, zoneshare_admin |-> dozoneshare_admin,
     zonesharecancel |-> dozonesharecancel, zonesharecancel_admin |-> dozonesharecancel_admin,
     zonelist |-> dozonelist, zonelist_admin |-> dozonelist_admin,
     userlogin |-> douserlogin, usersearch |-> dousersearch, usersignup |-> dousersignup,
     adminsignup |-> doadminsignup, usermodify |-> dousermodify, userexit |-> douserexit,
     usercancel |-> dousercancel, authsearch |-> doauthsearch, authmodify |-> doauthmodify,
     modifycenter |-> domodifycenter, searchcenter |-> dosearchcenter,
     deletecenter |-> dodeletecenter, listapply |-> dolistapply,
     adcam |-> doadcam, aduam |-> doaduam, adsearcham |-> doadsearcham,
     adseepool |-> doadseepool, adauthsearch |-> doadauthsearch,
     adauthmodify |-> doadauthmodify]

HandlerOf(req) ==
    IF req.cmd = "suggestion" THEN dosuggestion(req.sug, req.kind) ELSE Dispatch[req.cmd]
=============================================================================
