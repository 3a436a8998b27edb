---------------------------- MODULE CmdlineTools ----------------------------
(***************************************************************************)
(* The command-line tools of src/cmdline, one record each.  A tool parses  *)
(* its arguments (CmdLineProxy), sends one IPCreq to the client daemon on  *)
(* a connection of its own and waits for one IPCMessage.                   *)
(*                                                                         *)
(* cmd:   the cmdname of the request it sends                              *)
(* args:  the tests of the arguments that can end it before it sends       *)
(* timed: it waits with wait_for (3 or 20 s); otherwise with fu.get()      *)
(* bad:   the answers that it prints as a failure.  A tool that prints the *)
(*        answer as it came leaves the verdict to the reader: NotGood.     *)
(* index: the answers on which it indexes a vector past its end            *)
(*                                                                         *)
(* An answer (ipcresult) is abstracted to its meaning: "success", "0",     *)
(* "9", "ok" and "data" (a document that decodes) are good; "-1", "1",     *)
(* "33", "fail" and "error" (any error text) are bad; "refused" is a text  *)
(* with which the daemon turns the request down; "" is the empty string.   *)
(***************************************************************************)
Good == {"success", "0", "9", "ok", "data"}
NotGood == {"-1", "-2", "1", "11", "33", "fail", "error", "refused", ""}
Answers == Good \cup NotGood

Tool(cmd, args, timed, bad) ==
    [cmd |-> cmd, args |-> args, timed |-> timed, bad |-> bad, index |-> {}]

(* CmdLineProxy: an option that is unknown or asks for help ends any tool. *)
Parsed == "options"

-----------------------------------------------------------------------------
(* aggregationcmdline *)
resourcedelete   == Tool("resourcedelete", {Parsed, "chars", "some"}, TRUE, NotGood)
resourcequery    == Tool("resourcequery", {Parsed, "chars", "some"}, TRUE, {""})
resourceregister == Tool("resourceregister", {Parsed, "chars", "some", "complete"}, TRUE, NotGood)
resourceupdate   == Tool("resourceupdate", {Parsed, "chars", "some", "complete"}, TRUE, NotGood)

(* mconfcmdline: everything but "fail" is printed as success *)
deletecenter == Tool("deletecenter", {Parsed, "some"}, FALSE, {"fail"})
modifycenter == Tool("modifycenter", {Parsed, "some"}, FALSE, {"fail"})
searchcenter == Tool("searchcenter", {Parsed, "none"}, FALSE, NotGood)

(* spacecmdline *)
spacerename_ipc     == Tool("spacerename", {Parsed, "some", "chars"}, TRUE, NotGood)
spacerename_admin   == Tool("spacerename_admin", {Parsed, "some", "chars"}, TRUE, NotGood)
spacereplica        == Tool("spacereplica", {Parsed, "complete"}, TRUE, NotGood)
spacesizechange_ipc == Tool("spacesizechange", {Parsed, "some"}, TRUE, NotGood)

(* After the tag "1" the tools decode the usages and print one per space   *)
(* name, however many the answer had.                                      *)
spaceusage_ipc   == [Tool("spaceusage", {Parsed, "some"}, TRUE, NotGood) EXCEPT !.index = {""}]
spaceusage_admin == [Tool("spaceusage_admin", {Parsed, "some"}, TRUE, NotGood) EXCEPT !.index = {""}]

(* usercmdline *)
adcreateaccountmap == Tool("adcam", {Parsed, "some"}, FALSE, NotGood)
aduaccountmap      == Tool("aduam", {Parsed, "some"}, FALSE, NotGood)
adsearchaccountmap == Tool("adsearcham", {Parsed, "some"}, FALSE, {"1", "33", "-1"})
adseepool          == Tool("adseepool", {Parsed}, FALSE, NotGood)
adminsignup        == Tool("adminsignup", {Parsed, "some"}, FALSE, NotGood)
listapply          == Tool("listapply", {Parsed}, FALSE, {"1", "33"})
suggestion         == Tool("suggestion", {Parsed, "complete"}, FALSE, NotGood)
usercancel_ipc     == Tool("usercancel", {Parsed, "some"}, FALSE, NotGood)
userexit_ipc       == Tool("userexit", {Parsed, "some"}, FALSE, {"-1", "33", "refused"})
userlogin_ipc      == Tool("userlogin", {Parsed, "some"}, FALSE, {"-1"})
usermodify_ipc     == Tool("usermodify", {Parsed, "some"}, FALSE, NotGood)
usersearch_ipc     == Tool("usersearch", {Parsed, "some"}, FALSE, {"-1", "33", "refused"})
usersignup_ipc     == Tool("usersignup", {Parsed, "some", "complete"}, FALSE, NotGood)

(* zonecmdline *)
mapadd_ipc            == Tool("mapadd", {Parsed, "some", "chars"}, TRUE, NotGood)
mapdeduct_ipc         == Tool("mapdeduct", {Parsed, "some"}, TRUE, NotGood)
mapdeduct_admin       == Tool("mapdeduct_admin", {Parsed, "some"}, TRUE, NotGood)
zoneadd_admin         == Tool("zoneadd_admin", {Parsed, "some", "chars"}, TRUE, NotGood)
zonecancel_ipc        == Tool("zonecancel", {Parsed, "some"}, TRUE, NotGood)
zonecancel_admin      == Tool("zonecancel_admin", {Parsed, "some"}, TRUE, NotGood)
zonelist_ipc          == Tool("zonelist", {Parsed}, TRUE, {"fail"})
zonelist_admin        == Tool("zonelist_admin", {Parsed}, TRUE, {"fail"})
zoneregister_ipc      == Tool("zoneregister", {Parsed, "some", "chars"}, TRUE, NotGood)
zonerename_ipc        == Tool("zonerename", {Parsed, "some", "chars"}, TRUE, NotGood)
zonerename_admin      == Tool("zonerename_admin", {Parsed, "some", "chars"}, TRUE, NotGood)
zoneshare_ipc         == Tool("zoneshare", {Parsed, "some"}, TRUE, NotGood)
zoneshare_admin       == Tool("zoneshare_admin", {Parsed, "some"}, TRUE, NotGood)
zonesharecancel_ipc   == Tool("zonesharecancel", {Parsed, "some"}, TRUE, NotGood)
zonesharecancel_admin == Tool("zonesharecancel_admin", {Parsed, "some"}, TRUE, NotGood)

Tools == {resourcedelete, resourcequery, resourceregister, resourceupdate,
          deletecenter, modifycenter, searchcenter,
          spacerename_ipc, spacerename_admin, spacereplica, spacesizechange_ipc,
          spaceusage_ipc, spaceusage_admin,
          adcreateaccountmap, aduaccountmap, adsearchaccountmap, adseepool, adminsignup,
          listapply, suggestion, usercancel_ipc, userexit_ipc, userlogin_ipc,
          usermodify_ipc, usersearch_ipc, usersignup_ipc,
          mapadd_ipc, mapdeduct_ipc, mapdeduct_admin, zoneadd_admin, zonecancel_ipc,
          zonecancel_admin, zonelist_ipc, zonelist_admin, zoneregister_ipc,
          zonerename_ipc, zonerename_admin, zoneshare_ipc, zoneshare_admin,
          zonesharecancel_ipc, zonesharecancel_admin}

ToolTable == [cmd \in {tool.cmd : tool \in Tools} |-> CHOOSE tool \in Tools : tool.cmd = cmd]
ToolOf(cmd) == ToolTable[cmd]
=============================================================================
