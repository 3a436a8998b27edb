---------------------------- MODULE MCCommands ----------------------------
(* Two terminals on one machine or on two, over every tool of the repository. *)
EXTENDS Commands

Do(cmd) == [cmd |-> cmd, sug |-> ""]
Say(sug) == [cmd |-> "suggestion", sug |-> sug]
Cmds == {tool.cmd : tool \in Tools} \ {"suggestion"}
Pair(a, b) == [t \in Terms |-> IF t = "t1" THEN a ELSE b]

(* Any tool after a login; some of them beside a login of somebody else;   *)
(* tools after an exit; a tool that may be given up before the next login; *)
(* and two administrators.                                                 *)
MCScripts ==
    {Pair(<<Do("userlogin"), Do(c)>>, <<>>) : c \in Cmds}
    \cup {Pair(<<Do("userlogin"), Do(c)>>, <<Do("userlogin")>>) : c \in {"zonecancel", "usermodify"}}
    \cup {Pair(<<Do("userlogin"), Do("userexit"), Do(c)>>, <<>>) : c \in {"zonecancel", "usermodify"}}
    \cup {Pair(<<Do("userlogin"), Do("zonerename"), Do("userlogin")>>, <<>>)}
    \cup {Pair(<<Do("userlogin"), Do("listapply"), Say(s)>>, <<Do("listapply"), Do("usersignup")>>)
             : s \in {"agree", "reject"}}
MCHomes == {[t \in Terms |-> "d1"], [t \in Terms |-> IF t = "t1" THEN "d1" ELSE "d2"]}
MCOldApps == [i \in {<<"old", 1>>, <<"old", 2>>} |-> IF i[2] = 1 THEN "zregi" ELSE "usign"]
=============================================================================
