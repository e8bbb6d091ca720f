----------------------------- MODULE DeviceModels -----------------------------
(***************************************************************************)
(* The attributes of the device models (src/dev/model_*.go) that steer the *)
(* dialogue.  A pattern is the set of kinds of lines it matches: "user"    *)
(* and "pass" questions, "dis" and "ena" command prompts (`>', `#'),       *)
(* "post", the line after a login that wants a key.  {} is the empty       *)
(* pattern.  A command is "show", or "wait", empty in the code and not sent. *)
(***************************************************************************)
EXTENDS Naturals, Sequences

\* NewDevAttr, and what most models leave alone.
NoAttr == [login |-> FALSE, enabledMode |-> FALSE, pagingOff |-> FALSE,
           user |-> {}, pass |-> {}, enablePass |-> {}, dis |-> {}, ena |-> {},
           post |-> {}, extra |-> 0, commands |-> <<"show">>]

Shows(n) == [i \in 1..n |-> "show"]
LoginAttr == [NoAttr EXCEPT !.login = TRUE, !.user = {"user"}, !.pass = {"pass"}]

CiscoIOS == [LoginAttr EXCEPT !.enabledMode = TRUE, !.pagingOff = TRUE,
                              !.enablePass = {"pass"}, !.dis = {"dis"},
                              !.ena = {"ena"}, !.commands = Shows(2)]
CiscoIOSXR == CiscoIOS
CiscoAPIC == [NoAttr EXCEPT !.dis = {"ena"}, !.ena = {"ena"}, !.commands = Shows(4)]
CiscoNGA == [CiscoAPIC EXCEPT !.commands = Shows(3)]
DatacomDmswitch == [LoginAttr EXCEPT !.dis = {"ena"}, !.commands = Shows(5)]
FortiOS == [LoginAttr EXCEPT !.dis = {"ena"}, !.ena = {"ena"}, !.commands = Shows(6)]
HuaweiVRP == [LoginAttr EXCEPT !.dis = {"dis"}, !.commands = Shows(3)]
JunOS == [LoginAttr EXCEPT !.pagingOff = TRUE, !.dis = {"dis"}, !.ena = {"dis"},
                           !.commands = Shows(2)]
\* The first command of linux waits for the first prompt.
Linux == [LoginAttr EXCEPT !.dis = {"dis"}, !.ena = {"dis"},
                           !.commands = <<"wait">> \o Shows(3)]
Mikrotik == [LoginAttr EXCEPT !.dis = {"dis"}, !.ena = {"dis"}, !.post = {"post"},
                              !.commands = Shows(3)]
\* Without a prompt, a command's output ends with the connection.
HTTP == NoAttr
==============================================================================
