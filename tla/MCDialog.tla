------------------------------ MODULE MCDialog ------------------------------
(* Instances of Dialog for TLC: every device model, by the transports over which
   its dialogue starts in step. *)
EXTENDS Dialog, DeviceModels

\* The other way to stop the pager that model_fortios.go describes.
FortiOSPager == [FortiOS EXCEPT !.pagingOff = TRUE, !.extra = 2, !.commands = Shows(2)]

Asked(m, transports) == [model |-> m, transports |-> transports]
\* Models that log in by themselves over a transport that does not; linux, which
\* waits for the first prompt, over one that does; http, without prompts.
InStepCases ==
    {Asked(m, <<"telnet">>) : m \in {CiscoIOS, CiscoIOSXR, DatacomDmswitch, FortiOS,
                                     HuaweiVRP, JunOS, Mikrotik}}
    \cup {Asked(Linux, <<"ssh", "telnet">>), Asked(HTTP, <<"tcp">>),
          Asked(FortiOSPager, <<"telnet">>)}
OverSSH == {Asked(m, <<"ssh">>) : m \in {JunOS, CiscoAPIC, CiscoNGA}}
==============================================================================
