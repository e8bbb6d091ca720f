-------------------------------- MODULE Dialog --------------------------------
(***************************************************************************)
(* One backup's dialogue with its device: fetch of src/dev/model.go, from  *)
(* the choice of a transport to the saved capture.  The device is the      *)
(* environment: it asks for a name and a password or not, is enabled at    *)
(* once or not, echoes or not, answers when it likes and may hang up.      *)
(*                                                                         *)
(* What it says travels as a sequence of tokens, of which a Read returns   *)
(* any prefix.  A question or prompt is two tokens, the text and the last  *)
(* character, since match() compares its patterns with the lines of one    *)
(* Read only and misses a prompt cut in two.  Lines of a device's output   *)
(* do not look like prompts.                                               *)
(***************************************************************************)
EXTENDS Integers, Sequences, FiniteSetsExt

CONSTANTS Case,    \* what the program may be asked to do: [model, transports]
          Lines    \* how many lines a device answers to a command

\* What a line may match, and what steers the dialogue with a model (NewDevAttr).
Kind == {"user", "pass", "dis", "ena", "post"}
Model == [login: BOOLEAN, enabledMode: BOOLEAN, pagingOff: BOOLEAN,
          user: SUBSET Kind, pass: SUBSET {"pass"}, enablePass: SUBSET {"pass"},
          dis: SUBSET {"dis", "ena"}, ena: SUBSET {"dis", "ena"},
          post: SUBSET Kind, extra: Nat, commands: Seq({"show", "wait"})]
Transport == {"ssh", "telnet", "tcp"}

ASSUME LinesAssumption == Lines \in Nat

\* A model that logs in knows the question for the password; one that knows no prompt
\* logs in to nothing and enables nothing.
ASSUME CaseAssumption ==
    \A c \in Case :
        /\ c \in [model: Model, transports: Seq(Transport)]
        /\ c.model.login => c.model.pass # {}
        /\ c.model.dis = {} => ~ (c.model.login \/ c.model.enabledMode)

VARIABLES case,     \* the model, the transports to try, and the device's habits
          pc,       \* where fetch is
          k,        \* commands, or prompts after the pager command, so far
          found,    \* what match() returned: index of the pattern, 0 none yet
          buf,      \* matchBuf
          capture,  \* the outputs to be saved
          dev,      \* what the device waits for
          mode,     \* its command prompt
          wire,     \* what it said and fetch has not read
          typed     \* lines sent to it that it has not read

vars == <<case, pc, k, found, buf, capture, dev, mode, wire, typed>>
progVars == <<case, pc, k, found, buf, capture>>
devVars == <<dev, mode, wire>>

model == case.model
Token(kind, of) == [kind |-> kind, of |-> of]
Word(kind) == <<Token(kind, 0)>>
Prompt(kind) == <<Token("stem", 0), Token(kind, 0)>>
Output(i) == [j \in 1..Lines |-> Token("text", i)]

------------------------------------------------------------------------------
(* The order of the dialogue: what to send and what to wait for next. *)

Commands(i) ==
    IF i > Len(model.commands) THEN [pc |-> "save", say |-> <<>>]
    ELSE [pc |-> "command",
          say |-> IF model.commands[i] = "wait" THEN <<>>
                  ELSE <<Token("show", i)>>]

\* A pager command of several lines gets as many prompts.
PagingOff == IF model.pagingOff
             THEN [pc |-> "pager", say |-> [i \in 1..(model.extra + 1) |-> Token("pager", 0)]]
             ELSE Commands(1)

Enable(enabled) == IF model.enabledMode /\ ~ enabled
                   THEN [pc |-> "enable", say |-> Word("enter")] ELSE PagingOff

Login(logged) == IF model.login /\ ~ logged THEN [pc |-> "login", say |-> <<>>]
                 ELSE Enable(FALSE)

\* Variant: the last match still stands.
GotoMatched(next, n) ==
    /\ pc' = next.pc /\ k' = n
    /\ typed' = typed \o next.say
    /\ UNCHANGED found /\ buf' = <<>>

\* Go on with `next', as prompt or command number n.
Goto(next, n) ==
    /\ pc' = next.pc /\ k' = n
    /\ typed' = typed \o next.say
    /\ found' = 0 /\ buf' = <<>>

Given(pattern) == IF pattern = {} THEN <<>> ELSE <<pattern>>

\* matchCommandPrompt's list; without a disabled prompt it looks for EOF.
CommandPrompt == <<model.dis>> \o Given(model.ena)

\* The patterns match() looks for.
Patterns ==
    CASE pc = "login"    -> <<model.user, model.pass>>
      [] pc = "password" -> Given(model.pass) \o Given(model.ena) \o Given(model.dis)
      [] pc = "post"     -> Given(model.dis) \o Given(model.ena) \o <<model.post>>
      [] pc = "enable2"  -> Given(model.enablePass) \o <<model.ena>>
      [] pc = "enable3"  -> <<model.ena>>
      [] OTHER           -> CommandPrompt

Matching == {"login", "password", "post", "prompt", "enable", "enable2", "enable3",
             "pager", "command"}
Looking == pc \in Matching /\ found = 0

------------------------------------------------------------------------------
(* openTransport *)

\* The first transport that opens is used; only ssh logs in by itself.
Open ==
    /\ pc = "open" /\ case.transports # <<>>
    /\ LET logged == Head(case.transports) = "ssh" IN
       /\ Goto(Login(logged), 1)
       /\ dev' = IF logged \/ case.asks = "none" THEN "greet" ELSE case.asks
       /\ wire' = IF logged \/ case.asks = "none" THEN <<>>
                  ELSE <<Token("text", 0)>> \o Prompt(case.asks)
    /\ UNCHANGED <<case, capture, mode>>

OpenNext ==
    /\ pc = "open" /\ case.transports # <<>>
    /\ case' = [case EXCEPT !.transports = Tail(@)]
    /\ UNCHANGED <<pc, k, found, buf, capture, devVars, typed>>

OpenFails ==
    /\ pc = "open" /\ case.transports = <<>>
    /\ pc' = "failed"
    /\ UNCHANGED <<case, k, found, buf, capture, devVars, typed>>

------------------------------------------------------------------------------
(* match *)

\* Token i of the bytes read is a prompt a pattern matches: its text is in the same
\* Read, and what follows on its line, if the device echoes, does not spoil it (the
\* patterns of questions and prompts end in $).
Hit(read, i, pattern) ==
    /\ read[i].kind \in pattern
    /\ i > 1 /\ read[i - 1].kind = "stem"
    /\ i = Len(read) \/ ~ case.echo \/ read[i].kind = "post"

\* Variant: any bytes will do as an answer.
MatchAnything(read) == 1

\* The first line that matches decides, and of its patterns the first; 0 for none.
Match(read) ==
    LET hits == {i \in 1..Len(read) :
                   \E j \in 1..Len(Patterns) : Hit(read, i, Patterns[j])}
    IN IF Patterns[1] = {} \/ hits = {} THEN 0
       ELSE Min({j \in 1..Len(Patterns) : Hit(read, Min(hits), Patterns[j])})

Read(n) ==
    /\ Looking
    /\ LET read == SubSeq(wire, 1, n) IN
       /\ found' = Match(read)
       /\ buf' = buf \o read
    /\ wire' = SubSeq(wire, n + 1, Len(wire))
    /\ UNCHANGED <<case, pc, k, capture, dev, mode, typed>>

\* Variant: no deadlines.
TimesOutNever ==
    /\ Looking /\ dev = "closed"
    /\ pc' = "failed"
    /\ UNCHANGED <<case, k, found, buf, capture, devVars, typed>>

\* ReadTimeout or MatchTimeout has passed, or the connection is broken.
TimesOut ==
    /\ Looking
    /\ pc' = "failed"
    /\ UNCHANGED <<case, k, found, buf, capture, devVars, typed>>

------------------------------------------------------------------------------
(* login *)

SendUsername ==
    /\ pc = "login" /\ found = 1
    /\ Goto([pc |-> "password", say |-> Word("username")], k)
    /\ UNCHANGED <<case, capture, devVars>>

\* A command prompt instead of the question for the password: logged in.
NoPassword ==
    /\ pc = "password" /\ found > 1
    /\ Goto(Enable(model.ena # {} /\ found = 2), 1)
    /\ UNCHANGED <<case, capture, devVars>>

SendPassword ==
    /\ <<pc, found>> \in {<<"login", 2>>, <<"password", 1>>}
    /\ Goto([pc |-> IF model.post = {} THEN "prompt" ELSE "post",
             say |-> Word("password")], k)
    /\ UNCHANGED <<case, capture, devVars>>

PostLogin ==
    /\ pc = "post" /\ found > 0
    /\ IF found = Len(Patterns)
       THEN Goto([pc |-> "prompt", say |-> Word("key")], k)
       ELSE Goto(Enable(model.ena # {} /\ found = 2), 1)
    /\ UNCHANGED <<case, capture, devVars>>

LoggedIn ==
    /\ pc = "prompt" /\ found > 0
    /\ Goto(Enable(found = 2), 1)
    /\ UNCHANGED <<case, capture, devVars>>

------------------------------------------------------------------------------
(* enable, pagingOff *)

SendEnable ==
    /\ pc = "enable" /\ found > 0
    /\ Goto(IF found = 2 THEN PagingOff
            ELSE [pc |-> "enable2", say |-> Word("enable")], 1)
    /\ UNCHANGED <<case, capture, devVars>>

\* Variant: the password is sent whichever pattern matched.
SendEnablePasswordAlways ==
    /\ pc = "enable2" /\ found > 0
    /\ Goto([pc |-> "enable3", say |-> Word("enablePassword")], 1)
    /\ UNCHANGED <<case, capture, devVars>>

SendEnablePassword ==
    /\ pc = "enable2" /\ found > 0
    /\ Goto(IF found = Len(Patterns) THEN PagingOff
            ELSE [pc |-> "enable3", say |-> Word("enablePassword")], 1)
    /\ UNCHANGED <<case, capture, devVars>>

Enabled ==
    /\ pc = "enable3" /\ found > 0
    /\ Goto(PagingOff, 1)
    /\ UNCHANGED <<case, capture, devVars>>

\* One prompt for the command, and those the model says come in addition.
PagerOff ==
    /\ pc = "pager" /\ found > 0
    /\ IF k <= model.extra THEN Goto([pc |-> "pager", say |-> <<>>], k + 1)
       ELSE Goto(Commands(1), 1)
    /\ UNCHANGED <<case, capture, devVars>>

------------------------------------------------------------------------------
(* sendCommands, saveCommit *)

\* The output up to the prompt is kept, and the next command sent.
Save == capture' = Append(capture, buf)

CommandDone ==
    /\ pc = "command" /\ found > 0
    /\ Save
    /\ Goto(Commands(k + 1), k + 1)
    /\ UNCHANGED <<case, devVars>>

\* Variant: EOF is as good as a prompt.
ReadEOFAccepted ==
    /\ Looking /\ dev = "closed" /\ wire = <<>>
    /\ IF pc = "command"
       THEN Save /\ Goto(Commands(k + 1), k + 1)
       ELSE pc' = "failed" /\ UNCHANGED <<k, found, buf, capture, typed>>
    /\ UNCHANGED <<case, devVars>>

\* EOF ends a command's output when the model has no prompt, and fetch otherwise.
ReadEOF ==
    /\ Looking /\ dev = "closed" /\ wire = <<>>
    /\ IF pc = "command" /\ model.dis = {}
       THEN Save /\ Goto(Commands(k + 1), k + 1)
       ELSE pc' = "failed" /\ UNCHANGED <<k, found, buf, capture, typed>>
    /\ UNCHANGED <<case, devVars>>

\* The store may fail; fetch's result says so.
SaveCommit ==
    /\ pc = "save"
    /\ pc' \in {"ok", "failed"}
    /\ UNCHANGED <<case, k, found, buf, capture, devVars, typed>>

------------------------------------------------------------------------------
(* The device *)

Says(tokens) == wire' = wire \o tokens
CommandLine == dev' = "shell" /\ Says(Prompt(mode))

\* In a session the transport has logged in, and on a device that asks nothing, the
\* first prompt comes unasked.
DeviceGreets ==
    /\ dev = "greet"
    /\ IF model.dis # {} THEN CommandLine ELSE dev' = "shell" /\ UNCHANGED wire
    /\ UNCHANGED <<progVars, mode, typed>>

DeviceHears(answer) ==
    /\ typed # <<>> /\ typed' = Tail(typed)
    /\ answer
    /\ UNCHANGED <<pc, k, found, buf, capture>>

\* A name, then a password unless the device trusts the name.
DeviceAsks ==
    /\ dev = "user" /\ UNCHANGED <<case, mode>>
    /\ DeviceHears(\/ dev' = "pass" /\ Says(Prompt("pass"))
                   \/ CommandLine)

\* A wrong password starts again; a right one gives the prompt, or asks for a key.
DeviceChecks ==
    /\ dev = "pass" /\ UNCHANGED <<case, mode>>
    /\ DeviceHears(\/ dev' = case.asks /\ Says(Prompt(case.asks))
                   \/ Head(typed).kind = "password" /\ CommandLine
                   \/ /\ Head(typed).kind = "password" /\ model.post # {}
                      /\ dev' = "key" /\ Says(Prompt("post")))

DeviceKey ==
    /\ dev = "key" /\ UNCHANGED <<case, mode>>
    /\ DeviceHears(CommandLine)

DeviceEnables ==
    /\ dev = "shell" /\ typed # <<>> /\ Head(typed).kind = "enable"
    /\ UNCHANGED case
    /\ DeviceHears(\/ dev' = "enablePass" /\ Says(Prompt("pass")) /\ UNCHANGED mode
                   \/ dev' = "shell" /\ mode' = "ena" /\ Says(Prompt("ena")))

DeviceChecksEnable ==
    /\ dev = "enablePass" /\ UNCHANGED case
    /\ DeviceHears(\/ CommandLine /\ UNCHANGED mode
                   \/ /\ Head(typed).kind = "enablePassword"
                      /\ dev' = "shell" /\ mode' = "ena" /\ Says(Prompt("ena")))

\* A command is answered, then the prompt, or the end of the connection.
DeviceAnswers ==
    /\ dev = "shell" /\ typed # <<>> /\ Head(typed).kind # "enable"
    /\ UNCHANGED <<case, mode>>
    /\ LET line == Head(typed)
           out == IF line.kind = "show" THEN Output(line.of) ELSE <<>> IN
       DeviceHears(IF model.dis = {} THEN dev' = "closed" /\ Says(out)
                   ELSE dev' = "shell" /\ Says(out \o Prompt(mode)))

DeviceHangsUp ==
    /\ dev \notin {"off", "closed"}
    /\ dev' = "closed"
    /\ UNCHANGED <<progVars, mode, wire, typed>>

------------------------------------------------------------------------------
Init ==
    /\ \E c \in Case, echo \in BOOLEAN, asks \in {"user", "pass", "none"} :
         /\ asks = "none" <=> ~ c.model.login
         /\ case = [model |-> c.model, transports |-> c.transports, echo |-> echo,
                    asks |-> asks]
         /\ mode \in IF c.model.dis = {} THEN {"none"} ELSE c.model.dis \cup c.model.ena
    /\ pc = "open" /\ k = 1 /\ found = 0 /\ buf = <<>> /\ capture = <<>>
    /\ dev = "off" /\ wire = <<>> /\ typed = <<>>

Fetch == \/ Open \/ OpenNext \/ OpenFails
         \/ (\E n \in 1..Len(wire) : Read(n)) \/ ReadEOF \/ TimesOut
         \/ SendUsername \/ NoPassword \/ SendPassword \/ PostLogin \/ LoggedIn
         \/ SendEnable \/ SendEnablePassword \/ Enabled \/ PagerOff
         \/ CommandDone \/ SaveCommit

TheDevice == \/ DeviceGreets \/ DeviceAsks \/ DeviceChecks \/ DeviceKey
             \/ DeviceEnables \/ DeviceChecksEnable \/ DeviceAnswers \/ DeviceHangsUp

Next == Fetch \/ TheDevice

\* Dialling has a timeout, but not the handshake of ssh and the opening of its session.
OpeningSSH == pc = "open" /\ case.transports # <<>> /\ Head(case.transports) = "ssh"

\* The goroutine of a backup runs, and dialling a transport ends; opening one over ssh
\* need not.  A device need not do anything.
Spec == Init /\ [][Next]_vars /\ WF_vars(~ OpeningSSH /\ Fetch)

------------------------------------------------------------------------------
(* Properties *)

LineKind == {"enter", "username", "password", "key", "enable", "enablePassword", "pager",
             "show"}
TokenKind == Kind \cup {"text", "stem"}
IsText(s) == \A i \in 1..Len(s) : s[i].kind \in TokenKind /\ s[i].of \in Nat

\* Every variable keeps its shape.
TypeOK ==
    /\ pc \in Matching \cup {"open", "save", "ok", "failed"}
    /\ k \in Nat /\ found \in 0..Len(Patterns)
    /\ IsText(buf) /\ IsText(wire) /\ \A i \in 1..Len(capture) : IsText(capture[i])
    /\ Len(capture) <= Len(model.commands)
    /\ dev \in {"off", "greet", "user", "pass", "key", "shell", "enablePass", "closed"}
    /\ mode \in {"dis", "ena", "none"}
    /\ \A i \in 1..Len(typed) : typed[i] \in [kind: LineKind, of: Nat]

LinesOf(s, i) == {j \in 1..Len(s) : s[j].kind = "text" /\ s[j].of = i}

\* A backup that reports success has saved, under each command, no line of another's
\* output and, if the model knows the prompt, the whole of its own, however the network
\* cut what the device said and whenever it hung up.
CaptureComplete ==
    pc = "ok" =>
        \A i \in 1..Len(model.commands) :
            /\ (model.commands[i] # "wait" /\ model.dis # {})
                  => LinesOf(capture[i], i) = 1..Lines
            /\ \A j \in 1..Len(model.commands) :
                  j # i => LinesOf(capture[i], j) = {}

\* A password reaches a device only as the answer to its question: never a command
\* line, where the device would show and log it, and never the wrong one.
SecretsOnlyWhenAsked ==
    typed # <<>> /\ dev # "closed" =>
        /\ Head(typed).kind = "password" => dev = "pass"
        /\ Head(typed).kind = "enablePassword" => dev = "enablePass"

\* The two sides take turns: fetch sends a line only when the device has read the
\* one before and all the device said has been read.
InStep ==
    [][Len(typed') > Len(typed) => typed = <<>> /\ (wire = <<>> \/ pc = "open")]_vars

\* A backup ends, whatever the device does or fails to do, unless it stays for ever in the
\* opening of an ssh session, whose handshake has no deadline.
FetchEnds == <>(pc \in {"ok", "failed"}) \/ <>[]OpeningSSH
==============================================================================
