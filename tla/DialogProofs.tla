----------------------------- MODULE DialogProofs -----------------------------
(***************************************************************************)
(* Theorems about Dialog, for every value of its constants: any device     *)
(* model, any list of transports, any number of lines in an answer, and a  *)
(* device that does what it likes.                                         *)
(***************************************************************************)
EXTENDS Dialog, SequenceTheorems, WellFoundedInduction, TLAPS

------------------------------------------------------------------------------
(* Where a dialogue starts in step: the program logs in over a transport that does  *)
(* not, or waits for the first prompt before it sends, or needs no prompt at all.   *)
(* A model that knows no prompt has one command, since its answer ends with the     *)
(* connection.                                                                      *)

WaitsFirst(m) == ~ m.enabledMode /\ ~ m.pagingOff
                 /\ (m.commands # <<>> => m.commands[1] = "wait")

StartsWell(m, transports) ==
    \/ m.login /\ \A i \in 1..Len(transports) : transports[i] # "ssh"
    \/ m.dis = {}
    \/ WaitsFirst(m)

StartsInStep == \A c \in Case : /\ StartsWell(c.model, c.transports)
                                /\ c.model.dis = {} => Len(c.model.commands) <= 1

------------------------------------------------------------------------------
(* Types *)

CaseRecord == [model: Model, transports: Seq(Transport), echo: BOOLEAN,
               asks: {"user", "pass", "none"}]
TokenSet == [kind: TokenKind, of: Nat]
Line == [kind: LineKind, of: Nat]

CaseInv ==
    /\ case \in CaseRecord
    /\ model.dis = {} => ~ (model.login \/ model.enabledMode)
    /\ case.asks = "none" <=> ~ model.login
    /\ mode \in {"dis", "ena", "none"} /\ (model.dis # {} => mode # "none")
    /\ dev \in {"off", "greet", "user", "pass", "key", "shell", "enablePass", "closed"}
    /\ dev \in {"user", "pass"} => model.login
    /\ dev \in {"key", "enablePass"} => model.dis # {}
    /\ pc = "open" => /\ dev = "off" /\ typed = <<>> /\ wire = <<>>
                      /\ buf = <<>>
                      /\ model.login => model.pass # {}
    /\ pc \in {"login", "password"} => model.pass # {}
    /\ pc = "enable" => model.dis # {}
    /\ \A i \in 1..Len(typed) : typed[i].kind = "enable" => model.dis # {}

TypeInv ==
    /\ CaseInv
    /\ pc \in Matching \cup {"open", "save", "ok", "failed"}
    /\ k \in Nat /\ found \in 0..Len(Patterns)
    /\ pc \notin Matching => found = 0
    /\ buf \in Seq(TokenSet) /\ wire \in Seq(TokenSet) /\ capture \in Seq(Seq(TokenSet))
    /\ typed \in Seq(Line)
    /\ pc = "command" => k \in 1..Len(model.commands) /\ Len(capture) = k - 1
    /\ pc \in {"save", "ok"} => Len(capture) = Len(model.commands)
    /\ pc = "failed" => Len(capture) <= Len(model.commands)
    /\ pc \notin {"command", "save", "ok", "failed"} => capture = <<>>

------------------------------------------------------------------------------
(* Turns *)

StartInv == /\ model.dis = {} => Len(model.commands) <= 1
            /\ pc = "open" => StartsWell(model, case.transports)

Prompts == model.extra + 1

\* A line is sent when the device has read the one before and all it said has been read;
\* a prompt is the last thing on the wire.
OneAtATime ==
    pc \in Matching \ {"pager"} =>
      /\ Len(typed) <= 1
      /\ typed # <<>> => wire = <<>> /\ buf = <<>>
      /\ found # 0 => typed = <<>> /\ wire = <<>>
      /\ \A i \in 1..(Len(wire) - 1) : wire[i].kind \notin Kind

\* The lines of a pager command go out at once. A line, and the prompt that answers it,
\* of two tokens, are gone when fetch has counted them.
PagerCount ==
    pc = "pager" =>
      /\ k <= model.extra + 1
      /\ 2 * Len(typed) + Len(wire) <= 2 * (model.extra + 2 - k)
      /\ found # 0 => 2 * Len(typed) + Len(wire) + 2 <= 2 * (model.extra + 2 - k)
      /\ \A i \in 1..Len(typed) : typed[i].kind = "pager"

\* An unasked prompt is waited for.
Greeting ==
    dev = "greet" /\ pc \in Matching /\ model.dis # {} =>
      pc = "command" /\ typed = <<>> /\ wire = <<>> /\ buf = <<>> /\ found = 0

TurnInv == OneAtATime /\ PagerCount /\ Greeting

------------------------------------------------------------------------------
(* Who waits for what *)

Early == {"login", "password", "post", "prompt", "enable", "enable2", "enable3"}

\* What the device waits for once its last word was of that kind.
Awaits(kind, d) == CASE kind = "user" -> d = "user"
                     [] kind = "pass" -> d \in {"pass", "enablePass"}
                     [] kind = "post" -> d = "key"
                     [] OTHER -> d = "shell"

AskedInv ==
    /\ pc \in Early =>
         /\ dev # "closed" =>
              /\ wire # <<>> /\ wire[Len(wire)].kind \in Kind
                   => Awaits(wire[Len(wire)].kind, dev)
              /\ found # 0 => \E kind \in Patterns[found] : Awaits(kind, dev)
         /\ dev \notin {"off", "greet"}
    /\ pc \in {"login", "password", "post", "prompt", "enable"} =>
         /\ dev # "enablePass"
         /\ \A i \in 1..Len(typed) : typed[i].kind \notin {"enable", "enablePassword"}
    /\ pc = "enable2" => dev \in {"shell", "enablePass", "closed"}

SecretInv ==
    /\ SecretsOnlyWhenAsked
    /\ Len(typed) <= 1 \/ \A i \in 1..Len(typed) : typed[i].kind = "pager"

------------------------------------------------------------------------------
(* Captures *)

HasNoText(s) == \A i \in 1..Len(s) : s[i].kind # "text"

Good(s, i) ==
    /\ model.commands[i] # "wait" /\ model.dis # {} => LinesOf(s, i) = 1..Lines
    /\ \A j \in 1..Len(model.commands) : j # i => LinesOf(s, j) = {}

AnswerTo(i) == IF model.dis = {} THEN {Output(i)}
               ELSE {Output(i) \o Prompt(kind) : kind \in {"dis", "ena"}}

\* What has been said and read since command k was due.
Answering ==
    \/ /\ model.commands[k] = "wait"
       /\ typed = <<>> /\ HasNoText(buf) /\ HasNoText(wire)
    \/ /\ model.commands[k] = "show"
       /\ typed = <<Token("show", k)>> /\ buf = <<>> /\ wire = <<>>
    \/ /\ model.commands[k] = "show"
       /\ typed = <<>> /\ buf \o wire \in AnswerTo(k)

\* Commands are sent to a shell, or before an unasked prompt.
CaptureInv ==
    /\ pc \in Matching => dev # "off"
    /\ pc = "pager" => dev \in {"shell", "closed"} \/ model.dis = {}
    /\ pc = "command" => dev \in {"greet", "shell", "closed"} /\ Answering
    /\ \A i \in 1..Len(capture) : Good(capture[i], i)

------------------------------------------------------------------------------
(* Sequences of tokens, and the least of a set *)

LEMMA LeastOf ==
    ASSUME NEW S \in SUBSET Nat, S # {}
    PROVE  Min(S) \in S /\ \A y \in S : Min(S) <= y
<1>1. PICK x \in S : \A y \in S : ~ (<<y, x>> \in OpToRel(<, Nat))
  BY WFMin, NatLessThanWellFounded
<1>2. ASSUME NEW y \in S PROVE x <= y
  <2>1. <<y, x>> \in OpToRel(<, Nat) <=> y < x
    BY DEF OpToRel
  <2>2. ~ (y < x) /\ x \in Nat /\ y \in Nat
    BY <1>1, <2>1
  <2> QED BY ONLY <2>2
<1> QED BY <1>2 DEF Min

LEMMA LineIs ==
    ASSUME NEW kind \in LineKind, NEW i \in Nat
    PROVE  Token(kind, i) \in Line /\ Token(kind, i).kind = kind /\ Token(kind, i).of = i
BY DEF Token, Line

LEMMA PromptIs ==
    ASSUME NEW kind \in Kind
    PROVE  /\ Prompt(kind) \in Seq(TokenSet) /\ Len(Prompt(kind)) = 2
           /\ Prompt(kind)[1].kind = "stem" /\ Prompt(kind)[2].kind = kind
BY DEF Prompt, Token, TokenSet, TokenKind

LEMMA OutputIs ==
    ASSUME NEW i \in Nat
    PROVE  /\ Output(i) \in Seq(TokenSet) /\ Len(Output(i)) = Lines
           /\ \A j \in 1..Lines : Output(i)[j] = Token("text", i)
<1>1. Token("text", i) \in TokenSet
  BY DEF Token, TokenSet, TokenKind
<1> QED BY <1>1, LinesAssumption DEF Output

\* A Read moves the head of what is on the wire to the end of the buffer.
LEMMA SplitWire ==
    ASSUME NEW S, NEW b \in Seq(S), NEW w \in Seq(S), NEW n \in 1..Len(w)
    PROVE  LET read == SubSeq(w, 1, n)
               rest == SubSeq(w, n + 1, Len(w))
           IN /\ read \in Seq(S) /\ Len(read) = n
              /\ \A i \in 1..n : read[i] = w[i]
              /\ rest \in Seq(S) /\ Len(rest) = Len(w) - n
              /\ \A i \in 1..Len(rest) : rest[i] = w[n + i]
              /\ b \o read \in Seq(S)
<1> DEFINE read == SubSeq(w, 1, n)
           rest == SubSeq(w, n + 1, Len(w))
<1>0. \A i \in 1..Len(w) : w[i] \in S
  BY ElementOfSeq
<1>1. read \in Seq(S) /\ Len(read) = n /\ \A i \in 1..n : read[i] = w[i]
  <2>1. /\ read \in Seq(S) /\ Len(read) = IF 1 <= n THEN n - 1 + 1 ELSE 0
        /\ \A i \in 1..(n - 1 + 1) : read[i] = w[1 + i - 1]
    BY <1>0, SubSeqProperties
  <2> QED BY <2>1
<1>2. /\ rest \in Seq(S) /\ Len(rest) = Len(w) - n
      /\ \A i \in 1..Len(rest) : rest[i] = w[n + i]
  <2>1. /\ rest \in Seq(S)
        /\ Len(rest) = IF n + 1 <= Len(w) THEN Len(w) - (n + 1) + 1 ELSE 0
        /\ \A i \in 1..(Len(w) - (n + 1) + 1) : rest[i] = w[n + 1 + i - 1]
    BY <1>0, SubSeqProperties
  <2> QED BY <2>1
<1>3. b \o read \in Seq(S)
  BY <1>1, ConcatProperties
<1> QED BY <1>1, <1>2, <1>3

LEMMA ReadKeeps ==
    ASSUME NEW b \in Seq(TokenSet), NEW w \in Seq(TokenSet), NEW n \in 1..Len(w)
    PROVE  (b \o SubSeq(w, 1, n)) \o SubSeq(w, n + 1, Len(w)) = b \o w
<1> DEFINE read == SubSeq(w, 1, n)
           rest == SubSeq(w, n + 1, Len(w))
<1>1. read \in Seq(TokenSet) /\ rest \in Seq(TokenSet)
  BY SplitWire
<1>2. read \o rest = SubSeq(w, 1, Len(w))
  BY ConcatAdjacentSubSeq
<1>3. SubSeq(w, 1, Len(w)) = w
  BY SubSeqFull
<1> HIDE DEF read, rest
<1>4. (b \o read) \o rest = b \o (read \o rest)
  BY ONLY <1>1, b \in Seq(TokenSet), SMTT(30)
<1>5. (b \o read) \o rest = b \o w
  BY <1>2, <1>3, <1>4
<1> QED BY <1>5 DEF read, rest

------------------------------------------------------------------------------
(* Patterns *)

LEMMA ModelIs ==
    ASSUME CaseInv
    PROVE  /\ model \in Model /\ model.commands \in Seq({"show", "wait"})
           /\ model.user \in SUBSET Kind /\ model.pass \in SUBSET {"pass"}
           /\ model.enablePass \in SUBSET {"pass"} /\ model.post \in SUBSET Kind
           /\ model.dis \in SUBSET {"dis", "ena"} /\ model.ena \in SUBSET {"dis", "ena"}
           /\ model.extra \in Nat
           /\ model.login \in BOOLEAN /\ model.enabledMode \in BOOLEAN
           /\ model.pagingOff \in BOOLEAN
BY DEF CaseInv, CaseRecord, Model, model

LEMMA PatternsAre ==
    ASSUME CaseInv
    PROVE  /\ Len(Patterns) \in 0..3
           /\ \A j \in 1..Len(Patterns) : Patterns[j] \subseteq Kind
           /\ pc = "login" => Len(Patterns) = 2 /\ Patterns[2] = model.pass
           /\ pc = "password" =>
                /\ model.pass # {} => Len(Patterns) >= 1 /\ Patterns[1] = model.pass
                /\ \A j \in 2..Len(Patterns) : Patterns[j] \subseteq {"dis", "ena"}
           /\ pc = "post" =>
                \A j \in 1..(Len(Patterns) - 1) : Patterns[j] \subseteq {"dis", "ena"}
           /\ pc = "enable2" =>
                /\ Len(Patterns) > 1 => Patterns[1] \subseteq {"pass"}
                /\ Patterns[Len(Patterns)] \subseteq {"dis", "ena"}
           /\ pc \notin {"login", "password", "post", "enable2"} =>
                \A j \in 1..Len(Patterns) : Patterns[j] \subseteq {"dis", "ena"}
<1> DEFINE m == model
<1>0. /\ m.user \in SUBSET Kind /\ m.pass \in SUBSET {"pass"}
      /\ m.enablePass \in SUBSET {"pass"} /\ m.post \in SUBSET Kind
      /\ m.dis \in SUBSET {"dis", "ena"} /\ m.ena \in SUBSET {"dis", "ena"}
  BY ModelIs
<1> HIDE DEF m
<1>1. CASE pc = "login"
  BY <1>0, <1>1 DEF Patterns, m, Kind
<1>2. CASE pc = "password"
  BY <1>0, <1>2 DEF Patterns, Given, m, Kind
<1>3. CASE pc = "post"
  BY <1>0, <1>3 DEF Patterns, Given, m, Kind
<1>4. CASE pc = "enable2"
  BY <1>0, <1>4 DEF Patterns, Given, m, Kind
<1>5. CASE pc = "enable3"
  BY <1>0, <1>5 DEF Patterns, m, Kind
<1>6. CASE pc \notin {"login", "password", "post", "enable2", "enable3"}
  <2>1. Patterns = <<m.dis>> \o Given(m.ena)
    BY <1>6 DEF Patterns, CommandPrompt, m
  <2>2. Given(m.ena) = <<>> \/ Given(m.ena) = <<m.ena>>
    BY DEF Given
  <2>3. /\ Len(Patterns) \in 1..2 /\ Patterns[1] = m.dis
        /\ Len(Patterns) = 2 => Patterns[2] = m.ena
    <3> DEFINE d == m.dis
               e == m.ena
               sets == SUBSET {"dis", "ena"}
    <3>1. /\ Patterns = <<d>> \o <<>> \/ Patterns = <<d>> \o <<e>>
          /\ d \in sets /\ e \in sets
      BY <1>0, <2>1, <2>2
    <3> HIDE DEF d, e, sets
    <3>2. <<d>> \in Seq(sets) /\ <<e>> \in Seq(sets) /\ <<>> \in Seq(sets)
      BY <3>1
    <3>3. /\ Len(<<d>> \o <<>>) = 1 /\ (<<d>> \o <<>>)[1] = d
          /\ Len(<<d>> \o <<e>>) = 2 /\ (<<d>> \o <<e>>)[1] = d /\ (<<d>> \o <<e>>)[2] = e
      BY ONLY <3>2
    <3>4. Len(Patterns) \in 1..2 /\ Patterns[1] = d /\ (Len(Patterns) = 2 => Patterns[2] = e)
      <4>1. CASE Patterns = <<d>> \o <<>>
        BY <3>3, <4>1
      <4>2. CASE Patterns = <<d>> \o <<e>>
        BY <3>3, <4>2
      <4> QED BY <3>1, <4>1, <4>2
    <3> QED BY <3>4 DEF d, e
  <2>4. \A j \in 1..Len(Patterns) : Patterns[j] \subseteq {"dis", "ena"}
    BY <1>0, <2>3
  <2> QED BY <1>6, <2>3, <2>4 DEF Kind
<1> QED BY <1>1, <1>2, <1>3, <1>4, <1>5, <1>6
------------------------------------------------------------------------------
(* Where fetch goes on *)

\* What every next step of fetch, with prompt or command number n, has in common.
NextIs(next, n) ==
    /\ next.pc \in Matching \cup {"save"} /\ next.say \in Seq(Line)
    /\ next.pc # "open"
    /\ next.pc \in {"login", "password"} => model.pass # {}
    /\ next.pc = "enable" => model.dis # {}
    /\ \A i \in 1..Len(next.say) : next.say[i].kind = "enable" => model.dis # {}
    /\ next.pc = "pager" => /\ Len(next.say) = Prompts
                            /\ \A i \in 1..Prompts : next.say[i].kind = "pager"
    /\ next.pc # "pager" => Len(next.say) <= 1
    /\ next.pc = "command" => n \in 1..Len(model.commands)
    /\ next.pc = "save" => n > Len(model.commands)

LEMMA NextRecord ==
    ASSUME NEW at \in Matching \cup {"save"}, NEW lines \in Seq(Line), NEW n,
           at = "command" => n \in 1..Len(model.commands),
           at = "save" => n > Len(model.commands),
           at \in {"login", "password"} => model.pass # {},
           at = "enable" => model.dis # {},
           \A i \in 1..Len(lines) : lines[i].kind = "enable" => model.dis # {},
           at = "pager" => /\ Len(lines) = Prompts
                           /\ \A i \in 1..Prompts : lines[i].kind = "pager",
           at # "pager" => Len(lines) <= 1
    PROVE  NextIs([pc |-> at, say |-> lines], n)
<1> DEFINE next == [pc |-> at, say |-> lines]
<1>1. next.pc = at /\ next.say = lines
  OBVIOUS
<1> HIDE DEF next
<1>2. NextIs(next, n)
  BY <1>1 DEF NextIs, Matching
<1> QED BY <1>2 DEF next

\* Without a line, or with one.
NextSilent(at, n) == NextIs([pc |-> at, say |-> <<>>], n)
NextSays(at, line, n) == NextIs([pc |-> at, say |-> <<line>>], n)

LEMMA NextSimple ==
    ASSUME NEW at \in (Matching \ {"pager"}) \cup {"save"}, NEW line \in Line, NEW n,
           at = "command" => n \in 1..Len(model.commands),
           at = "save" => n > Len(model.commands),
           at \in {"login", "password"} => model.pass # {},
           at = "enable" \/ line.kind = "enable" => model.dis # {}
    PROVE  NextSilent(at, n) /\ NextSays(at, line, n)
<1>1. /\ <<line>> \in Seq(Line) /\ Len(<<line>>) = 1 /\ <<line>>[1] = line
      /\ <<>> \in Seq(Line) /\ Len(<<>>) = 0
  OBVIOUS
<1>0. at \in Matching \cup {"save"} /\ at # "pager"
  OBVIOUS
<1>2. NextIs([pc |-> at, say |-> <<>>], n)
  <2> DEFINE lines == <<>>
  <2>1. /\ lines \in Seq(Line) /\ Len(lines) <= 1
        /\ \A i \in 1..Len(lines) : lines[i].kind = "enable" => model.dis # {}
    BY <1>1
  <2> HIDE DEF lines
  <2>2. NextIs([pc |-> at, say |-> lines], n)
    BY <1>0, <2>1, NextRecord
  <2> QED BY <2>2 DEF lines
<1>3. NextIs([pc |-> at, say |-> <<line>>], n)
  <2> DEFINE lines == <<line>>
  <2>1. /\ lines \in Seq(Line) /\ Len(lines) <= 1
        /\ \A i \in 1..Len(lines) : lines[i].kind = "enable" => model.dis # {}
    BY <1>1
  <2> HIDE DEF lines
  <2>2. NextIs([pc |-> at, say |-> lines], n)
    BY <1>0, <2>1, NextRecord
  <2> QED BY <2>2 DEF lines
<1> QED BY <1>2, <1>3 DEF NextSilent, NextSays

LEMMA CommandsAre ==
    ASSUME CaseInv, NEW i \in Nat \ {0}
    PROVE  /\ NextIs(Commands(i), i)
           /\ \/ i > Len(model.commands) /\ Commands(i) = [pc |-> "save", say |-> <<>>]
              \/ /\ i \in 1..Len(model.commands) /\ model.commands[i] = "wait"
                 /\ Commands(i) = [pc |-> "command", say |-> <<>>]
              \/ /\ i \in 1..Len(model.commands) /\ model.commands[i] = "show"
                 /\ Commands(i) = [pc |-> "command", say |-> <<Token("show", i)>>]
<1> DEFINE c == model.commands
<1>1. c \in Seq({"show", "wait"})
  BY ModelIs
<1>2. \/ i > Len(c)
      \/ i \in 1..Len(c) /\ c[i] \in {"show", "wait"}
  <2>1. Len(c) \in Nat /\ \A j \in 1..Len(c) : c[j] \in {"show", "wait"}
    BY <1>1, ElementOfSeq
  <2> QED BY ONLY <2>1, i \in Nat \ {0}
<1>3. \/ i > Len(c) /\ Commands(i) = [pc |-> "save", say |-> <<>>]
      \/ /\ i \in 1..Len(c) /\ c[i] = "wait"
         /\ Commands(i) = [pc |-> "command", say |-> <<>>]
      \/ /\ i \in 1..Len(c) /\ c[i] = "show"
         /\ Commands(i) = [pc |-> "command", say |-> <<Token("show", i)>>]
  BY <1>1, <1>2 DEF Commands
<1> HIDE DEF c
<1>4. /\ i > Len(c) => NextSilent("save", i)
      /\ i \in 1..Len(c) => NextSilent("command", i) /\ NextSays("command", Token("show", i), i)
  <2>1. Token("show", i) \in Line /\ Token("show", i).kind # "enable"
    BY LineIs DEF LineKind
  <2>2. i > Len(c) => NextSilent("save", i)
    BY <2>1, NextSimple DEF c
  <2>3. i \in 1..Len(c) => NextSilent("command", i) /\ NextSays("command", Token("show", i), i)
    BY <2>1, NextSimple DEF Matching, c
  <2> QED BY <2>2, <2>3
<1>5. NextIs(Commands(i), i)
  BY ONLY <1>3, <1>4 DEF NextSilent, NextSays
<1> QED BY <1>3, <1>5 DEF c

LEMMA PagingOffIs ==
    ASSUME CaseInv
    PROVE  /\ NextIs(PagingOff, 1)
           /\ \/ model.pagingOff /\ PagingOff.pc = "pager"
              \/ ~ model.pagingOff /\ PagingOff = Commands(1)
<1>1. CASE model.pagingOff
  <2> DEFINE lines == [i \in 1..(model.extra + 1) |-> Token("pager", 0)]
  <2>1. model.extra \in Nat
    BY ModelIs
  <2>2. lines \in Seq(Line) /\ Len(lines) = Prompts
    <3>1. Prompts \in Nat /\ lines = [i \in 1..Prompts |-> Token("pager", 0)] /\ Token("pager", 0) \in Line
      BY <2>1, LineIs DEF Prompts, LineKind
    <3>2. /\ [i \in 1..Prompts |-> Token("pager", 0)] \in Seq(Line)
          /\ Len([i \in 1..Prompts |-> Token("pager", 0)]) = Prompts
      BY ONLY <3>1
    <3> QED BY ONLY <3>1, <3>2
  <2>3. \A i \in 1..Prompts : lines[i].kind = "pager"
    BY DEF Prompts, Token
  <2>4. PagingOff = [pc |-> "pager", say |-> lines]
    BY <1>1 DEF PagingOff
  <2> HIDE DEF lines
  <2>5. NextIs([pc |-> "pager", say |-> lines], 1)
    BY <2>2, <2>3, NextRecord DEF Matching
  <2> QED BY ONLY <1>1, <2>4, <2>5
<1>2. CASE ~ model.pagingOff
  <2>1. PagingOff = Commands(1) /\ 1 \in Nat \ {0}
    BY <1>2 DEF PagingOff
  <2>2. NextIs(Commands(1), 1)
    BY CommandsAre
  <2> QED BY ONLY <1>2, <2>1, <2>2
<1> QED BY <1>1, <1>2

LEMMA EnableIs ==
    ASSUME CaseInv, NEW enabled \in BOOLEAN
    PROVE  /\ NextIs(Enable(enabled), 1)
           /\ \/ /\ model.enabledMode /\ ~ enabled
                 /\ Enable(enabled) = [pc |-> "enable", say |-> Word("enter")]
              \/ /\ ~ model.enabledMode \/ enabled
                 /\ Enable(enabled) = PagingOff
<1>1. CASE model.enabledMode /\ ~ enabled
  <2>1. Enable(enabled) = [pc |-> "enable", say |-> Word("enter")]
    BY <1>1 DEF Enable
  <2>2. model.dis # {}
    BY <1>1 DEF CaseInv
  <2>3. NextSays("enable", Token("enter", 0), 1)
    <3>1. Token("enter", 0) \in Line
      BY LineIs DEF LineKind
    <3> QED BY <2>2, <3>1, NextSimple DEF Matching
  <2> QED BY ONLY <1>1, <2>1, <2>3 DEF NextSays, Word
<1>2. CASE ~ (model.enabledMode /\ ~ enabled)
  BY <1>2, PagingOffIs DEF Enable
<1> QED BY <1>1, <1>2

LEMMA LoginIs ==
    ASSUME CaseInv, NEW logged \in BOOLEAN, model.login => model.pass # {}
    PROVE  /\ NextIs(Login(logged), 1)
           /\ \/ /\ model.login /\ ~ logged
                 /\ Login(logged) = [pc |-> "login", say |-> <<>>]
              \/ /\ ~ model.login \/ logged
                 /\ Login(logged) = Enable(FALSE)
<1>1. CASE model.login /\ ~ logged
  <2>1. Login(logged) = [pc |-> "login", say |-> <<>>]
    BY <1>1 DEF Login
  <2>2. NextSilent("login", 1)
    <3>1. Token("enter", 0) \in Line /\ Token("enter", 0).kind # "enable"
      BY LineIs DEF LineKind
    <3> QED BY <1>1, <3>1, NextSimple DEF Matching
  <2> QED BY ONLY <1>1, <2>1, <2>2 DEF NextSilent
<1>2. CASE ~ (model.login /\ ~ logged)
  BY <1>2, EnableIs DEF Login
<1> QED BY <1>1, <1>2

------------------------------------------------------------------------------
(* The types are kept *)

LEMMA PatternsCount == Len(Patterns) \in 0..3 /\ Len(Patterns)' \in 0..3
<1>1. Len(Patterns) \in 0..3
  BY DEF Patterns, Given, CommandPrompt
<1>2. Len(Patterns)' \in 0..3
  BY DEF Patterns, Given, CommandPrompt
<1> QED BY <1>1, <1>2

\* What match() returns is the index of a pattern that the text of one Read matches.
LEMMA MatchIs ==
    ASSUME NEW read \in Seq(TokenSet)
    PROVE  /\ Match(read) \in 0..Len(Patterns)
           /\ Match(read) # 0 =>
                \E i \in 2..Len(read) : read[i].kind \in Patterns[Match(read)]
<1> DEFINE hits == {i \in 1..Len(read) :
                      \E j \in 1..Len(Patterns) : Hit(read, i, Patterns[j])}
           first == Min(hits)
           which == {j \in 1..Len(Patterns) : Hit(read, first, Patterns[j])}
<1>1. CASE hits = {} \/ Patterns[1] = {}
  BY <1>1, PatternsCount DEF Match
<1>2. CASE ~ (hits = {} \/ Patterns[1] = {})
  <2>1. hits \in SUBSET Nat /\ hits # {}
    BY <1>2
  <2> HIDE DEF hits
  <2>2. first \in hits
    BY <2>1, LeastOf
  <2> USE DEF hits
  <2>3. which \in SUBSET Nat /\ which # {}
    BY <2>2, PatternsCount
  <2> HIDE DEF hits, which
  <2>4. Min(which) \in which
    BY <2>3, LeastOf
  <2>5. Match(read) = Min(which)
    BY <1>2 DEF Match, hits, which
  <2>6. /\ Min(which) \in 1..Len(Patterns) /\ Hit(read, first, Patterns[Min(which)])
        /\ first \in 1..Len(read)
    BY <2>2, <2>4 DEF which, hits
  <2>7. first > 1 /\ read[first].kind \in Patterns[Min(which)]
    BY <2>6 DEF Hit
  <2>8. first \in 2..Len(read)
    BY ONLY <2>6, <2>7
  <2> QED BY <2>5, <2>6, <2>7, <2>8
<1> QED BY <1>1, <1>2

\* fetch goes on: the captures are those of the commands done.
LEMMA GotoType ==
    ASSUME TypeInv, NEW next, NEW n \in Nat, NextIs(next, n), Goto(next, n),
           UNCHANGED <<case, devVars>>, pc # "open",
           capture' \in Seq(Seq(TokenSet)),
           next.pc \in {"command", "save"} =>
             Len(capture') = n - 1 /\ n - 1 <= Len(model.commands),
           next.pc \notin {"command", "save"} => capture' = <<>>
    PROVE  TypeInv'
<1>1. /\ pc' = next.pc /\ k' = n /\ typed' = typed \o next.say /\ found' = 0 /\ buf' = <<>>
      /\ model' = model
  BY DEF Goto, model
<1>2. typed' \in Seq(Line)
      /\ \A i \in 1..Len(typed') : typed'[i].kind = "enable" => model.dis # {}
  <2>1. /\ typed \in Seq(Line) /\ next.say \in Seq(Line)
        /\ \A i \in 1..Len(typed) : typed[i].kind = "enable" => model.dis # {}
        /\ \A i \in 1..Len(next.say) : next.say[i].kind = "enable" => model.dis # {}
    BY DEF TypeInv, CaseInv, NextIs
  <2>2. /\ typed \o next.say \in Seq(Line)
        /\ Len(typed \o next.say) = Len(typed) + Len(next.say)
        /\ \A i \in 1..(Len(typed) + Len(next.say)) : (typed \o next.say)[i] =
             IF i <= Len(typed) THEN typed[i] ELSE next.say[i - Len(typed)]
    BY <2>1, ConcatProperties
  <2>3. Len(typed) \in Nat /\ Len(next.say) \in Nat
    BY <2>1
  <2>4. ASSUME NEW i \in 1..(Len(typed) + Len(next.say)),
               (typed \o next.say)[i].kind = "enable"
        PROVE  model.dis # {}
    BY ONLY <2>1, <2>2, <2>3, <2>4
  <2> QED BY <1>1, <2>2, <2>4
<1>3. CaseInv'
  BY <1>1, <1>2 DEF TypeInv, CaseInv, NextIs, devVars, model
<1>4. /\ pc' \in Matching \cup {"save"} /\ pc' \notin {"open", "ok", "failed"}
      /\ pc' = "save" => n > Len(model.commands)
      /\ pc' = "command" => n \in 1..Len(model.commands)
  BY <1>1 DEF NextIs, Matching
<1>5. Len(model.commands) \in Nat
  <2>1. model.commands \in Seq({"show", "wait"})
    BY ModelIs DEF TypeInv
  <2> QED BY <2>1
<1>6. wire' \in Seq(TokenSet) /\ buf' \in Seq(TokenSet)
  BY <1>1 DEF TypeInv, devVars
<1>7. k' \in Nat /\ found' \in 0..Len(Patterns')
  BY <1>1, PatternsCount
<1>8. /\ pc' = "command" => k' \in 1..Len(model'.commands) /\ Len(capture') = k' - 1
      /\ pc' = "save" => Len(capture') = Len(model'.commands)
      /\ pc' \notin {"command", "save"} => capture' = <<>>
  <2>1. pc' \in {"command", "save"} => Len(capture') = n - 1 /\ n - 1 <= Len(model.commands)
    BY <1>1
  <2>2. n > Len(model.commands) /\ n - 1 <= Len(model.commands) => n - 1 = Len(model.commands)
    BY ONLY <1>5, n \in Nat
  <2> QED BY <1>1, <1>4, <2>1, <2>2
<1> QED BY <1>1, <1>2, <1>3, <1>4, <1>6, <1>7, <1>8 DEF TypeInv

\* The device has read a line and said something, perhaps nothing.
LEMMA HearsType ==
    ASSUME TypeInv, typed # <<>>, typed' = Tail(typed),
           UNCHANGED <<pc, k, found, buf, capture>>,
           NEW tokens \in Seq(TokenSet), wire' = wire \o tokens,
           case' \in CaseRecord, model' = model, case'.asks = case.asks,
           dev' \in {"user", "pass", "key", "shell", "enablePass", "closed"},
           dev' \in {"user", "pass"} => model.login,
           dev' \in {"key", "enablePass"} => model.dis # {},
           mode' \in {"dis", "ena", "none"}, model.dis # {} => mode' # "none"
    PROVE  TypeInv'
<1>1. typed \in Seq(Line) /\ wire \in Seq(TokenSet)
  BY DEF TypeInv
<1>2. /\ Tail(typed) \in Seq(Line) /\ Len(Tail(typed)) = Len(typed) - 1
      /\ \A i \in 1..Len(Tail(typed)) : Tail(typed)[i] = typed[i + 1]
  BY <1>1, HeadTailProperties
<1>3. wire' \in Seq(TokenSet)
  BY <1>1, ConcatProperties
<1>4. \A i \in 1..Len(typed') : typed'[i].kind = "enable" => model.dis # {}
  <2>1. Len(typed) \in Nat /\ \A i \in 1..Len(typed) : typed[i].kind = "enable" => model.dis # {}
    BY <1>1 DEF TypeInv, CaseInv
  <2>2. ASSUME NEW i \in 1..(Len(typed) - 1), Tail(typed)[i].kind = "enable"
        PROVE  model.dis # {}
    <3>1. i + 1 \in 1..Len(typed) /\ Tail(typed)[i] = typed[i + 1]
      BY <1>2, <2>1
    <3> QED BY <2>1, <2>2, <3>1
  <2> QED BY <1>2, <2>2
<1>5. pc # "open"
  BY DEF TypeInv, CaseInv
<1>6. CaseInv'
  BY <1>4, <1>5 DEF TypeInv, CaseInv, model
<1>7. found' \in 0..Len(Patterns')
  BY DEF TypeInv, Patterns, CommandPrompt
<1> QED BY <1>2, <1>3, <1>6, <1>7 DEF TypeInv

LEMMA TypeDevice ==
    ASSUME TypeInv, TheDevice
    PROVE  TypeInv'
<1>0. /\ CaseInv /\ model \in Model /\ case \in CaseRecord
      /\ mode \in {"dis", "ena", "none"} /\ (model.dis # {} => mode \in {"dis", "ena"})
      /\ model.login => model.dis # {}
      /\ wire \in Seq(TokenSet) /\ typed \in Seq(Line)
      /\ typed # <<>> => pc # "open"
  BY ModelIs DEF TypeInv, CaseInv
<1>1. \A kind \in Kind : Prompt(kind) \in Seq(TokenSet)
  BY PromptIs
<1>2. "dis" \in Kind /\ "ena" \in Kind /\ "user" \in Kind /\ "pass" \in Kind /\ "post" \in Kind
  BY DEF Kind
<1>3. CASE DeviceGreets
  <2>1. /\ dev = "greet" /\ dev' = "shell" /\ UNCHANGED <<progVars, mode, typed>>
        /\ \/ wire' = wire
           \/ model.dis # {} /\ wire' = wire \o Prompt(mode)
    BY <1>3 DEF DeviceGreets, CommandLine, Says
  <2>2. wire' \in Seq(TokenSet)
    <3>1. CASE wire' = wire
      BY <1>0, <3>1
    <3>2. CASE model.dis # {} /\ wire' = wire \o Prompt(mode)
      <4>1. Prompt(mode) \in Seq(TokenSet)
        BY <1>0, <1>1, <1>2, <3>2
      <4> QED BY ONLY <1>0, <3>2, <4>1
    <3> QED BY <2>1, <3>1, <3>2
  <2> QED BY <1>0, <2>1, <2>2 DEF TypeInv, CaseInv, progVars, model, Patterns, CommandPrompt
<1>4. CASE DeviceAsks
  <2>1. /\ typed # <<>> /\ typed' = Tail(typed) /\ dev = "user"
        /\ UNCHANGED <<pc, k, found, buf, capture, case, mode>>
        /\ \/ dev' = "pass" /\ wire' = wire \o Prompt("pass")
           \/ dev' = "shell" /\ wire' = wire \o Prompt(mode)
    BY <1>4 DEF DeviceAsks, DeviceHears, CommandLine, Says
  <2>2. model.login
    BY <1>0, <2>1 DEF CaseInv
  <2> QED BY <1>0, <1>1, <1>2, <2>1, <2>2, HearsType DEF model
<1>5. CASE DeviceChecks
  <2>1. /\ typed # <<>> /\ typed' = Tail(typed) /\ dev = "pass"
        /\ UNCHANGED <<pc, k, found, buf, capture, case, mode>>
        /\ \/ dev' = case.asks /\ wire' = wire \o Prompt(case.asks)
           \/ dev' = "shell" /\ wire' = wire \o Prompt(mode)
           \/ dev' = "key" /\ wire' = wire \o Prompt("post")
    BY <1>5 DEF DeviceChecks, DeviceHears, CommandLine, Says
  <2>2. model.login /\ case.asks \in {"user", "pass"}
    BY <1>0, <2>1 DEF CaseInv, CaseRecord
  <2> QED BY <1>0, <1>1, <1>2, <2>1, <2>2, HearsType DEF model
<1>6. CASE DeviceKey
  <2>1. /\ typed # <<>> /\ typed' = Tail(typed) /\ dev = "key"
        /\ UNCHANGED <<pc, k, found, buf, capture, case, mode>>
        /\ dev' = "shell" /\ wire' = wire \o Prompt(mode)
    BY <1>6 DEF DeviceKey, DeviceHears, CommandLine, Says
  <2>2. model.dis # {}
    BY <1>0, <2>1 DEF CaseInv
  <2> QED BY <1>0, <1>1, <1>2, <2>1, <2>2, HearsType DEF model
<1>7. CASE DeviceEnables
  <2>1. /\ typed # <<>> /\ typed' = Tail(typed) /\ dev = "shell" /\ Head(typed).kind = "enable"
        /\ UNCHANGED <<pc, k, found, buf, capture, case>>
        /\ \/ dev' = "enablePass" /\ wire' = wire \o Prompt("pass") /\ mode' = mode
           \/ dev' = "shell" /\ wire' = wire \o Prompt("ena") /\ mode' = "ena"
    BY <1>7 DEF DeviceEnables, DeviceHears, Says
  <2>2. typed[1].kind = "enable" /\ 1 \in 1..Len(typed)
    BY <1>0, <2>1
  <2>3. model.dis # {}
    BY <1>0, <2>2 DEF CaseInv
  <2> QED BY <1>0, <1>1, <1>2, <2>1, <2>3, HearsType DEF model
<1>8. CASE DeviceChecksEnable
  <2>1. /\ typed # <<>> /\ typed' = Tail(typed) /\ dev = "enablePass"
        /\ UNCHANGED <<pc, k, found, buf, capture, case>> /\ dev' = "shell"
        /\ \/ wire' = wire \o Prompt(mode) /\ mode' = mode
           \/ wire' = wire \o Prompt("ena") /\ mode' = "ena"
    BY <1>8 DEF DeviceChecksEnable, DeviceHears, CommandLine, Says
  <2>2. model.dis # {}
    BY <1>0, <2>1 DEF CaseInv
  <2> QED BY <1>0, <1>1, <1>2, <2>1, <2>2, HearsType DEF model
<1>9. CASE DeviceAnswers
  <2> DEFINE out == IF Head(typed).kind = "show" THEN Output(Head(typed).of) ELSE <<>>
  <2>1. /\ typed # <<>> /\ typed' = Tail(typed) /\ dev = "shell"
        /\ UNCHANGED <<pc, k, found, buf, capture, case, mode>>
        /\ \/ model.dis = {} /\ dev' = "closed" /\ wire' = wire \o out
           \/ model.dis # {} /\ dev' = "shell" /\ wire' = wire \o (out \o Prompt(mode))
    BY <1>9 DEF DeviceAnswers, DeviceHears, Says
  <2>2. Head(typed).of \in Nat
    <3>1. Head(typed) \in Line
      BY <1>0, <2>1, HeadTailProperties
    <3> QED BY <3>1 DEF Line
  <2>3. out \in Seq(TokenSet)
    BY <2>2, OutputIs
  <2> HIDE DEF out
  <2>5. model.dis # {} => out \o Prompt(mode) \in Seq(TokenSet)
    BY <1>0, <1>1, <1>2, <2>3, ConcatProperties
  <2> QED BY <1>0, <2>1, <2>3, <2>5, HearsType DEF model
<1>10. CASE DeviceHangsUp
  BY <1>0, <1>10 DEF DeviceHangsUp, TypeInv, CaseInv, progVars, model, Patterns, CommandPrompt
<1> QED BY <1>3, <1>4, <1>5, <1>6, <1>7, <1>8, <1>9, <1>10 DEF TheDevice
\* A line sent while logging in or enabling.
LEMMA WordIs ==
    ASSUME NEW at \in {"password", "prompt", "post", "enable2", "enable3"}, NEW n,
           NEW kind \in LineKind, kind = "enable" => model.dis # {},
           at = "password" => model.pass # {}
    PROVE  NextIs([pc |-> at, say |-> Word(kind)], n)
<1>1. Token(kind, 0) \in Line /\ Token(kind, 0).kind = kind
  BY LineIs
<1>2. NextSays(at, Token(kind, 0), n)
  BY <1>1, NextSimple DEF Matching
<1> QED BY <1>2 DEF NextSays, Word

\* fetch gives up.
LEMMA FailType ==
    ASSUME TypeInv, pc # "ok", pc # "failed", pc' = "failed", found = 0,
           UNCHANGED <<case, k, found, buf, capture, devVars, typed>>
    PROVE  TypeInv'
<1>1. Len(model.commands) \in Nat
  <2>1. model.commands \in Seq({"show", "wait"})
    BY ModelIs DEF TypeInv
  <2> QED BY <2>1
<1>2. Len(capture) <= Len(model.commands)
  BY <1>1 DEF TypeInv
<1>3. CaseInv'
  BY DEF TypeInv, CaseInv, devVars, model
<1>4. found' \in 0..Len(Patterns')
  BY PatternsCount
<1>5. /\ pc' = "failed" /\ UNCHANGED <<k, found, buf, capture, wire, typed>> /\ model' = model
  BY DEF devVars, model
<1> QED BY <1>2, <1>3, <1>4, <1>5 DEF TypeInv

\* Before the commands nothing is captured, and the first of them comes next.
LEMMA EarlyType ==
    ASSUME TypeInv, pc \in Matching \ {"command"}, NEW next, NEW n \in Nat,
           NextIs(next, n), Goto(next, n), UNCHANGED <<case, capture, devVars>>,
           next.pc \in {"command", "save"} => n = 1
    PROVE  TypeInv'
<1>1. capture = <<>> /\ capture' = capture /\ pc # "open" /\ Len(<<>>) = 0
  BY DEF TypeInv, Matching
<1>2. Len(model.commands) \in Nat
  <2>1. model.commands \in Seq({"show", "wait"})
    BY ModelIs DEF TypeInv
  <2> QED BY <2>1
<1>3. <<>> \in Seq(Seq(TokenSet))
  OBVIOUS
<1>4. UNCHANGED <<case, devVars>>
  OBVIOUS
<1>5. next.pc \in {"command", "save"} =>
        Len(capture') = n - 1 /\ n - 1 <= Len(model.commands)
  BY <1>1, <1>2
<1> QED BY <1>1, <1>3, <1>4, <1>5, GotoType

\* What comes once a command prompt has been seen.
AtPrompt(next) == \/ next = [pc |-> "enable", say |-> Word("enter")]
                  \/ next.pc = "pager"
                  \/ next = Commands(1)

LEMMA EnableSteps ==
    ASSUME CaseInv, NEW e \in BOOLEAN
    PROVE  /\ NextIs(Enable(e), 1) /\ NextIs(PagingOff, 1) /\ NextIs(Commands(1), 1)
           /\ AtPrompt(Enable(e)) /\ AtPrompt(PagingOff)
<1>1. NextIs(Commands(1), 1) /\ NextIs(PagingOff, 1) /\ NextIs(Enable(e), 1)
  BY EnableIs, PagingOffIs, CommandsAre
<1>2. AtPrompt(PagingOff)
  BY PagingOffIs DEF AtPrompt
<1>3. AtPrompt(Enable(e))
  BY <1>2, EnableIs DEF AtPrompt
<1> QED BY <1>1, <1>2, <1>3

\* The steps of login and enable: what has matched, and what comes next.
EarlyStep == \/ SendUsername \/ NoPassword \/ SendPassword \/ PostLogin \/ LoggedIn
             \/ SendEnable \/ SendEnablePassword \/ Enabled

SawPrompt == Patterns[found] \subseteq {"dis", "ena"}

Turn(next) ==
    \/ pc = "login" /\ next = [pc |-> "password", say |-> Word("username")]
    \/ /\ pc \in {"login", "password"} /\ Patterns[found] = model.pass
       /\ next.pc \in {"prompt", "post"} /\ next.say = Word("password")
    \/ pc = "post" /\ next = [pc |-> "prompt", say |-> Word("key")]
    \/ SawPrompt /\ AtPrompt(next)
    \/ /\ pc = "enable" /\ SawPrompt
       /\ next = [pc |-> "enable2", say |-> Word("enable")]
    \/ /\ pc = "enable2" /\ Patterns[found] \subseteq {"pass"}
       /\ next = [pc |-> "enable3", say |-> Word("enablePassword")]

LEMMA EarlyGoes ==
    ASSUME TypeInv, EarlyStep
    PROVE  \E next, n : /\ n \in Nat /\ NextIs(next, n) /\ Goto(next, n)
                        /\ next.pc \in {"pager", "command", "save"} => n = 1
                        /\ UNCHANGED <<case, capture, devVars>>
                        /\ pc \in Early /\ found \in 1..Len(Patterns)
                        /\ Turn(next)
<1>0. /\ CaseInv /\ k \in Nat /\ found \in 0..Len(Patterns) /\ Len(Patterns) \in 0..3
      /\ 1 \in Nat
  BY PatternsCount DEF TypeInv
<1>1. /\ \A e \in BOOLEAN : NextIs(Enable(e), 1) /\ AtPrompt(Enable(e))
      /\ NextIs(PagingOff, 1) /\ AtPrompt(PagingOff)
  BY <1>0, EnableSteps
<1>2. ASSUME NEW next, NEW n \in Nat, NextIs(next, n), Goto(next, n), Turn(next),
             next.pc \in {"pager", "command", "save"} => n = 1,
             UNCHANGED <<case, capture, devVars>>, pc \in Early, found > 0
      PROVE  \E next_1, n_1 : 
               /\ n_1 \in Nat /\ NextIs(next_1, n_1) /\ Goto(next_1, n_1)
               /\ next_1.pc \in {"pager", "command", "save"} => n_1 = 1
               /\ UNCHANGED <<case, capture, devVars>>
               /\ pc \in Early /\ found \in 1..Len(Patterns)
               /\ Turn(next_1)
  <2>1. found \in 1..Len(Patterns)
    BY <1>0, <1>2
  <2> QED BY ONLY <1>2, <2>1
<1>11. CASE SendUsername
  <2> DEFINE next == [pc |-> "password", say |-> Word("username")]
  <2>1. /\ pc = "login" /\ found > 0 /\ Goto(next, k)
        /\ UNCHANGED <<case, capture, devVars>>
    BY <1>11 DEF SendUsername
  <2>2. NextIs(next, k)
    BY <1>0, <2>1, WordIs DEF LineKind, CaseInv
  <2>3. next.pc = "password" /\ Turn(next)
    BY <2>1 DEF Turn
  <2> HIDE DEF next
  <2> QED BY <1>0, <1>2, <2>1, <2>2, <2>3 DEF Early
<1>12. CASE NoPassword
  <2> DEFINE next == Enable(model.ena # {} /\ found = 2)
  <2>1. /\ pc = "password" /\ found > 1 /\ Goto(next, 1)
        /\ UNCHANGED <<case, capture, devVars>>
    BY <1>12 DEF NoPassword
  <2>2. NextIs(next, 1) /\ AtPrompt(next)
    BY <1>1
  <2>3. SawPrompt
    BY <1>0, <2>1, PatternsAre DEF SawPrompt
  <2>4. Turn(next) /\ found > 0
    BY <1>0, <2>1, <2>2, <2>3 DEF Turn
  <2> HIDE DEF next
  <2> QED BY <1>0, <1>2, <2>1, <2>2, <2>4 DEF Early
<1>13. CASE SendPassword
  <2> DEFINE at == IF model.post = {} THEN "prompt" ELSE "post"
             next == [pc |-> at, say |-> Word("password")]
  <2>1. /\ <<pc, found>> \in {<<"login", 2>>, <<"password", 1>>} /\ Goto(next, k)
        /\ UNCHANGED <<case, capture, devVars>>
    BY <1>13 DEF SendPassword
  <2>2. at \in {"prompt", "post"} /\ next.pc = at /\ next.say = Word("password")
    OBVIOUS
  <2> HIDE DEF at
  <2>3. NextIs(next, k)
    BY <2>2, WordIs DEF LineKind
  <2>4. pc \in {"login", "password"} /\ found > 0 /\ Patterns[found] = model.pass
    BY <1>0, <2>1, PatternsAre DEF CaseInv
  <2> HIDE DEF next
  <2>5. Turn(next)
    BY <2>2, <2>4 DEF Turn
  <2> QED BY <1>0, <1>2, <2>1, <2>2, <2>3, <2>4, <2>5 DEF Early
<1>14. CASE PostLogin
  <2>1. pc = "post" /\ found > 0 /\ UNCHANGED <<case, capture, devVars>>
    BY <1>14 DEF PostLogin
  <2>2. CASE Goto([pc |-> "prompt", say |-> Word("key")], k)
    <3> DEFINE next == [pc |-> "prompt", say |-> Word("key")]
    <3>1. NextIs(next, k)
      BY WordIs DEF LineKind
    <3>2. next.pc = "prompt" /\ Goto(next, k) /\ Turn(next)
      BY <2>1, <2>2 DEF Turn
    <3> HIDE DEF next
    <3> QED BY <1>0, <1>2, <2>1, <3>1, <3>2 DEF Early
  <2>3. CASE found # Len(Patterns) /\ Goto(Enable(model.ena # {} /\ found = 2), 1)
    <3> DEFINE next == Enable(model.ena # {} /\ found = 2)
    <3>1. NextIs(next, 1) /\ Goto(next, 1) /\ AtPrompt(next)
      BY <1>1, <2>3
    <3>2. SawPrompt
      BY <1>0, <2>1, <2>3, PatternsAre DEF SawPrompt
    <3>3. Turn(next)
      BY <3>1, <3>2 DEF Turn
    <3> HIDE DEF next
    <3> QED BY <1>0, <1>2, <2>1, <3>1, <3>3 DEF Early
  <2> QED BY <1>14, <2>2, <2>3 DEF PostLogin
<1>15. CASE LoggedIn
  <2> DEFINE next == Enable(found = 2)
  <2>1. /\ pc = "prompt" /\ found > 0 /\ Goto(next, 1)
        /\ UNCHANGED <<case, capture, devVars>>
    BY <1>15 DEF LoggedIn
  <2>2. NextIs(next, 1) /\ AtPrompt(next)
    BY <1>1
  <2>3. SawPrompt
    BY <1>0, <2>1, PatternsAre DEF SawPrompt
  <2>4. Turn(next)
    BY <2>2, <2>3 DEF Turn
  <2> HIDE DEF next
  <2> QED BY <1>0, <1>2, <2>1, <2>2, <2>4 DEF Early
<1>16. CASE SendEnable
  <2>1. /\ pc = "enable" /\ model.dis # {} /\ found > 0
        /\ UNCHANGED <<case, capture, devVars>>
    BY <1>0, <1>16 DEF SendEnable, CaseInv
  <2>2. SawPrompt
    BY <1>0, <2>1, PatternsAre DEF SawPrompt
  <2>3. CASE Goto(PagingOff, 1)
    <3>1. Turn(PagingOff)
      BY <1>1, <2>2 DEF Turn
    <3> QED BY <1>0, <1>1, <1>2, <2>1, <2>3, <3>1 DEF Early
  <2>4. CASE Goto([pc |-> "enable2", say |-> Word("enable")], 1)
    <3> DEFINE next == [pc |-> "enable2", say |-> Word("enable")]
    <3>1. NextIs(next, 1) /\ Goto(next, 1)
      BY <2>1, <2>4, WordIs DEF LineKind
    <3>2. Turn(next)
      BY <2>1, <2>2 DEF Turn
    <3> HIDE DEF next
    <3> QED BY <1>0, <1>2, <2>1, <3>1, <3>2 DEF Early
  <2> QED BY <1>16, <2>3, <2>4 DEF SendEnable
<1>17. CASE SendEnablePassword
  <2>1. pc = "enable2" /\ found > 0 /\ UNCHANGED <<case, capture, devVars>>
    BY <1>17 DEF SendEnablePassword
  <2>2. CASE found = Len(Patterns) /\ Goto(PagingOff, 1)
    <3>1. SawPrompt
      BY <1>0, <2>1, <2>2, PatternsAre DEF SawPrompt
    <3>2. Turn(PagingOff)
      BY <1>1, <3>1 DEF Turn
    <3> QED BY <1>0, <1>1, <1>2, <2>1, <2>2, <3>2 DEF Early
  <2>3. CASE /\ found # Len(Patterns)
             /\ Goto([pc |-> "enable3", say |-> Word("enablePassword")], 1)
    <3> DEFINE next == [pc |-> "enable3", say |-> Word("enablePassword")]
    <3>1. NextIs(next, 1) /\ Goto(next, 1)
      BY <2>3, WordIs DEF LineKind
    <3>2. Len(Patterns) <= 2 /\ found = 1
      <4>1. Len(Patterns) \in 1..2
        BY <2>1 DEF Patterns, Given
      <4>2. found \in 0..Len(Patterns) /\ found > 0 /\ found # Len(Patterns)
        BY <1>0, <2>1, <2>3
      <4>3. \A m \in 1..2 : m <= 2 /\ \A f \in 0..m : f > 0 /\ f # m => f = 1
        OBVIOUS
      <4> HIDE DEF next
      <4> QED BY ONLY <4>1, <4>2, <4>3
    <3>3. Patterns[found] \subseteq {"pass"}
      BY <1>0, <2>1, <2>3, <3>2, PatternsAre
    <3>4. Turn(next)
      BY <2>1, <3>3 DEF Turn
    <3> HIDE DEF next
    <3> QED BY <1>0, <1>2, <2>1, <3>1, <3>4 DEF Early
  <2> QED BY <1>17, <2>2, <2>3 DEF SendEnablePassword
<1>18. CASE Enabled
  <2>1. /\ pc = "enable3" /\ found > 0 /\ Goto(PagingOff, 1)
        /\ UNCHANGED <<case, capture, devVars>>
    BY <1>18 DEF Enabled
  <2>2. SawPrompt
    BY <1>0, <2>1, PatternsAre DEF SawPrompt
  <2>3. Turn(PagingOff)
    BY <1>1, <2>2 DEF Turn
  <2> QED BY <1>0, <1>1, <1>2, <2>1, <2>3 DEF Early
<1> QED BY <1>11, <1>12, <1>13, <1>14, <1>15, <1>16, <1>17, <1>18 DEF EarlyStep

LEMMA TypeFetch ==
    ASSUME TypeInv, Fetch
    PROVE  TypeInv'
<1>0. CaseInv /\ k \in Nat /\ model.commands \in Seq({"show", "wait"})
  BY ModelIs DEF TypeInv
<1>1. CASE Open
  <2> DEFINE logged == Head(case.transports) = "ssh"
             next == Login(logged)
  <2>1. /\ pc = "open" /\ Goto(next, 1) /\ UNCHANGED <<case, capture, mode>>
        /\ dev' = IF logged \/ case.asks = "none" THEN "greet" ELSE case.asks
        /\ wire' = IF logged \/ case.asks = "none" THEN <<>>
                   ELSE <<Token("text", 0)>> \o Prompt(case.asks)
    BY <1>1 DEF Open
  <2>2. /\ typed = <<>> /\ capture = <<>> /\ (model.login => model.pass # {})
        /\ case.asks \in {"user", "pass", "none"}
        /\ case.asks # "none" => model.login
    BY <1>0, <2>1 DEF TypeInv, CaseInv, CaseRecord
  <2>3. NextIs(next, 1)
    BY <1>0, <2>2, LoginIs
  <2> HIDE DEF next
  <2>4. /\ pc' = next.pc /\ k' = 1 /\ typed' = next.say /\ found' = 0 /\ buf' = <<>>
        /\ model' = model /\ next.say \in Seq(Line)
    BY <2>1, <2>2, <2>3 DEF Goto, NextIs, model
  <2>5. wire' \in Seq(TokenSet)
    <3>1. "user" \in Kind /\ "pass" \in Kind /\ <<Token("text", 0)>> \in Seq(TokenSet)
      BY DEF Kind, Token, TokenSet, TokenKind
    <3>2. case.asks # "none" => Prompt(case.asks) \in Seq(TokenSet)
      BY <2>2, <3>1, PromptIs
    <3> QED BY ONLY <2>1, <3>1, <3>2
  <2>6. CaseInv'
    BY <1>0, <2>1, <2>2, <2>3, <2>4 DEF CaseInv, NextIs, model
  <2>7. /\ pc' \in Matching \cup {"save"} /\ pc' \notin {"open", "ok", "failed"}
        /\ pc' = "save" => 1 > Len(model.commands)
        /\ pc' = "command" => 1 \in 1..Len(model.commands)
    BY <2>3, <2>4 DEF NextIs, Matching
  <2>8. Len(model.commands) \in Nat /\ capture' = <<>> /\ <<>> \in Seq(Seq(TokenSet))
        /\ Len(<<>>) = 0 /\ <<>> \in Seq(TokenSet)
    BY <1>0, <2>1, <2>2
  <2>9. found' \in 0..Len(Patterns')
    BY <2>4, PatternsCount
  <2> QED BY <2>4, <2>5, <2>6, <2>7, <2>8, <2>9 DEF TypeInv
<1>2. CASE OpenNext
  <2>1. /\ pc = "open" /\ case.transports # <<>>
        /\ case' = [case EXCEPT !.transports = Tail(@)]
        /\ UNCHANGED <<pc, k, found, buf, capture, devVars, typed>>
    BY <1>2 DEF OpenNext
  <2>2. Tail(case.transports) \in Seq(Transport)
    BY <1>0, <2>1 DEF CaseInv, CaseRecord
  <2>3. case' \in CaseRecord /\ model' = model /\ case'.asks = case.asks
    BY <1>0, <2>1, <2>2 DEF CaseInv, CaseRecord, model
  <2>4. CaseInv'
    BY <1>0, <2>1, <2>3 DEF CaseInv, devVars, model
  <2>5. found' \in 0..Len(Patterns')
    BY <2>1, <2>3 DEF TypeInv, Patterns, CommandPrompt
  <2> QED BY <2>1, <2>3, <2>4, <2>5 DEF TypeInv, devVars
<1>3. CASE OpenFails
  <2>1. found = 0 /\ pc = "open" /\ pc' = "failed"
    BY <1>3 DEF OpenFails, TypeInv, Matching
  <2> QED BY <1>3, <2>1, FailType DEF OpenFails
<1>4. ASSUME NEW n \in 1..Len(wire), Read(n) PROVE TypeInv'
  <2> DEFINE read == SubSeq(wire, 1, n)
  <2>1. /\ pc \in Matching /\ found' = Match(read) /\ buf' = buf \o read
        /\ wire' = SubSeq(wire, n + 1, Len(wire))
        /\ UNCHANGED <<case, pc, k, capture, dev, mode, typed>>
    BY <1>4 DEF Read, Looking
  <2>2. buf \in Seq(TokenSet) /\ wire \in Seq(TokenSet)
    BY DEF TypeInv
  <2>3. read \in Seq(TokenSet) /\ wire' \in Seq(TokenSet) /\ buf' \in Seq(TokenSet)
    BY <2>1, <2>2, SplitWire
  <2>4. found' \in 0..Len(Patterns) /\ Patterns' = Patterns
    BY <2>1, <2>3, MatchIs DEF Patterns, model, CommandPrompt
  <2>5. CaseInv'
    BY <1>0, <2>1 DEF CaseInv, Matching, model
  <2> QED BY <2>1, <2>3, <2>4, <2>5 DEF TypeInv, model
<1>5. ASSUME pc = "command", Save, Goto(Commands(k + 1), k + 1), UNCHANGED <<case, devVars>>
      PROVE  TypeInv'
  <2> DEFINE next == Commands(k + 1)
  <2>1. /\ k \in 1..Len(model.commands) /\ Len(capture) = k - 1
        /\ capture \in Seq(Seq(TokenSet)) /\ buf \in Seq(TokenSet)
        /\ capture' = Append(capture, buf)
    BY <1>5 DEF TypeInv, Save
  <2>2. Len(model.commands) \in Nat /\ k + 1 \in Nat \ {0}
    BY <1>0
  <2>3. /\ capture' \in Seq(Seq(TokenSet)) /\ Len(capture') = (k + 1) - 1
        /\ (k + 1) - 1 <= Len(model.commands)
    BY <2>1, <2>2
  <2>4. NextIs(next, k + 1) /\ next.pc \in {"command", "save"}
    BY <1>0, <2>2, CommandsAre
  <2> HIDE DEF next
  <2>5. Goto(next, k + 1) /\ pc # "open" /\ k + 1 \in Nat
    BY <1>5, <2>2 DEF next
  <2> QED BY <1>5, <2>3, <2>4, <2>5, GotoType
<1>6. CASE ReadEOF
  <2>1. CASE pc = "command" /\ model.dis = {}
    BY <1>5, <1>6, <2>1 DEF ReadEOF
  <2>2. CASE ~ (pc = "command" /\ model.dis = {})
    <3>1. /\ pc' = "failed" /\ pc \in Matching /\ found = 0
          /\ UNCHANGED <<case, k, found, buf, capture, devVars, typed>>
      BY <1>6, <2>2 DEF ReadEOF, Looking
    <3> QED BY <3>1, FailType DEF Matching
  <2> QED BY <2>1, <2>2
<1>7. CASE TimesOut
  <2>1. found = 0 /\ pc \in Matching /\ pc' = "failed"
    BY <1>7 DEF TimesOut, Looking
  <2> QED BY <1>7, <2>1, FailType DEF TimesOut, Matching
<1>8. CASE SaveCommit
  <2>1. pc = "save" /\ pc' \in {"ok", "failed"} /\ found = 0
        /\ UNCHANGED <<case, k, found, buf, capture, devVars, typed>>
    BY <1>8 DEF SaveCommit, TypeInv, Matching
  <2>2. CASE pc' = "failed"
    BY <2>1, <2>2, FailType
  <2>3. CASE pc' = "ok"
    <3>1. CaseInv' /\ found' \in 0..Len(Patterns')
      BY <1>0, <2>1, <2>3, PatternsCount DEF CaseInv, devVars, model
    <3> QED BY <2>1, <2>3, <3>1 DEF TypeInv, devVars, model
  <2> QED BY <2>1, <2>2, <2>3
<1>9. CASE CommandDone
  BY <1>5, <1>9 DEF CommandDone
<1>10. NextIs(Commands(1), 1) /\ 1 \in Nat
  BY <1>0, EnableSteps
<1>11. CASE EarlyStep
  <2>1. PICK next, n : /\ n \in Nat /\ NextIs(next, n) /\ Goto(next, n)
                       /\ next.pc \in {"pager", "command", "save"} => n = 1
                       /\ UNCHANGED <<case, capture, devVars>>
                       /\ pc \in Early
    BY <1>11, EarlyGoes
  <2>2. pc \in Matching \ {"command"} /\ (next.pc \in {"command", "save"} => n = 1)
    BY <2>1 DEF Early, Matching
  <2> QED BY <2>1, <2>2, EarlyType
<1>19. CASE PagerOff
  <2>1. pc = "pager" /\ UNCHANGED <<case, capture, devVars>>
    BY <1>19 DEF PagerOff
  <2>2. CASE Goto([pc |-> "pager", say |-> <<>>], k + 1)
    <3>1. /\ pc' = "pager" /\ k' = k + 1 /\ typed' = typed \o <<>> /\ found' = 0
          /\ buf' = <<>> /\ model' = model
      BY <2>1, <2>2 DEF Goto, model
    <3>2. typed \in Seq(Line)
      BY DEF TypeInv
    <3>3. typed' = typed
      BY ONLY <3>1, <3>2
    <3>4. CaseInv'
      BY <1>0, <2>1, <3>1, <3>3 DEF CaseInv, devVars
    <3>5. found' \in 0..Len(Patterns') /\ k' \in Nat /\ buf' \in Seq(TokenSet)
      BY <1>0, <3>1, PatternsCount
    <3> QED BY <2>1, <3>1, <3>3, <3>4, <3>5 DEF TypeInv, Matching, devVars
  <2>3. CASE Goto(Commands(1), 1)
    BY <1>10, <2>1, <2>3, EarlyType DEF Matching
  <2> QED BY <1>19, <2>2, <2>3 DEF PagerOff
<1> QED BY <1>1, <1>2, <1>3, <1>4, <1>6, <1>7, <1>8, <1>9, <1>11, <1>19
        DEF Fetch, EarlyStep

LEMMA InitType == Init => TypeInv
<1> SUFFICES ASSUME Init PROVE TypeInv
  OBVIOUS
<1>1. PICK c \in Case, echo \in BOOLEAN, asks \in {"user", "pass", "none"} :
        /\ asks = "none" <=> ~ c.model.login
        /\ case = [model |-> c.model, transports |-> c.transports, echo |-> echo,
                   asks |-> asks]
        /\ mode \in IF c.model.dis = {} THEN {"none"} ELSE c.model.dis \cup c.model.ena
  BY DEF Init
<1>2. /\ c \in [model: Model, transports: Seq(Transport)]
      /\ c.model.login => c.model.pass # {}
      /\ c.model.dis = {} => ~ (c.model.login \/ c.model.enabledMode)
  BY CaseAssumption
<1>3. case \in CaseRecord /\ model = c.model /\ case.asks = asks
  BY <1>1, <1>2 DEF CaseRecord, model
<1>4. mode \in {"dis", "ena", "none"} /\ (model.dis # {} => mode # "none")
  BY <1>1, <1>2, <1>3 DEF Model
<1>5. CaseInv
  BY <1>1, <1>2, <1>3, <1>4 DEF Init, CaseInv
<1>6. found \in 0..Len(Patterns)
  BY PatternsCount DEF Init
<1> QED BY <1>5, <1>6 DEF Init, TypeInv

LEMMA TypeStep ==
    ASSUME TypeInv, [Next]_vars
    PROVE  TypeInv'
<1>1. CASE UNCHANGED vars
  BY <1>1 DEF vars, TypeInv, CaseInv, model, Patterns, CommandPrompt
<1> QED BY <1>1, TypeFetch, TypeDevice DEF Next

\* Types are kept, whatever the models, the transports and the device do.
THEOREM TypeCorrect == Spec => []TypeOK
<1>1. TypeInv => TypeOK
  <2> SUFFICES ASSUME TypeInv PROVE TypeOK
    OBVIOUS
  <2>1. Len(model.commands) \in Nat
    <3>1. model.commands \in Seq({"show", "wait"})
      BY ModelIs DEF TypeInv
    <3> QED BY <3>1
  <2>2. Len(capture) <= Len(model.commands)
    <3>1. CASE pc = "command"
      <4>1. k \in 1..Len(model.commands) /\ Len(capture) = k - 1
        BY <3>1 DEF TypeInv
      <4> QED BY ONLY <2>1, <4>1
    <3>2. CASE pc \in {"save", "ok", "failed"}
      <4>1. \/ Len(capture) = Len(model.commands)
            \/ Len(capture) <= Len(model.commands)
        BY <3>2 DEF TypeInv
      <4> QED BY ONLY <2>1, <4>1
    <3>3. CASE pc \notin {"command", "save", "ok", "failed"}
      BY <2>1, <3>3 DEF TypeInv
    <3> QED BY <3>1, <3>2, <3>3
  <2>3. \A s \in Seq(TokenSet) : IsText(s)
    <3> TAKE s \in Seq(TokenSet)
    <3>1. \A i \in 1..Len(s) : s[i] \in TokenSet
      BY ElementOfSeq
    <3> QED BY <3>1 DEF IsText, TokenSet
  <2>4. /\ buf \in Seq(TokenSet) /\ wire \in Seq(TokenSet) /\ typed \in Seq(Line)
        /\ \A i \in 1..Len(capture) : capture[i] \in Seq(TokenSet)
    <3>1. /\ buf \in Seq(TokenSet) /\ wire \in Seq(TokenSet) /\ typed \in Seq(Line)
          /\ capture \in Seq(Seq(TokenSet))
      BY DEF TypeInv
    <3>2. \A i \in 1..Len(capture) : capture[i] \in Seq(TokenSet)
      BY ONLY <3>1, ElementOfSeq
    <3> QED BY <3>1, <3>2
  <2>5. \A i \in 1..Len(typed) : typed[i] \in [kind: LineKind, of: Nat]
    BY <2>4, ElementOfSeq DEF Line
  <2>6. /\ mode \in {"dis", "ena", "none"}
        /\ dev \in {"off", "greet", "user", "pass", "key", "shell", "enablePass", "closed"}
    BY DEF TypeInv, CaseInv
  <2> QED BY <2>2, <2>3, <2>4, <2>5, <2>6 DEF TypeInv, TypeOK
<1> QED BY <1>1, InitType, TypeStep, PTL DEF Spec
------------------------------------------------------------------------------
(* The two sides take turns *)

\* What a step may do to the lines the device has yet to read.
SendsInTurn == Len(typed') > Len(typed) => typed = <<>> /\ (wire = <<>> \/ pc = "open")

\* fetch goes on when all has been heard and read.
LEMMA GoesOn ==
    ASSUME TypeInv, typed = <<>>, wire' = <<>>, model' = model,
           NEW next, NEW n \in Nat, NextIs(next, n), Goto(next, n),
           next.pc = "pager" => n = 1
    PROVE  OneAtATime' /\ PagerCount'
<1>1. /\ pc' = next.pc /\ k' = n /\ typed' = next.say /\ found' = 0 /\ buf' = <<>>
      /\ next.say \in Seq(Line)
      /\ next.pc # "pager" => Len(next.say) <= 1
      /\ next.pc = "pager" => /\ Len(next.say) = Prompts
                              /\ \A i \in 1..Prompts : next.say[i].kind = "pager"
  BY DEF Goto, NextIs
<1>2. Prompts = model.extra + 1 /\ model.extra \in Nat
  <2>1. model.extra \in Nat
    BY ModelIs DEF TypeInv
  <2> QED BY <1>1, <2>1 DEF Prompts
<1>3. ASSUME pc' = "pager"
      PROVE  /\ k' <= model.extra + 1
             /\ 2 * Len(typed') + Len(wire') <= 2 * (model.extra + 2 - k')
             /\ \A i \in 1..Len(typed') : typed'[i].kind = "pager"
  <2>1. /\ k' = 1 /\ Len(typed') = Prompts /\ Len(wire') = 0
        /\ \A i \in 1..Prompts : typed'[i].kind = "pager"
    BY <1>1, <1>3
  <2> QED BY ONLY <1>2, <2>1
<1>4. PagerCount'
  BY <1>1, <1>3 DEF PagerCount
<1>5. OneAtATime'
  BY <1>1 DEF OneAtATime
<1> QED BY <1>4, <1>5

LEMMA Settled ==
    ASSUME TypeInv, typed = <<>>, wire = <<>>, dev = "greet" => model.dis = {},
           NEW next, NEW n \in Nat, NextIs(next, n), Goto(next, n),
           next.pc = "pager" => n = 1, UNCHANGED <<case, devVars>>
    PROVE  TurnInv' /\ SendsInTurn
<1>1. wire' = <<>> /\ dev' = dev /\ model' = model
  BY DEF devVars, model
<1> QED BY <1>1, GoesOn DEF TurnInv, Greeting, SendsInTurn

LEMMA Counting ==
    ASSUME NEW lines \in Nat, NEW tokens \in Nat, NEW extra \in Nat, NEW i \in Nat,
           2 * lines + tokens + 2 <= 2 * (extra + 2 - i)
    PROVE  /\ 2 * lines + tokens <= 2 * (extra + 2 - (i + 1))
           /\ i > extra => lines = 0 /\ tokens = 0
OBVIOUS

\* The last prompt of the pager command.
LEMMA PagerDone ==
    ASSUME TypeInv, TurnInv, pc = "pager", found # 0, k > model.extra
    PROVE  typed = <<>> /\ wire = <<>>
<1>1. typed \in Seq(Line) /\ wire \in Seq(TokenSet) /\ k \in Nat /\ model.extra \in Nat
  BY ModelIs DEF TypeInv
<1>2. 2 * Len(typed) + Len(wire) + 2 <= 2 * (model.extra + 2 - k)
  BY DEF TurnInv, PagerCount
<1>3. Len(typed) \in Nat /\ Len(wire) \in Nat
  BY ONLY <1>1
<1>4. Len(typed) = 0 /\ Len(wire) = 0
  BY ONLY <1>1, <1>2, <1>3, k > model.extra, Counting
<1> QED BY ONLY <1>1, <1>4

\* EOF is a failure, or ends the only command of a model that knows no prompt.
LEMMA LastEOF ==
    ASSUME TypeInv, StartInv, ReadEOF
    PROVE  pc' \in {"save", "failed"} /\ typed' = typed
<1>1. CASE pc = "command" /\ model.dis = {}
  <2>1. Goto(Commands(k + 1), k + 1)
    BY <1>1 DEF ReadEOF
  <2>2. k \in 1..Len(model.commands) /\ Len(model.commands) <= 1
    BY <1>1 DEF TypeInv, StartInv
  <2>3. Commands(k + 1) = [pc |-> "save", say |-> <<>>]
    <3>1. Len(model.commands) \in Nat /\ k + 1 \in Nat
      BY ModelIs DEF TypeInv
    <3>2. k + 1 > Len(model.commands)
      BY ONLY <2>2, <3>1
    <3> QED BY <3>2 DEF Commands
  <2>4. pc' = "save" /\ typed' = typed \o <<>>
    <3>1. Commands(k + 1).pc = "save" /\ Commands(k + 1).say = <<>>
      BY <2>3
    <3> QED BY <2>1, <3>1 DEF Goto
  <2>5. typed \in Seq(Line)
    BY DEF TypeInv
  <2> QED BY <2>4, <2>5
<1>2. CASE ~ (pc = "command" /\ model.dis = {})
  BY <1>2 DEF ReadEOF
<1> QED BY <1>1, <1>2

LEMMA Fewer ==
    ASSUME NEW lines \in Nat, NEW tokens \in Nat, NEW lines1 \in Nat, NEW tokens1 \in Nat,
           NEW left \in Int, NEW d \in Nat, 2 * lines1 + tokens1 + d <= 2 * lines + tokens
    PROVE  /\ 2 * lines + tokens <= left => 2 * lines1 + tokens1 + d <= left
           /\ 2 * lines + tokens + 2 <= left => 2 * lines1 + tokens1 + d + 2 <= left
OBVIOUS

LEMMA TurnsFetch ==
    ASSUME TypeInv, StartInv, TurnInv, Fetch
    PROVE  TurnInv' /\ SendsInTurn
<1>0. /\ CaseInv /\ k \in Nat /\ typed \in Seq(Line) /\ wire \in Seq(TokenSet)
      /\ found \in 0..Len(Patterns) /\ Len(Patterns) \in 0..3
      /\ model.extra \in Nat /\ Prompts \in Nat \ {0}
  BY ModelIs, PatternsCount DEF TypeInv, Prompts
<1>1. CASE Open
  <2> DEFINE logged == Head(case.transports) = "ssh"
             next == Login(logged)
  <2>1. /\ pc = "open" /\ Goto(next, 1) /\ case.transports # <<>> /\ model' = model
        /\ dev' = IF logged \/ case.asks = "none" THEN "greet" ELSE case.asks
        /\ wire' = IF logged \/ case.asks = "none" THEN <<>>
                   ELSE <<Token("text", 0)>> \o Prompt(case.asks)
    BY <1>1 DEF Open, model
  <2>2. /\ typed = <<>> /\ StartsWell(model, case.transports)
        /\ model.login => model.pass # {}
        /\ case.transports \in Seq(Transport)
        /\ case.asks \in {"user", "pass", "none"} /\ (case.asks = "none" <=> ~ model.login)
    BY <1>0, <2>1 DEF CaseInv, CaseRecord, StartInv
  <2>3. SendsInTurn
    BY <2>1, <2>2 DEF SendsInTurn
  <2>4. CASE model.login /\ ~ logged
    <3>1. next = [pc |-> "login", say |-> <<>>]
      BY <1>0, <2>2, <2>4, LoginIs
    <3>2. next.pc = "login" /\ next.say = <<>>
      BY <3>1
    <3>3. pc' = "login" /\ typed' = <<>> /\ found' = 0
      BY <2>1, <2>2, <3>2 DEF Goto
    <3>4. dev' \in {"user", "pass"} /\ wire' = <<Token("text", 0)>> \o Prompt(case.asks)
      BY <2>1, <2>2, <2>4
    <3>5. \A i \in 1..(Len(wire') - 1) : wire'[i].kind \notin Kind
      <4>1. /\ <<Token("text", 0)>> \in Seq(TokenSet) /\ Len(<<Token("text", 0)>>) = 1
            /\ <<Token("text", 0)>>[1].kind = "text"
        BY DEF Token, TokenSet, TokenKind
      <4>2. /\ Prompt(case.asks) \in Seq(TokenSet) /\ Len(Prompt(case.asks)) = 2
            /\ Prompt(case.asks)[1].kind = "stem"
        <5>1. case.asks \in Kind
          BY <2>2, <2>4 DEF Kind
        <5> QED BY <5>1, PromptIs
      <4>3. Len(wire') = 3 /\ wire'[1].kind = "text" /\ wire'[2].kind = "stem"
        BY ONLY <3>4, <4>1, <4>2
      <4>4. 1..(Len(wire') - 1) = {1, 2}
        BY ONLY <4>3
      <4>5. "text" \notin Kind /\ "stem" \notin Kind
        BY DEF Kind
      <4> QED BY ONLY <4>3, <4>4, <4>5
    <3> QED BY <2>3, <3>3, <3>4, <3>5
            DEF TurnInv, OneAtATime, PagerCount, Greeting, Matching
  <2>5. CASE ~ (model.login /\ ~ logged)
    <3>1. NextIs(next, 1) /\ next = Enable(FALSE)
      BY <1>0, <2>2, <2>5, LoginIs
    <3>2. wire' = <<>>
      BY <2>1, <2>2, <2>5
    <3>3. OneAtATime' /\ PagerCount'
      <4> HIDE DEF next
      <4> QED BY <2>1, <2>2, <3>1, <3>2, GoesOn
    <3>4. CASE model.dis = {}
      BY <2>1, <2>3, <3>3, <3>4 DEF TurnInv, Greeting
    <3>5. CASE model.dis # {}
      <4>1. WaitsFirst(model)
        <5>1. ~ (model.login /\ \A i \in 1..Len(case.transports) :
                                   case.transports[i] # "ssh")
          <6>1. 1 \in 1..Len(case.transports) /\ Head(case.transports) = case.transports[1]
            BY <2>1, <2>2
          <6> QED BY <2>5, <6>1
        <5> QED BY <2>2, <3>5, <5>1 DEF StartsWell
      <4>2. next = Commands(1)
        BY <1>0, <3>1, <4>1, EnableIs, PagingOffIs DEF WaitsFirst
      <4>3. next.pc = "save" \/ (next.pc = "command" /\ next.say = <<>>)
        <5>1. model.commands \in Seq({"show", "wait"})
          BY <1>0, ModelIs
        <5>2. 1 > Len(model.commands) \/ model.commands # <<>>
          BY <5>1
        <5> QED BY <4>1, <4>2, <5>2 DEF WaitsFirst, Commands
      <4>4. pc' = next.pc /\ typed' = next.say /\ found' = 0 /\ buf' = <<>>
        BY <2>1, <2>2, <3>1 DEF Goto, NextIs
      <4>5. Greeting'
        BY <2>1, <3>2, <4>3, <4>4 DEF Greeting, Matching
      <4> QED BY <2>3, <3>3, <4>5 DEF TurnInv
    <3> QED BY <3>4, <3>5
  <2> QED BY <2>4, <2>5
<1>2. CASE OpenNext \/ OpenFails \/ TimesOut \/ SaveCommit
  <2>1. typed' = typed /\ pc' \notin Matching
    BY <1>2 DEF OpenNext, OpenFails, TimesOut, SaveCommit, Matching
  <2> QED BY <1>0, <2>1 DEF TurnInv, OneAtATime, PagerCount, Greeting, SendsInTurn, Matching
<1>3. ASSUME NEW n \in 1..Len(wire), Read(n) PROVE TurnInv' /\ SendsInTurn
  <2> DEFINE read == SubSeq(wire, 1, n)
  <2>1. /\ pc \in Matching /\ found = 0 /\ found' = Match(read)
        /\ wire' = SubSeq(wire, n + 1, Len(wire))
        /\ UNCHANGED <<case, pc, k, capture, dev, mode, typed>> /\ model' = model
    BY <1>3 DEF Read, Looking, model
  <2>2. /\ read \in Seq(TokenSet) /\ Len(read) = n /\ \A i \in 1..n : read[i] = wire[i]
        /\ wire' \in Seq(TokenSet) /\ Len(wire') = Len(wire) - n
        /\ \A i \in 1..Len(wire') : wire'[i] = wire[n + i]
    <3>1. buf \in Seq(TokenSet) /\ wire \in Seq(TokenSet) /\ n \in 1..Len(wire)
      BY <1>0 DEF TypeInv
    <3>2. wire' = SubSeq(wire, n + 1, Len(wire))
      BY <2>1
    <3> QED BY ONLY <3>1, <3>2, SplitWire
  <2>3. wire # <<>> /\ Len(wire) \in Nat
    BY <1>0, <1>3
  <2>4. found' # 0 => \E i \in 2..n : wire[i].kind \in Kind
    <3>1. found' # 0 => \E i \in 2..n : read[i].kind \in Patterns[found']
      BY <2>1, <2>2, MatchIs
    <3>2. found' \in 0..Len(Patterns)
      BY <2>1, <2>2, MatchIs
    <3>3. \A j \in 1..Len(Patterns) : Patterns[j] \subseteq Kind
      BY <1>0, PatternsAre
    <3> QED BY <2>2, <3>1, <3>2, <3>3
  <2>5. OneAtATime'
    <3> SUFFICES ASSUME pc \in Matching \ {"pager"} PROVE OneAtATime'
      BY <2>1 DEF OneAtATime
    <3>1. typed = <<>> /\ \A i \in 1..(Len(wire) - 1) : wire[i].kind \notin Kind
      BY <2>3 DEF TurnInv, OneAtATime
    <3>2. found' # 0 => wire' = <<>>
      <4> SUFFICES ASSUME found' # 0 PROVE wire' = <<>>
        OBVIOUS
      <4>1. PICK i \in 2..n : wire[i].kind \in Kind
        BY <2>4
      <4>2. i = Len(wire)
        BY <1>3, <2>3, <3>1, <4>1
      <4>3. Len(wire') = 0
        BY <1>3, <2>2, <2>3, <4>2
      <4> QED BY <2>2, <4>3
    <3>3. \A i \in 1..(Len(wire') - 1) : wire'[i].kind \notin Kind
      <4> TAKE i \in 1..(Len(wire') - 1)
      <4>1. n + i \in 1..(Len(wire) - 1) /\ i \in 1..Len(wire')
        BY <1>3, <2>2, <2>3
      <4> QED BY <2>2, <3>1, <4>1
    <3> QED BY <2>1, <3>1, <3>2, <3>3 DEF OneAtATime
  <2>6. PagerCount'
    <3> SUFFICES ASSUME pc = "pager" PROVE PagerCount'
      BY <2>1 DEF PagerCount
    <3>1. /\ k <= model.extra + 1
          /\ 2 * Len(typed) + Len(wire) <= 2 * (model.extra + 2 - k)
          /\ \A i \in 1..Len(typed) : typed[i].kind = "pager"
      BY DEF TurnInv, PagerCount
    <3>2. /\ Len(wire') <= Len(wire) /\ (found' # 0 => Len(wire') + 2 <= Len(wire))
      BY <1>3, <2>2, <2>3, <2>4
    <3>3. /\ 2 * Len(typed) + Len(wire') <= 2 * (model.extra + 2 - k)
          /\ found' # 0 => 2 * Len(typed) + Len(wire') + 2 <= 2 * (model.extra + 2 - k)
      <4>1. /\ Len(typed) \in Nat /\ Len(wire') \in Nat /\ Len(wire) \in Nat
            /\ k \in Nat /\ model.extra \in Nat
        BY <1>0, <2>2
      <4> DEFINE left == 2 * (model.extra + 2 - k)
      <4>2. left \in Int /\ 2 * Len(typed) + Len(wire) <= left
        BY <3>1, <4>1
      <4> HIDE DEF left
      <4>3. 2 * Len(typed) + Len(wire') + 0 <= left
        <5>1. 2 * Len(typed) + Len(wire') + 0 <= 2 * Len(typed) + Len(wire)
          BY ONLY <3>2, <4>1
        <5> QED BY ONLY <4>1, <4>2, <5>1, Fewer
      <4>4. found' # 0 => 2 * Len(typed) + Len(wire') + 2 <= left
        <5>1. found' # 0 => 2 * Len(typed) + Len(wire') + 2 <= 2 * Len(typed) + Len(wire)
          BY ONLY <3>2, <4>1
        <5> QED BY ONLY <4>1, <4>2, <5>1, Fewer
      <4>5. 2 * Len(typed) + Len(wire') <= left
        BY ONLY <4>1, <4>2, <4>3
      <4> QED BY <4>4, <4>5 DEF left
    <3> QED BY <2>1, <3>1, <3>3 DEF PagerCount
  <2>7. Greeting'
    BY <2>1, <2>3 DEF TurnInv, Greeting
  <2>8. SendsInTurn
    BY <1>0, <2>1 DEF SendsInTurn
  <2> QED BY <2>5, <2>6, <2>7, <2>8 DEF TurnInv
<1>4. CASE EarlyStep
  <2>1. PICK next, n : /\ n \in Nat /\ NextIs(next, n) /\ Goto(next, n)
                       /\ next.pc \in {"pager", "command", "save"} => n = 1
                       /\ UNCHANGED <<case, capture, devVars>>
                       /\ pc \in Early /\ found \in 1..Len(Patterns)
    BY <1>4, EarlyGoes
  <2>2. typed = <<>> /\ wire = <<>> /\ (dev = "greet" => model.dis = {})
    <3>1. found # 0 /\ pc \in Matching \ {"pager"}
      BY <1>0, <2>1 DEF Early, Matching
    <3> QED BY <3>1 DEF TurnInv, OneAtATime, Greeting
  <2> QED BY <2>1, <2>2, Settled
<1>5. CASE CommandDone
  <2>1. /\ found # 0 /\ pc = "command" /\ Goto(Commands(k + 1), k + 1)
        /\ UNCHANGED <<case, devVars>>
    BY <1>0, <1>5 DEF CommandDone
  <2>2. typed = <<>> /\ wire = <<>> /\ (dev = "greet" => model.dis = {})
    BY <2>1 DEF TurnInv, OneAtATime, Greeting, Matching
  <2>3. /\ NextIs(Commands(k + 1), k + 1) /\ k + 1 \in Nat
        /\ Commands(k + 1).pc # "pager"
    BY <1>0, CommandsAre
  <2> QED BY <2>1, <2>2, <2>3, Settled
<1>6. CASE ReadEOF
  <2>1. pc' \in {"save", "failed"} /\ typed' = typed
    BY <1>6, LastEOF
  <2> QED BY <1>0, <2>1 DEF TurnInv, OneAtATime, PagerCount, Greeting, SendsInTurn, Matching
<1>7. CASE PagerOff
  <2>1. /\ pc = "pager" /\ found # 0 /\ UNCHANGED <<case, capture, devVars>>
        /\ k <= model.extra + 1
        /\ 2 * Len(typed) + Len(wire) + 2 <= 2 * (model.extra + 2 - k)
        /\ \A i \in 1..Len(typed) : typed[i].kind = "pager"
        /\ dev = "greet" => model.dis = {}
    <3>1. pc = "pager" /\ found # 0 /\ UNCHANGED <<case, capture, devVars>>
      BY <1>0, <1>7 DEF PagerOff
    <3>2. dev = "greet" => model.dis = {}
      BY <3>1 DEF TurnInv, Greeting, Matching
    <3> QED BY <3>1, <3>2 DEF TurnInv, PagerCount
  <2>2. CASE k <= model.extra /\ Goto([pc |-> "pager", say |-> <<>>], k + 1)
    <3>1. /\ pc' = "pager" /\ k' = k + 1 /\ found' = 0 /\ typed' = typed \o <<>>
          /\ UNCHANGED <<wire, dev>> /\ model' = model
      BY <2>1, <2>2 DEF Goto, devVars, Prompts, model
    <3>2. typed' = typed
      BY <1>0, <3>1
    <3>3. /\ k + 1 <= model.extra + 1
          /\ 2 * Len(typed) + Len(wire) <= 2 * (model.extra + 2 - (k + 1))
      <4>1. Len(typed) \in Nat /\ Len(wire) \in Nat
        BY <1>0
      <4>2. /\ k \in Nat /\ model.extra \in Nat /\ k <= model.extra
            /\ 2 * Len(typed) + Len(wire) + 2 <= 2 * (model.extra + 2 - k)
        BY <1>0, <2>1, <2>2
      <4>3. 2 * Len(typed) + Len(wire) <= 2 * (model.extra + 2 - (k + 1))
        BY ONLY <4>1, <4>2, Counting
      <4> QED BY ONLY <4>1, <4>2, <4>3
    <3> QED BY <2>1, <3>1, <3>2, <3>3 DEF TurnInv, OneAtATime, PagerCount, Greeting, SendsInTurn
  <2>3. CASE k > model.extra /\ Goto(Commands(1), 1)
    <3>1. typed = <<>> /\ wire = <<>>
      BY <2>1, <2>3, PagerDone
    <3>2. NextIs(Commands(1), 1) /\ Commands(1).pc # "pager" /\ 1 \in Nat
      BY <1>0, CommandsAre
    <3> QED BY <2>1, <2>3, <3>1, <3>2, Settled
  <2> QED BY <1>0, <1>7, <2>2, <2>3 DEF PagerOff
<1> QED BY <1>1, <1>2, <1>3, <1>4, <1>5, <1>6, <1>7 DEF Fetch, EarlyStep

\* What the device says to a line it has read.
Out == IF Head(typed).kind = "show" THEN Output(Head(typed).of) ELSE <<>>

HearsStep == \/ DeviceAsks \/ DeviceChecks \/ DeviceKey
             \/ DeviceEnables \/ DeviceChecksEnable \/ DeviceAnswers

Hears(tokens) ==
    /\ typed # <<>> /\ typed' = Tail(typed) /\ wire' = wire \o tokens
    /\ UNCHANGED <<case, pc, k, found, buf, capture>>
    /\ dev' \notin {"off", "greet"}
    /\ dev' = "enablePass" => Head(typed).kind = "enable"
    /\ dev \in {"shell", "enablePass"} => dev' \in {"shell", "enablePass", "closed"}
    /\ \/ /\ dev # "shell" \/ Head(typed).kind = "enable"
          /\ \E kind \in Kind : tokens = Prompt(kind) /\ Awaits(kind, dev')
       \/ /\ dev = "shell" /\ Head(typed).kind # "enable"
          /\ model.dis = {} /\ tokens = Out /\ dev' = "closed"
       \/ /\ dev = "shell" /\ Head(typed).kind # "enable"
          /\ model.dis # {} /\ tokens = Out \o Prompt(mode) /\ dev' = "shell"

LEMMA AwaitsAre ==
    ASSUME NEW d
    PROVE  /\ Awaits("user", d) <=> d = "user"
           /\ Awaits("pass", d) <=> d \in {"pass", "enablePass"}
           /\ Awaits("post", d) <=> d = "key"
           /\ Awaits("dis", d) <=> d = "shell"
           /\ Awaits("ena", d) <=> d = "shell"
BY DEF Awaits

LEMMA HearsGives ==
    ASSUME TypeInv, HearsStep
    PROVE  \E tokens \in Seq(TokenSet) : Hears(tokens)
<1>0. /\ CaseInv /\ (model.dis # {} => mode \in {"dis", "ena"})
      /\ dev \in {"user", "pass", "key", "enablePass"} => model.dis # {}
      /\ typed \in Seq(Line)
      /\ "dis" \in Kind /\ "ena" \in Kind /\ "user" \in Kind /\ "pass" \in Kind
      /\ "post" \in Kind
  BY DEF TypeInv, CaseInv, Kind
<1>1. ASSUME NEW kind \in Kind, typed # <<>>, typed' = Tail(typed),
             wire' = wire \o Prompt(kind), Awaits(kind, dev'), dev' \notin {"off", "greet"},
             UNCHANGED <<case, pc, k, found, buf, capture>>,
             dev # "shell" \/ Head(typed).kind = "enable",
             dev' = "enablePass" => Head(typed).kind = "enable",
             dev \in {"shell", "enablePass"} => dev' \in {"shell", "enablePass", "closed"}
      PROVE  \E tokens \in Seq(TokenSet) : Hears(tokens)
  <2>1. Prompt(kind) \in Seq(TokenSet)
    BY PromptIs
  <2>2. Hears(Prompt(kind))
    BY <1>1 DEF Hears
  <2> QED BY <2>1, <2>2
<1>2. CASE DeviceAsks
  <2>1. /\ typed # <<>> /\ typed' = Tail(typed) /\ dev = "user"
        /\ UNCHANGED <<pc, k, found, buf, capture, case, mode>>
        /\ \/ dev' = "pass" /\ wire' = wire \o Prompt("pass")
           \/ dev' = "shell" /\ wire' = wire \o Prompt(mode)
    BY <1>2 DEF DeviceAsks, DeviceHears, CommandLine, Says
  <2> QED BY <1>0, <1>1, <2>1, AwaitsAre
<1>3. CASE DeviceChecks
  <2>1. /\ typed # <<>> /\ typed' = Tail(typed) /\ dev = "pass"
        /\ UNCHANGED <<pc, k, found, buf, capture, case, mode>>
        /\ \/ dev' = case.asks /\ wire' = wire \o Prompt(case.asks)
           \/ dev' = "shell" /\ wire' = wire \o Prompt(mode)
           \/ dev' = "key" /\ wire' = wire \o Prompt("post")
    BY <1>3 DEF DeviceChecks, DeviceHears, CommandLine, Says
  <2>2. case.asks \in {"user", "pass"}
    BY <1>0, <2>1 DEF CaseInv, CaseRecord
  <2> QED BY <1>0, <1>1, <2>1, <2>2, AwaitsAre
<1>4. CASE DeviceKey
  <2>1. /\ typed # <<>> /\ typed' = Tail(typed) /\ dev = "key"
        /\ UNCHANGED <<pc, k, found, buf, capture, case, mode>>
        /\ dev' = "shell" /\ wire' = wire \o Prompt(mode)
    BY <1>4 DEF DeviceKey, DeviceHears, CommandLine, Says
  <2> QED BY <1>0, <1>1, <2>1, AwaitsAre
<1>5. CASE DeviceEnables
  <2>1. /\ typed # <<>> /\ typed' = Tail(typed) /\ dev = "shell" /\ Head(typed).kind = "enable"
        /\ UNCHANGED <<pc, k, found, buf, capture, case>>
        /\ \/ dev' = "enablePass" /\ wire' = wire \o Prompt("pass")
           \/ dev' = "shell" /\ wire' = wire \o Prompt("ena")
    BY <1>5 DEF DeviceEnables, DeviceHears, Says
  <2> QED BY <1>0, <1>1, <2>1, AwaitsAre
<1>6. CASE DeviceChecksEnable
  <2>1. /\ typed # <<>> /\ typed' = Tail(typed) /\ dev = "enablePass"
        /\ UNCHANGED <<pc, k, found, buf, capture, case>>
        /\ \/ dev' = "shell" /\ wire' = wire \o Prompt(mode)
           \/ dev' = "shell" /\ wire' = wire \o Prompt("ena")
    BY <1>6 DEF DeviceChecksEnable, DeviceHears, CommandLine, Says
  <2> QED BY <1>0, <1>1, <2>1, AwaitsAre
<1>7. CASE DeviceAnswers
  <2>1. /\ typed # <<>> /\ typed' = Tail(typed) /\ dev = "shell" /\ Head(typed).kind # "enable"
        /\ UNCHANGED <<pc, k, found, buf, capture, case, mode>>
        /\ \/ model.dis = {} /\ dev' = "closed" /\ wire' = wire \o Out
           \/ model.dis # {} /\ dev' = "shell" /\ wire' = wire \o (Out \o Prompt(mode))
    BY <1>7 DEF DeviceAnswers, DeviceHears, Says, Out
  <2>2. Out \in Seq(TokenSet)
    <3>1. Head(typed) \in Line
      BY <1>0, <2>1
    <3>2. Head(typed).of \in Nat
      BY <3>1 DEF Line
    <3>3. <<>> \in Seq(TokenSet)
      OBVIOUS
    <3> QED BY <3>2, <3>3, OutputIs DEF Out
  <2>3. CASE model.dis = {}
    <3>1. Hears(Out)
      BY <2>1, <2>3 DEF Hears
    <3> QED BY <2>2, <3>1
  <2>4. CASE model.dis # {}
    <3>1. Prompt(mode) \in Seq(TokenSet)
      BY <1>0, <2>4, PromptIs
    <3>2. Out \o Prompt(mode) \in Seq(TokenSet)
      BY ONLY <2>2, <3>1
    <3>3. Hears(Out \o Prompt(mode))
      BY <2>1, <2>4 DEF Hears
    <3> QED BY <3>2, <3>3
  <2> QED BY <2>3, <2>4
<1> QED BY <1>2, <1>3, <1>4, <1>5, <1>6, <1>7 DEF HearsStep

\* The answer ends with a prompt, and the device waits as it says; or it is the last.
LEMMA AnswerIs ==
    ASSUME TypeInv, NEW tokens \in Seq(TokenSet), Hears(tokens)
    PROVE  /\ \A i \in 1..(Len(tokens) - 1) : tokens[i].kind \notin Kind
           /\ Head(typed).kind # "show" => Len(tokens) <= 2
           /\ \/ /\ Len(tokens) >= 2 /\ tokens[Len(tokens)].kind \in Kind
                 /\ Awaits(tokens[Len(tokens)].kind, dev')
              \/ dev' = "closed"
<1>0. /\ Head(typed) \in Line
      /\ "text" \notin Kind /\ "stem" \notin Kind
      /\ model.dis # {} => mode \in {"dis", "ena"} /\ mode \in Kind
  BY DEF TypeInv, CaseInv, Hears, Kind
<1>1. /\ Out \in Seq(TokenSet) /\ Len(Out) \in Nat
      /\ \A i \in 1..Len(Out) : Out[i].kind = "text"
      /\ Head(typed).kind # "show" => Len(Out) = 0
  <2>1. CASE Head(typed).kind = "show"
    <3>1. Head(typed).of \in Nat /\ Out = Output(Head(typed).of)
      BY <1>0, <2>1 DEF Line, Out
    <3>2. /\ Out \in Seq(TokenSet) /\ Len(Out) = Lines
          /\ \A i \in 1..Lines : Out[i] = Token("text", Head(typed).of)
      BY <3>1, OutputIs
    <3> QED BY <2>1, <3>2, LinesAssumption DEF Token
  <2>2. CASE Head(typed).kind # "show"
    <3>1. Out = <<>>
      BY <2>2 DEF Out
    <3> QED BY <3>1
  <2> QED BY <2>1, <2>2
<1>2. CASE \E kind \in Kind : tokens = Prompt(kind) /\ Awaits(kind, dev')
  <2>1. PICK kind \in Kind : tokens = Prompt(kind) /\ Awaits(kind, dev')
    BY <1>2
  <2>2. Len(tokens) = 2 /\ tokens[1].kind = "stem" /\ tokens[2].kind = kind
    BY <2>1, PromptIs
  <2> QED BY <1>0, <2>1, <2>2
<1>3. CASE model.dis = {} /\ tokens = Out /\ dev' = "closed"
  BY <1>0, <1>1, <1>3
<1>4. CASE model.dis # {} /\ tokens = Out \o Prompt(mode) /\ dev' = "shell"
  <2>1. /\ Prompt(mode) \in Seq(TokenSet) /\ Len(Prompt(mode)) = 2
        /\ Prompt(mode)[1].kind = "stem" /\ Prompt(mode)[2].kind = mode
    BY <1>0, <1>4, PromptIs
  <2>2. /\ Len(tokens) = Len(Out) + 2
        /\ \A i \in 1..Len(Out) : tokens[i] = Out[i]
        /\ tokens[Len(Out) + 1] = Prompt(mode)[1]
        /\ tokens[Len(Out) + 2] = Prompt(mode)[2]
    <3> DEFINE prompt == Prompt(mode)
    <3>1. /\ tokens = Out \o prompt /\ Out \in Seq(TokenSet) /\ Len(Out) \in Nat
          /\ prompt \in Seq(TokenSet) /\ Len(prompt) = 2
      BY <1>1, <1>4, <2>1
    <3> HIDE DEF prompt
    <3>2. /\ Len(tokens) = Len(Out) + Len(prompt)
          /\ \A i \in 1..(Len(Out) + Len(prompt)) :
               tokens[i] = IF i <= Len(Out) THEN Out[i] ELSE prompt[i - Len(Out)]
      BY ONLY <3>1, ConcatProperties
    <3>3. /\ Len(Out) + 1 \in 1..(Len(Out) + Len(prompt)) /\ ~ (Len(Out) + 1 <= Len(Out))
          /\ Len(Out) + 2 \in 1..(Len(Out) + Len(prompt)) /\ ~ (Len(Out) + 2 <= Len(Out))
          /\ (Len(Out) + 1) - Len(Out) = 1 /\ (Len(Out) + 2) - Len(Out) = 2
      BY ONLY <3>1
    <3>4. \A i \in 1..Len(Out) : tokens[i] = Out[i]
      BY ONLY <3>1, <3>2
    <3> QED BY <3>1, <3>2, <3>3, <3>4 DEF prompt
  <2>3. \A i \in 1..(Len(tokens) - 1) : tokens[i].kind \in {"text", "stem"}
    <3> TAKE i \in 1..(Len(tokens) - 1)
    <3>1. i \in 1..Len(Out) \/ i = Len(Out) + 1
      BY ONLY <1>1, <2>2
    <3> QED BY ONLY <1>1, <2>1, <2>2, <3>1
  <2>4. tokens[Len(tokens)].kind = mode /\ Awaits(mode, dev')
    BY <1>0, <1>4, <2>1, <2>2 DEF Awaits
  <2>5. Len(tokens) >= 2 /\ (Len(Out) = 0 => Len(tokens) <= 2)
    BY ONLY <1>1, <2>2
  <2> QED BY <1>0, <1>1, <1>4, <2>3, <2>4, <2>5
<1> QED BY <1>2, <1>3, <1>4 DEF Hears

LEMMA TurnsHear ==
    ASSUME TypeInv, TurnInv, HearsStep
    PROVE  TurnInv' /\ SendsInTurn
<1>1. PICK tokens \in Seq(TokenSet) : Hears(tokens)
  BY HearsGives
<1>2. /\ typed # <<>> /\ typed' = Tail(typed) /\ wire' = wire \o tokens
      /\ UNCHANGED <<case, pc, k, found, buf, capture>> /\ model' = model
      /\ dev' \notin {"off", "greet"}
  BY <1>1 DEF Hears, model
<1>3. /\ typed \in Seq(Line) /\ wire \in Seq(TokenSet) /\ Len(typed) \in Nat \ {0}
      /\ Len(wire) \in Nat /\ Len(tokens) \in Nat
      /\ k \in Nat /\ model.extra \in Nat
  <2>1. typed \in Seq(Line) /\ wire \in Seq(TokenSet) /\ k \in Nat /\ model.extra \in Nat
    BY ModelIs DEF TypeInv
  <2>2. Len(typed) \in Nat \ {0} /\ Len(wire) \in Nat /\ Len(tokens) \in Nat
    BY <1>2, <2>1
  <2> QED BY <2>1, <2>2
<1>4. /\ typed' \in Seq(Line) /\ Len(typed') = Len(typed) - 1
      /\ \A i \in 1..Len(typed') : typed'[i] = typed[i + 1]
      /\ Head(typed) = typed[1]
  BY <1>2, <1>3, HeadTailProperties
<1>5. Len(wire') = Len(wire) + Len(tokens)
  BY ONLY <1>2, <1>3
<1>6. /\ \A i \in 1..(Len(tokens) - 1) : tokens[i].kind \notin Kind
      /\ Head(typed).kind # "show" => Len(tokens) <= 2
  BY <1>1, AnswerIs
<1>7. OneAtATime'
  <2> SUFFICES ASSUME pc \in Matching \ {"pager"} PROVE OneAtATime'
    BY <1>2 DEF OneAtATime
  <2>1. Len(typed) <= 1 /\ wire = <<>> /\ buf = <<>> /\ found = 0
    BY <1>2 DEF TurnInv, OneAtATime
  <2>2. typed' = <<>>
    BY <1>3, <1>4, <2>1
  <2>3. wire' = tokens
    BY ONLY <1>2, <2>1, tokens \in Seq(TokenSet)
  <2> QED BY <1>2, <1>6, <2>1, <2>2, <2>3 DEF OneAtATime
<1>8. PagerCount'
  <2> SUFFICES ASSUME pc = "pager" PROVE PagerCount'
    BY <1>2 DEF PagerCount
  <2>1. /\ k <= model.extra + 1
        /\ 2 * Len(typed) + Len(wire) <= 2 * (model.extra + 2 - k)
        /\ found # 0 => 2 * Len(typed) + Len(wire) + 2 <= 2 * (model.extra + 2 - k)
        /\ \A i \in 1..Len(typed) : typed[i].kind = "pager"
    BY DEF TurnInv, PagerCount
  <2>2. Len(tokens) <= 2
    BY <1>3, <1>4, <1>6, <2>1
  <2>3. /\ 2 * Len(typed') + Len(wire') <= 2 * (model.extra + 2 - k)
        /\ found # 0 => 2 * Len(typed') + Len(wire') + 2 <= 2 * (model.extra + 2 - k)
    <3> DEFINE left == 2 * (model.extra + 2 - k)
    <3>1. /\ left \in Int /\ 2 * Len(typed) + Len(wire) <= left
          /\ found # 0 => 2 * Len(typed) + Len(wire) + 2 <= left
      BY <1>3, <2>1
    <3> HIDE DEF left
    <3>2. /\ Len(typed') \in Nat /\ Len(wire') \in Nat
          /\ 2 * Len(typed') + Len(wire') + 0 <= 2 * Len(typed) + Len(wire)
      BY ONLY <1>3, <1>4, <1>5, <2>2
    <3>3. /\ 2 * Len(typed') + Len(wire') + 0 <= left
          /\ found # 0 => 2 * Len(typed') + Len(wire') + 0 + 2 <= left
      BY ONLY <1>3, <3>1, <3>2, Fewer
    <3>4. /\ 2 * Len(typed') + Len(wire') <= left
          /\ found # 0 => 2 * Len(typed') + Len(wire') + 2 <= left
      BY ONLY <3>1, <3>2, <3>3
    <3> QED BY <3>4 DEF left
  <2>4. \A i \in 1..Len(typed') : typed'[i].kind = "pager"
    <3>1. ASSUME NEW i \in 1..Len(typed') PROVE i + 1 \in 1..Len(typed)
      BY <1>3, <1>4
    <3> QED BY <1>4, <2>1, <3>1
  <2> QED BY <1>2, <2>1, <2>3, <2>4 DEF PagerCount
<1>9. Greeting'
  BY <1>2 DEF Greeting
<1>10. SendsInTurn
  BY <1>3, <1>4 DEF SendsInTurn
<1> QED BY <1>7, <1>8, <1>9, <1>10 DEF TurnInv

LEMMA TurnsDevice ==
    ASSUME TypeInv, TurnInv, TheDevice
    PROVE  TurnInv' /\ SendsInTurn
<1>1. CASE HearsStep
  BY <1>1, TurnsHear
<1>2. CASE DeviceGreets
  <2>1. /\ dev = "greet" /\ dev' = "shell" /\ UNCHANGED <<progVars, mode, typed>>
        /\ \/ wire' = wire
           \/ model.dis # {} /\ wire' = wire \o Prompt(mode)
    BY <1>2 DEF DeviceGreets, CommandLine, Says
  <2>2. /\ UNCHANGED <<pc, k, found, buf>> /\ model' = model
    BY <2>1 DEF progVars, model
  <2>3. SendsInTurn
    BY <2>1 DEF SendsInTurn, TypeInv
  <2>4. CASE wire' = wire
    BY <2>1, <2>2, <2>3, <2>4 DEF TurnInv, OneAtATime, PagerCount, Greeting
  <2>5. CASE model.dis # {} /\ wire' = wire \o Prompt(mode) /\ pc \in Matching
    <3>1. pc = "command" /\ typed = <<>> /\ wire = <<>> /\ found = 0
      BY <2>1, <2>5 DEF TurnInv, Greeting
    <3>2. mode \in Kind /\ "stem" \notin Kind
      BY <2>5 DEF TypeInv, CaseInv, Kind
    <3>3. /\ Prompt(mode) \in Seq(TokenSet) /\ Len(Prompt(mode)) = 2
          /\ Prompt(mode)[1].kind = "stem"
      BY <3>2, PromptIs
    <3>4. wire' = Prompt(mode)
      BY ONLY <2>5, <3>1, <3>3
    <3>5. \A i \in 1..(Len(wire') - 1) : wire'[i].kind \notin Kind
      <4>1. Len(wire') = 2 /\ wire'[1].kind = "stem"
        BY <3>3, <3>4
      <4>2. 1..(Len(wire') - 1) = {1}
        BY ONLY <4>1
      <4> QED BY ONLY <3>2, <4>1, <4>2
    <3> QED BY <2>1, <2>2, <2>3, <3>1, <3>5
            DEF TurnInv, OneAtATime, PagerCount, Greeting, Matching
  <2>6. CASE pc \notin Matching
    BY <2>1, <2>2, <2>3, <2>6 DEF TurnInv, OneAtATime, PagerCount, Greeting, Matching
  <2> QED BY <2>1, <2>4, <2>5, <2>6
<1>3. CASE DeviceHangsUp
  <2>1. /\ dev' = "closed" /\ UNCHANGED <<case, pc, k, found, buf, wire, typed>>
        /\ model' = model
    BY <1>3 DEF DeviceHangsUp, progVars, model
  <2> QED BY <2>1 DEF TurnInv, OneAtATime, PagerCount, Greeting, SendsInTurn, TypeInv
<1> QED BY <1>1, <1>2, <1>3 DEF TheDevice, HearsStep

LEMMA StartStep ==
    ASSUME TypeInv, StartInv, Next
    PROVE  StartInv'
<1>0. CaseInv
  BY DEF TypeInv
<1>1. CASE OpenNext
  <2>1. /\ pc = "open" /\ case.transports \in Seq(Transport) /\ case.transports # <<>>
        /\ case'.transports = Tail(case.transports) /\ model' = model
    BY <1>0, <1>1 DEF OpenNext, CaseInv, CaseRecord, model
  <2>2. StartsWell(model, case.transports)
    BY <2>1 DEF StartInv
  <2>3. ASSUME NEW i \in 1..Len(Tail(case.transports))
        PROVE  /\ Tail(case.transports)[i] = case.transports[i + 1]
               /\ i + 1 \in 1..Len(case.transports)
    BY <2>1
  <2>4. StartsWell(model, Tail(case.transports))
    BY <2>2, <2>3 DEF StartsWell
  <2> QED BY <2>1, <2>4 DEF StartInv
<1>2. ASSUME model' = model, pc' # "open" PROVE StartInv'
  BY <1>2 DEF StartInv
<1>3. ASSUME UNCHANGED <<case, pc>> PROVE StartInv'
  BY <1>3 DEF StartInv, model
<1>4. CASE Open
  <2>1. NextIs(Login(Head(case.transports) = "ssh"), 1)
    BY <1>0, <1>4, LoginIs DEF Open, CaseInv
  <2> QED BY <1>2, <1>4, <2>1 DEF Open, Goto, NextIs, model
<1>5. CASE EarlyStep
  <2>1. PICK next, n : NextIs(next, n) /\ Goto(next, n) /\ UNCHANGED case
    BY <1>5, EarlyGoes
  <2> QED BY <1>2, <2>1 DEF Goto, NextIs, model
<1>6. CASE CommandDone \/ ReadEOF \/ PagerOff
  <2>1. k + 1 \in Nat \ {0} /\ 1 \in Nat \ {0}
    BY DEF TypeInv
  <2>2. NextIs(Commands(k + 1), k + 1) /\ NextIs(Commands(1), 1)
    BY <1>0, <2>1, CommandsAre
  <2>3. case' = case /\ pc' # "open"
    BY <1>6, <2>2 DEF CommandDone, ReadEOF, PagerOff, Goto, NextIs
  <2> QED BY <1>2, <2>3 DEF model
<1>7. CASE OpenFails \/ TimesOut \/ SaveCommit
  BY <1>2, <1>7 DEF OpenFails, TimesOut, SaveCommit, model
<1>8. CASE (\E n \in 1..Len(wire) : Read(n)) \/ TheDevice
  BY <1>3, <1>8 DEF Read, TheDevice, DeviceGreets, DeviceAsks, DeviceChecks, DeviceKey,
     DeviceEnables, DeviceChecksEnable, DeviceAnswers, DeviceHangsUp, DeviceHears, progVars
<1> QED BY <1>1, <1>4, <1>5, <1>6, <1>7, <1>8 DEF Next, Fetch, EarlyStep

LEMMA TurnsInit ==
    ASSUME StartsInStep, Init
    PROVE  StartInv /\ TurnInv
<1>1. PICK c \in Case, echo \in BOOLEAN, asks \in {"user", "pass", "none"} :
        case = [model |-> c.model, transports |-> c.transports, echo |-> echo,
                asks |-> asks]
  BY DEF Init
<1>2. model = c.model /\ case.transports = c.transports
  BY <1>1 DEF model
<1>3. StartInv
  BY <1>2 DEF StartsInStep, StartInv
<1>4. TurnInv
  BY DEF Init, TurnInv, OneAtATime, PagerCount, Greeting, Matching
<1> QED BY <1>3, <1>4

LEMMA TurnsStep ==
    ASSUME TypeInv, StartInv, TurnInv, [Next]_vars
    PROVE  StartInv' /\ TurnInv' /\ (Next => SendsInTurn)
<1>1. CASE UNCHANGED vars /\ ~ Next
  BY <1>1 DEF vars, StartInv, TurnInv, OneAtATime, PagerCount, Greeting, model
<1>2. CASE Next
  BY <1>2, StartStep, TurnsFetch, TurnsDevice DEF Next
<1> QED BY <1>1, <1>2

\* fetch and the device take turns: a line is sent when the device has read the one
\* before and fetch all that the device said, whatever it says, for any model that
\* starts so.
THEOREM TakesTurns == StartsInStep => (Spec => InStep)
<1> SUFFICES ASSUME StartsInStep PROVE Spec => InStep
  OBVIOUS
<1>1. Init => TypeInv /\ StartInv /\ TurnInv
  BY InitType, TurnsInit
<1>2. TypeInv /\ StartInv /\ TurnInv /\ [Next]_vars
        => TypeInv' /\ StartInv' /\ TurnInv'
  BY TypeStep, TurnsStep
<1>3. TypeInv /\ StartInv /\ TurnInv /\ [Next]_vars => [SendsInTurn]_vars
  BY TurnsStep
<1>4. [SendsInTurn]_vars
        => [Len(typed') > Len(typed) => typed = <<>> /\ (wire = <<>> \/ pc = "open")]_vars
  BY DEF SendsInTurn
<1> QED BY <1>1, <1>2, <1>3, <1>4, PTL DEF Spec, InStep

------------------------------------------------------------------------------
(* Secrets go where they were asked for *)

\* Once a command prompt has been seen no secret is sent.
LEMMA AfterPrompt ==
    ASSUME CaseInv, NEW next, NEW n, NextIs(next, n),
           AtPrompt(next) \/ \E i \in Nat \ {0} : next = Commands(i)
    PROVE  /\ next.pc \in {"enable", "pager", "command", "save"}
           /\ next.say # <<>> => Head(next.say).kind \in {"enter", "pager", "show"}
           /\ \A i \in 1..Len(next.say) : next.say[i].kind \in {"enter", "pager", "show"}
           /\ (next.pc = "pager" /\ \A i \in 1..Len(next.say) : next.say[i].kind = "pager")
              \/ Len(next.say) <= 1
<1>1. CASE next = [pc |-> "enable", say |-> Word("enter")]
  <2>1. next.pc = "enable" /\ next.say = Word("enter")
    BY <1>1
  <2>2. /\ Len(Word("enter")) = 1 /\ Word("enter")[1].kind = "enter"
        /\ Head(Word("enter")).kind = "enter"
    BY DEF Word, Token
  <2> DEFINE say == next.say
  <2>3. Len(say) = 1 /\ say[1].kind = "enter" /\ Head(say).kind = "enter"
    BY <2>1, <2>2
  <2> HIDE DEF say
  <2>4. \A i \in 1..Len(say) : say[i].kind = "enter"
    BY ONLY <2>3
  <2>5. Len(say) <= 1
    BY ONLY <2>3
  <2> QED BY <2>1, <2>3, <2>4, <2>5 DEF say
<1>2. CASE next.pc = "pager"
  <2>1. /\ next.say \in Seq(Line) /\ Len(next.say) = Prompts
        /\ \A i \in 1..Len(next.say) : next.say[i].kind = "pager"
    BY <1>2 DEF NextIs
  <2>2. next.say # <<>> => Head(next.say) = next.say[1] /\ 1 \in 1..Len(next.say)
    BY ONLY <2>1
  <2> QED BY <1>2, <2>1, <2>2
<1>3. ASSUME NEW i \in Nat \ {0}, next = Commands(i)
      PROVE  /\ next.pc \in {"command", "save"}
             /\ \/ next.say = <<>>
                \/ next.say = <<Token("show", i)>>
  <2>1. \/ Commands(i) = [pc |-> "save", say |-> <<>>]
        \/ Commands(i) = [pc |-> "command", say |-> <<>>]
        \/ Commands(i) = [pc |-> "command", say |-> <<Token("show", i)>>]
    BY CommandsAre
  <2> QED BY <1>3, <2>1
<1>4. CASE \E i \in Nat \ {0} : next = Commands(i)
  <2>1. PICK i \in Nat \ {0} : next = Commands(i)
    BY <1>4
  <2>2. Token("show", i).kind = "show"
    BY DEF Token
  <2>3. Len(<<>>) = 0 /\ \A t : Len(<<t>>) = 1 /\ Head(<<t>>) = t /\ <<t>>[1] = t
    OBVIOUS
  <2>4. CASE next.say = <<>>
    <3>1. next.pc \in {"command", "save"} /\ Len(next.say) = 0
      BY <1>3, <2>1, <2>3, <2>4
    <3> QED BY ONLY <2>4, <3>1
  <2>5. CASE next.say = <<Token("show", i)>>
    <3> DEFINE t == Token("show", i)
    <3>1. t.kind = "show" /\ Len(<<t>>) = 1 /\ Head(<<t>>) = t /\ <<t>>[1] = t
      BY <2>2, <2>3
    <3>2. next.say = <<t>> /\ next.pc \in {"command", "save"}
      BY <1>3, <2>1, <2>5
    <3> HIDE DEF t
    <3> QED BY ONLY <3>1, <3>2
  <2> QED BY <1>3, <2>1, <2>4, <2>5
<1>5. Commands(1) = next => \E i \in Nat \ {0} : next = Commands(i)
  OBVIOUS
<1> QED BY <1>1, <1>2, <1>4, <1>5 DEF AtPrompt

\* What has matched tells what the device waits for.
LEMMA HeardFrom ==
    ASSUME TypeInv, AskedInv, pc \in Early, found \in 1..Len(Patterns), dev # "closed"
    PROVE  /\ SawPrompt => dev = "shell"
           /\ Patterns[found] \subseteq {"pass"} => dev \in {"pass", "enablePass"}
<1>1. \E kind \in Patterns[found] : Awaits(kind, dev)
  BY DEF AskedInv
<1> QED BY <1>1, AwaitsAre DEF SawPrompt

LEMMA AskedEarly ==
    ASSUME TypeInv, TurnInv, AskedInv, SecretInv, EarlyStep
    PROVE  AskedInv' /\ SecretInv'
<1>1. PICK next, n : /\ n \in Nat /\ NextIs(next, n) /\ Goto(next, n)
                     /\ UNCHANGED <<case, capture, devVars>>
                     /\ pc \in Early /\ found \in 1..Len(Patterns)
                     /\ Turn(next)
  BY EarlyGoes
<1>2. CaseInv /\ pc \in Matching \ {"pager"} /\ found # 0
  BY <1>1, PatternsCount DEF TypeInv, Early, Matching
<1>3. typed = <<>> /\ wire = <<>> /\ next.say \in Seq(Line)
  BY <1>1, <1>2 DEF TurnInv, OneAtATime, NextIs
<1>4. /\ pc' = next.pc /\ typed' = next.say /\ wire' = <<>> /\ found' = 0 /\ dev' = dev
  BY <1>1, <1>3 DEF Goto, devVars
<1>5. /\ dev \notin {"off", "greet"}
      /\ pc \in {"login", "password", "post", "prompt", "enable"} => dev # "enablePass"
      /\ pc = "enable2" => dev \in {"shell", "enablePass", "closed"}
      /\ SawPrompt => dev \in {"shell", "closed"}
      /\ Patterns[found] \subseteq {"pass"} => dev \in {"pass", "enablePass", "closed"}
  BY <1>1, HeardFrom DEF AskedInv
<1>6. ASSUME NEW kind
      PROVE  /\ Len(Word(kind)) = 1 /\ Head(Word(kind)).kind = kind
             /\ Word(kind)[1].kind = kind
  BY DEF Word, Token
<1>7. ASSUME dev \notin {"off", "greet"},
             pc' \in {"login", "password", "post", "prompt", "enable"} =>
               /\ dev # "enablePass"
               /\ \A i \in 1..Len(typed') : typed'[i].kind \notin {"enable", "enablePassword"},
             pc' = "enable2" => dev \in {"shell", "enablePass", "closed"},
             typed' # <<>> /\ dev # "closed" =>
               /\ Head(typed').kind = "password" => dev = "pass"
               /\ Head(typed').kind = "enablePassword" => dev = "enablePass",
             Len(typed') <= 1 \/ \A i \in 1..Len(typed') : typed'[i].kind = "pager"
      PROVE  AskedInv' /\ SecretInv'
  BY <1>4, <1>7 DEF AskedInv, SecretInv, SecretsOnlyWhenAsked
<1>17. ASSUME NEW kind \in LineKind, next.say = Word(kind),
              next.pc \in {"password", "prompt", "post"} =>
                dev # "enablePass" /\ kind \notin {"enable", "enablePassword"},
              next.pc \notin {"login", "enable"},
              next.pc = "enable2" => dev \in {"shell", "enablePass", "closed"},
              kind = "password" => dev \in {"pass", "closed"},
              kind = "enablePassword" => dev \in {"enablePass", "closed"}
       PROVE  AskedInv' /\ SecretInv'
  <2>1. Len(typed') = 1 /\ Head(typed').kind = kind /\ typed'[1].kind = kind
    BY <1>4, <1>6, <1>17
  <2>2. \A i \in 1..Len(typed') : typed'[i].kind = kind
    BY ONLY <2>1
  <2>3. Len(typed') <= 1
    BY ONLY <2>1
  <2>4. /\ pc' \in {"login", "password", "post", "prompt", "enable"} =>
             /\ dev # "enablePass"
             /\ \A i \in 1..Len(typed') : typed'[i].kind \notin {"enable", "enablePassword"}
        /\ pc' = "enable2" => dev \in {"shell", "enablePass", "closed"}
    BY <1>4, <1>17, <2>2
  <2>5. typed' # <<>> /\ dev # "closed" =>
          /\ Head(typed').kind = "password" => dev = "pass"
          /\ Head(typed').kind = "enablePassword" => dev = "enablePass"
    BY <1>17, <2>1
  <2> QED BY <1>5, <1>7, <2>3, <2>4, <2>5
<1>8. CASE pc = "login" /\ next = [pc |-> "password", say |-> Word("username")]
  <2>1. next.pc = "password" /\ next.say = Word("username")
    BY <1>8
  <2> QED BY <1>5, <1>17, <1>8, <2>1 DEF LineKind
<1>9. CASE /\ pc \in {"login", "password"} /\ Patterns[found] = model.pass
           /\ next.pc \in {"prompt", "post"} /\ next.say = Word("password")
  <2>1. dev \in {"pass", "closed"}
    <3>1. model.pass \subseteq {"pass"}
      BY <1>2, ModelIs
    <3> QED BY <1>5, <1>9, <3>1
  <2> QED BY <1>5, <1>17, <1>9, <2>1 DEF LineKind
<1>10. CASE pc = "post" /\ next = [pc |-> "prompt", say |-> Word("key")]
  <2>1. next.pc = "prompt" /\ next.say = Word("key")
    BY <1>10
  <2> QED BY <1>5, <1>17, <1>10, <2>1 DEF LineKind
<1>11. CASE SawPrompt /\ AtPrompt(next)
  <2>1. /\ next.pc \in {"enable", "pager", "command", "save"}
        /\ next.say # <<>> => Head(next.say).kind \in {"enter", "pager", "show"}
        /\ \A i \in 1..Len(next.say) : next.say[i].kind \in {"enter", "pager", "show"}
        /\ (\A i \in 1..Len(next.say) : next.say[i].kind = "pager") \/ Len(next.say) <= 1
    BY <1>1, <1>2, <1>11, AfterPrompt
  <2> QED BY <1>4, <1>5, <1>7, <1>11, <2>1
<1>12. CASE /\ pc = "enable" /\ SawPrompt
            /\ next = [pc |-> "enable2", say |-> Word("enable")]
  <2>1. next.pc = "enable2" /\ next.say = Word("enable")
    BY <1>12
  <2> QED BY <1>5, <1>17, <1>12, <2>1 DEF LineKind
<1>13. CASE /\ pc = "enable2" /\ Patterns[found] \subseteq {"pass"}
            /\ next = [pc |-> "enable3", say |-> Word("enablePassword")]
  <2>1. next.pc = "enable3" /\ next.say = Word("enablePassword")
    BY <1>13
  <2> QED BY <1>5, <1>17, <1>13, <2>1 DEF LineKind
<1> QED BY <1>1, <1>8, <1>9, <1>10, <1>11, <1>12, <1>13 DEF Turn

\* What a command prompt leads to is no secret, whatever the device waits for.
LEMMA NoSecret ==
    ASSUME NEW next, typed' = next.say, pc' = next.pc,
           next.pc \in {"pager", "command", "save"},
           next.say # <<>> => Head(next.say).kind \in {"enter", "pager", "show"},
           (\A i \in 1..Len(next.say) : next.say[i].kind = "pager") \/ Len(next.say) <= 1
    PROVE  AskedInv' /\ SecretInv'
<1>1. AskedInv'
  BY DEF AskedInv, Early
<1>2. SecretInv'
  BY DEF SecretInv, SecretsOnlyWhenAsked
<1> QED BY <1>1, <1>2

LEMMA AskedOpen ==
    ASSUME TypeInv, StartInv, Open
    PROVE  AskedInv' /\ SecretInv'
<1> DEFINE logged == Head(case.transports) = "ssh"
           next == Login(logged)
<1>1. /\ pc = "open" /\ Goto(next, 1) /\ case.transports # <<>>
      /\ dev' = IF logged \/ case.asks = "none" THEN "greet" ELSE case.asks
      /\ wire' = IF logged \/ case.asks = "none" THEN <<>>
                 ELSE <<Token("text", 0)>> \o Prompt(case.asks)
  BY DEF Open
<1>2. /\ CaseInv /\ typed = <<>> /\ StartsWell(model, case.transports)
      /\ model.login => model.pass # {}
      /\ case.transports \in Seq(Transport)
      /\ case.asks \in {"user", "pass", "none"} /\ (case.asks = "none" <=> ~ model.login)
  BY <1>1 DEF TypeInv, CaseInv, CaseRecord, StartInv
<1>3. NextIs(next, 1)
  BY <1>2, LoginIs
<1>4. pc' = next.pc /\ typed' = next.say /\ found' = 0
  BY <1>1, <1>2, <1>3 DEF Goto, NextIs
<1>5. CASE model.login /\ ~ logged
  <2>1. next = [pc |-> "login", say |-> <<>>]
    BY <1>2, <1>5, LoginIs
  <2>2. pc' = "login" /\ typed' = <<>>
    BY <1>4, <2>1
  <2>3. /\ dev' = case.asks /\ case.asks \in {"user", "pass"} /\ case.asks \in Kind
        /\ wire' = <<Token("text", 0)>> \o Prompt(case.asks)
    BY <1>1, <1>2, <1>5 DEF Kind
  <2>4. /\ <<Token("text", 0)>> \in Seq(TokenSet) /\ Len(<<Token("text", 0)>>) = 1
        /\ Prompt(case.asks) \in Seq(TokenSet) /\ Len(Prompt(case.asks)) = 2
        /\ Prompt(case.asks)[2].kind = case.asks
    <3>1. <<Token("text", 0)>> \in Seq(TokenSet) /\ Len(<<Token("text", 0)>>) = 1
      BY DEF Token, TokenSet, TokenKind
    <3> QED BY <2>3, <3>1, PromptIs
  <2>5. Len(wire') = 3 /\ wire'[3].kind = case.asks
    BY ONLY <2>3, <2>4
  <2>6. Awaits(case.asks, dev')
    <3>1. CASE case.asks = "user"
      BY <2>3, <3>1, AwaitsAre
    <3>2. CASE case.asks = "pass"
      BY <2>3, <3>2, AwaitsAre
    <3> QED BY <2>3, <3>1, <3>2
  <2>7. AskedInv'
    BY <1>4, <2>2, <2>3, <2>5, <2>6 DEF AskedInv, Early
  <2>8. SecretInv'
    BY <2>2 DEF SecretInv, SecretsOnlyWhenAsked
  <2> QED BY <2>7, <2>8
<1>6. CASE ~ (model.login /\ ~ logged)
  <2>1. next = Enable(FALSE)
    BY <1>2, <1>6, LoginIs
  <2>2. ~ model.enabledMode
    <3>1. 1 \in 1..Len(case.transports) /\ Head(case.transports) = case.transports[1]
      BY <1>1, <1>2
    <3> QED BY <1>2, <1>6, <3>1 DEF StartsWell, WaitsFirst, CaseInv
  <2>3. next = PagingOff /\ AtPrompt(next)
    BY <1>2, <2>1, <2>2, EnableIs, EnableSteps
  <2>4. PagingOff.pc \in {"pager", "command", "save"}
    BY <1>2, PagingOffIs, CommandsAre
  <2> HIDE DEF next
  <2>5. /\ next.pc \in {"pager", "command", "save"}
        /\ next.say # <<>> => Head(next.say).kind \in {"enter", "pager", "show"}
        /\ (\A i \in 1..Len(next.say) : next.say[i].kind = "pager") \/ Len(next.say) <= 1
    BY <1>2, <1>3, <2>3, <2>4, AfterPrompt
  <2> QED BY <1>4, <2>5, NoSecret
<1> QED BY <1>5, <1>6

LEMMA AskedFetch ==
    ASSUME TypeInv, StartInv, TurnInv, AskedInv, SecretInv, Fetch
    PROVE  AskedInv' /\ SecretInv'
<1>0. /\ CaseInv /\ typed \in Seq(Line) /\ wire \in Seq(TokenSet) /\ k + 1 \in Nat \ {0}
      /\ 1 \in Nat \ {0}
  BY DEF TypeInv
<1>1. ASSUME UNCHANGED <<dev, typed>>, pc' \notin Early PROVE AskedInv' /\ SecretInv'
  BY <1>1 DEF AskedInv, SecretInv, SecretsOnlyWhenAsked, Early
<1>2. CASE OpenNext \/ OpenFails \/ TimesOut \/ SaveCommit
  BY <1>1, <1>2 DEF OpenNext, OpenFails, TimesOut, SaveCommit, Early, devVars
<1>3. ASSUME NEW i \in Nat \ {0}, Goto(Commands(i), i), typed = <<>>
      PROVE  AskedInv' /\ SecretInv'
  <2> DEFINE next == Commands(i)
  <2>1. NextIs(next, i) /\ next.pc \in {"command", "save"} /\ Goto(next, i)
        /\ (\E j \in Nat \ {0} : next = Commands(j))
    BY <1>0, <1>3, CommandsAre
  <2> HIDE DEF next
  <2>2. /\ next.say # <<>> => Head(next.say).kind \in {"enter", "pager", "show"}
        /\ (\A j \in 1..Len(next.say) : next.say[j].kind = "pager") \/ Len(next.say) <= 1
    BY <1>0, <2>1, AfterPrompt
  <2>3. pc' = next.pc /\ typed' = next.say
    BY <1>3, <2>1 DEF Goto, NextIs
  <2> QED BY <2>1, <2>2, <2>3, NoSecret
<1>4. CASE CommandDone
  <2>1. typed = <<>>
    BY <1>4 DEF CommandDone, TurnInv, OneAtATime, TypeInv, Matching
  <2> QED BY <1>0, <1>3, <1>4, <2>1 DEF CommandDone
<1>5. CASE ReadEOF
  <2>1. dev' = dev
    BY <1>5 DEF ReadEOF, devVars
  <2> QED BY <1>1, <1>5, <2>1, LastEOF DEF Early
<1>6. CASE PagerOff
  <2>1. pc = "pager" /\ found # 0 /\ dev' = dev
    BY <1>6 DEF PagerOff, TypeInv, devVars
  <2>2. CASE Goto([pc |-> "pager", say |-> <<>>], k + 1)
    <3>1. pc' = "pager" /\ typed' = typed \o <<>>
      BY <2>2 DEF Goto
    <3>2. typed' = typed
      BY <1>0, <3>1
    <3> QED BY <1>1, <2>1, <3>1, <3>2 DEF Early
  <2>3. CASE ~ (k <= model.extra) /\ Goto(Commands(1), 1)
    <3>1. k > model.extra
      BY <1>0, <2>3, ModelIs DEF TypeInv
    <3>2. typed = <<>>
      BY <2>1, <3>1, PagerDone
    <3> QED BY <1>0, <1>3, <2>3, <3>2
  <2> QED BY <1>6, <2>2, <2>3 DEF PagerOff
<1>7. ASSUME NEW n \in 1..Len(wire), Read(n) PROVE AskedInv' /\ SecretInv'
  <2> DEFINE read == SubSeq(wire, 1, n)
  <2>1. /\ pc \in Matching /\ found = 0 /\ found' = Match(read)
        /\ wire' = SubSeq(wire, n + 1, Len(wire))
        /\ UNCHANGED <<case, pc, k, capture, dev, mode, typed>> /\ Patterns' = Patterns
    BY <1>7 DEF Read, Looking, Patterns, CommandPrompt, model
  <2>2. SecretInv'
    BY <2>1 DEF SecretInv, SecretsOnlyWhenAsked
  <2>3. CASE pc \notin Early
    BY <1>1, <2>1, <2>3
  <2>4. CASE pc \in Early /\ dev = "closed"
    BY <2>1, <2>2, <2>4 DEF AskedInv
  <2>5. CASE pc \in Early /\ dev # "closed"
    <3>1. /\ read \in Seq(TokenSet) /\ Len(read) = n /\ \A i \in 1..n : read[i] = wire[i]
          /\ wire' \in Seq(TokenSet) /\ Len(wire') = Len(wire) - n
          /\ \A i \in 1..Len(wire') : wire'[i] = wire[n + i]
      <4>1. buf \in Seq(TokenSet) /\ wire \in Seq(TokenSet) /\ n \in 1..Len(wire)
        BY <1>0, <1>7 DEF TypeInv
      <4>2. wire' = SubSeq(wire, n + 1, Len(wire))
        BY <2>1
      <4> QED BY ONLY <4>1, <4>2, SplitWire
    <3>2. Len(wire) \in Nat /\ Len(wire) > 0 /\ wire # <<>>
      BY <1>0, <1>7
    <3>3. wire' # <<>> => wire'[Len(wire')] = wire[Len(wire)]
      <4> SUFFICES ASSUME wire' # <<>> PROVE wire'[Len(wire')] = wire[Len(wire)]
        OBVIOUS
      <4>1. Len(wire') \in 1..Len(wire') /\ n + Len(wire') = Len(wire)
        BY <1>7, <3>1, <3>2
      <4> QED BY <3>1, <4>1
    <3>4. wire[Len(wire)].kind \in Kind => Awaits(wire[Len(wire)].kind, dev)
      BY <2>5, <3>2 DEF AskedInv
    <3>5. found' # 0 => \E kind \in Patterns[found'] : Awaits(kind, dev)
      <4> SUFFICES ASSUME found' # 0 PROVE \E kind \in Patterns[found'] : Awaits(kind, dev)
        OBVIOUS
      <4>1. /\ found' \in 0..Len(Patterns)
            /\ \E i \in 2..n : read[i].kind \in Patterns[found']
        BY <2>1, <3>1, MatchIs
      <4>2. PICK i \in 2..n : read[i].kind \in Patterns[found']
        BY <4>1
      <4>3. Patterns[found'] \subseteq Kind
        BY <1>0, <4>1, PatternsAre, PatternsCount
      <4>4. wire[i].kind \in Patterns[found'] /\ wire[i].kind \in Kind
        BY <3>1, <4>2, <4>3
      <4>5. \A j \in 1..(Len(wire) - 1) : wire[j].kind \notin Kind
        BY <2>5 DEF TurnInv, OneAtATime, Early, Matching
      <4>6. i = Len(wire)
        BY <1>7, <3>2, <4>4, <4>5
      <4> QED BY <3>4, <4>4, <4>6
    <3> QED BY <2>1, <2>2, <2>5, <3>3, <3>4, <3>5 DEF AskedInv
  <2> QED BY <2>3, <2>4, <2>5
<1> QED BY <1>2, <1>4, <1>5, <1>6, <1>7, AskedOpen, AskedEarly DEF Fetch, EarlyStep

LEMMA AskedDevice ==
    ASSUME TypeInv, TurnInv, AskedInv, SecretInv, TheDevice
    PROVE  AskedInv' /\ SecretInv'
<1>0. typed \in Seq(Line)
  BY DEF TypeInv
<1>1. CASE HearsStep
  <2>1. PICK tokens \in Seq(TokenSet) : Hears(tokens)
    BY <1>1, HearsGives
  <2>2. /\ typed # <<>> /\ typed' = Tail(typed) /\ wire' = wire \o tokens
        /\ UNCHANGED <<case, pc, k, found, buf, capture>> /\ model' = model
        /\ dev' \notin {"off", "greet"}
        /\ dev' = "enablePass" => Head(typed).kind = "enable"
        /\ dev \in {"shell", "enablePass"} => dev' \in {"shell", "enablePass", "closed"}
    BY <2>1 DEF Hears, model
  <2>3. /\ Len(typed) \in Nat \ {0} /\ Head(typed) = typed[1]
        /\ Len(typed') = Len(typed) - 1
        /\ \A i \in 1..Len(typed') : typed'[i] = typed[i + 1] /\ i + 1 \in 1..Len(typed)
        /\ typed' # <<>> => Head(typed') = typed'[1] /\ Len(typed') >= 1
    <3>1. /\ typed' \in Seq(Line) /\ Len(typed') = Len(typed) - 1
          /\ \A i \in 1..Len(typed') : typed'[i] = typed[i + 1]
      BY <1>0, <2>2, HeadTailProperties
    <3> QED BY <1>0, <2>2, <3>1
  <2>4. SecretInv'
    <3>1. CASE Len(typed) <= 1
      BY <2>3, <3>1 DEF SecretInv, SecretsOnlyWhenAsked
    <3>2. CASE \A i \in 1..Len(typed) : typed[i].kind = "pager"
      <4>1. \A i \in 1..Len(typed') : typed'[i].kind = "pager"
        BY <2>3, <3>2
      <4>2. typed' # <<>> => Head(typed').kind = "pager"
        BY <2>3, <4>1
      <4> QED BY <4>1, <4>2 DEF SecretInv, SecretsOnlyWhenAsked
    <3> QED BY <3>1, <3>2 DEF SecretInv
  <2>5. ASSUME pc \in Early
        PROVE  /\ found = 0
               /\ dev' # "closed" /\ wire' # <<>> /\ wire'[Len(wire')].kind \in Kind
                    => Awaits(wire'[Len(wire')].kind, dev')
    <3>1. wire = <<>> /\ found = 0
      BY <2>2, <2>5 DEF TurnInv, OneAtATime, Early, Matching
    <3>2. wire' = tokens
      BY <2>2, <3>1
    <3>3. \/ Awaits(tokens[Len(tokens)].kind, dev')
          \/ dev' = "closed"
      BY <2>1, AnswerIs
    <3> QED BY <3>1, <3>2, <3>3
  <2>6. ASSUME pc \in {"login", "password", "post", "prompt", "enable"}
        PROVE  /\ dev' # "enablePass"
               /\ \A i \in 1..Len(typed') : typed'[i].kind \notin {"enable", "enablePassword"}
    <3>1. \A i \in 1..Len(typed) : typed[i].kind \notin {"enable", "enablePassword"}
      BY <2>6 DEF AskedInv
    <3> QED BY <2>2, <2>3, <3>1
  <2>7. ASSUME pc = "enable2" PROVE dev' \in {"shell", "enablePass", "closed"}
    <3>1. dev \in {"shell", "enablePass", "closed"}
      BY <2>7 DEF AskedInv
    <3>2. dev # "closed"
      BY <1>1 DEF HearsStep, DeviceAsks, DeviceChecks, DeviceKey, DeviceEnables,
         DeviceChecksEnable, DeviceAnswers
    <3> QED BY <2>2, <3>1, <3>2
  <2>8. AskedInv'
    BY <2>2, <2>5, <2>6, <2>7 DEF AskedInv
  <2> QED BY <2>4, <2>8
<1>2. CASE DeviceGreets
  <2>1. dev = "greet" /\ dev' = "shell" /\ UNCHANGED <<pc, found, typed>>
    BY <1>2 DEF DeviceGreets, CommandLine, progVars
  <2>2. pc \notin Early
    BY <2>1 DEF AskedInv
  <2> QED BY <2>1, <2>2 DEF AskedInv, SecretInv, SecretsOnlyWhenAsked, Early
<1>3. CASE DeviceHangsUp
  <2>1. /\ dev' = "closed" /\ UNCHANGED <<pc, found, typed>>
    BY <1>3 DEF DeviceHangsUp, progVars
  <2> QED BY <2>1 DEF AskedInv, SecretInv, SecretsOnlyWhenAsked
<1> QED BY <1>1, <1>2, <1>3 DEF TheDevice, HearsStep

LEMMA AskedInit == Init => AskedInv /\ SecretInv
BY DEF Init, AskedInv, SecretInv, SecretsOnlyWhenAsked, Early

LEMMA AskedStep ==
    ASSUME TypeInv, StartInv, TurnInv, AskedInv, SecretInv, [Next]_vars
    PROVE  AskedInv' /\ SecretInv'
<1>1. CASE Next
  BY <1>1, AskedFetch, AskedDevice DEF Next
<1>2. CASE UNCHANGED vars
  <2>1. UNCHANGED <<pc, found, dev, wire, typed>> /\ Patterns' = Patterns
    BY <1>2 DEF vars, Patterns, CommandPrompt, model
  <2> QED BY <2>1 DEF AskedInv, SecretInv, SecretsOnlyWhenAsked
<1> QED BY <1>1, <1>2

\* A password reaches a device only as the answer to its question, for any model that
\* starts in step, whatever the device says and however its words are cut.
THEOREM SecretsKept == StartsInStep => (Spec => []SecretsOnlyWhenAsked)
<1> SUFFICES ASSUME StartsInStep PROVE Spec => []SecretsOnlyWhenAsked
  OBVIOUS
<1> DEFINE Inv == TypeInv /\ StartInv /\ TurnInv /\ AskedInv /\ SecretInv
<1>1. Init => Inv
  BY InitType, TurnsInit, AskedInit
<1>2. Inv /\ [Next]_vars => Inv'
  BY TypeStep, TurnsStep, AskedStep
<1>3. Inv => SecretsOnlyWhenAsked
  BY DEF SecretInv
<1> QED BY <1>1, <1>2, <1>3, PTL DEF Spec

------------------------------------------------------------------------------
(* Captures *)

LEMMA AnswerGood ==
    ASSUME NEW i \in Nat, NEW s \in AnswerTo(i)
    PROVE  Good(s, i)
<1>1. /\ Output(i) \in Seq(TokenSet) /\ Len(Output(i)) = Lines /\ Lines \in Nat
      /\ \A j \in 1..Lines : Output(i)[j].kind = "text" /\ Output(i)[j].of = i
  <2>1. Token("text", i).kind = "text" /\ Token("text", i).of = i
    BY DEF Token
  <2>2. /\ Output(i) \in Seq(TokenSet) /\ Len(Output(i)) = Lines
        /\ \A j \in 1..Lines : Output(i)[j] = Token("text", i)
    BY OutputIs
  <2> QED BY <2>1, <2>2, LinesAssumption
<1>2. CASE model.dis = {} /\ s = Output(i)
  <2>1. \A j : j # i => LinesOf(s, j) = {}
    BY <1>1, <1>2 DEF LinesOf
  <2> QED BY <1>2, <2>1 DEF Good
<1>3. ASSUME NEW kind \in {"dis", "ena"}, s = Output(i) \o Prompt(kind) PROVE Good(s, i)
  <2>1. /\ Prompt(kind) \in Seq(TokenSet) /\ Len(Prompt(kind)) = 2
        /\ Prompt(kind)[1].kind = "stem" /\ Prompt(kind)[2].kind \in {"dis", "ena"}
    <3>1. kind \in Kind
      BY DEF Kind
    <3> QED BY <3>1, PromptIs
  <2> DEFINE out == Output(i)
             prompt == Prompt(kind)
  <2>7. out \in Seq(TokenSet) /\ prompt \in Seq(TokenSet) /\ s = out \o prompt
    BY <1>1, <1>3, <2>1
  <2> HIDE DEF out, prompt
  <2>2. /\ Len(s) = Len(out) + Len(prompt)
        /\ \A j \in 1..(Len(out) + Len(prompt)) :
             s[j] = IF j <= Len(out) THEN out[j] ELSE prompt[j - Len(out)]
    BY <2>7, ConcatProperties
  <2>3. ASSUME NEW j \in 1..Lines
        PROVE  j \in 1..Len(s) /\ s[j].kind = "text" /\ s[j].of = i
    <3>1. Len(out) = Lines /\ Len(prompt) = 2 /\ Lines \in Nat
      BY <1>1, <2>1 DEF out, prompt
    <3>2. j \in 1..(Len(out) + Len(prompt)) /\ j <= Len(out)
      BY ONLY <3>1
    <3>3. s[j] = out[j]
      BY <2>2, <3>2
    <3> QED BY <1>1, <2>2, <3>2, <3>3 DEF out
  <2>4. ASSUME NEW j \in 1..Len(s), j \notin 1..Lines PROVE s[j].kind # "text"
    <3>1. Len(out) = Lines /\ Len(prompt) = 2 /\ Lines \in Nat
      BY <1>1, <2>1 DEF out, prompt
    <3>2. j \in 1..(Len(out) + Len(prompt)) /\ ~ (j <= Len(out)) /\ j - Len(out) \in {1, 2}
      BY ONLY <2>2, <2>4, <3>1
    <3>3. s[j] = prompt[j - Len(out)]
      BY <2>2, <3>2
    <3> QED BY <2>1, <3>2, <3>3 DEF prompt
  <2>5. LinesOf(s, i) = 1..Lines
    BY <2>3, <2>4 DEF LinesOf
  <2>6. \A j : j # i => LinesOf(s, j) = {}
    BY <2>3, <2>4 DEF LinesOf
  <2> QED BY <2>5, <2>6 DEF Good
<1> QED BY <1>2, <1>3 DEF AnswerTo

\* A command starts with nothing read of it.
LEMMA CommandStarts ==
    ASSUME TypeInv, NEW i \in Nat \ {0}, Goto(Commands(i), i), typed = <<>>, wire' = <<>>,
           model' = model
    PROVE  pc' \in {"command", "save"} /\ (pc' = "command" => Answering')
<1>1. \/ Commands(i) = [pc |-> "save", say |-> <<>>]
      \/ /\ model.commands[i] = "wait"
         /\ Commands(i) = [pc |-> "command", say |-> <<>>]
      \/ /\ model.commands[i] = "show"
         /\ Commands(i) = [pc |-> "command", say |-> <<Token("show", i)>>]
  BY CommandsAre DEF TypeInv
<1>2. /\ pc' = Commands(i).pc /\ k' = i /\ buf' = <<>>
      /\ typed' = typed \o Commands(i).say
  BY DEF Goto
<1>3. CASE Commands(i) = [pc |-> "save", say |-> <<>>]
  <2>1. Commands(i).pc = "save"
    BY <1>3
  <2> QED BY <1>2, <2>1
<1>4. CASE model.commands[i] = "wait" /\ Commands(i) = [pc |-> "command", say |-> <<>>]
  <2>1. Commands(i).pc = "command" /\ Commands(i).say = <<>>
    BY <1>4
  <2>2. typed' = <<>>
    BY <1>2, <2>1
  <2>3. HasNoText(<<>>)
    BY DEF HasNoText
  <2>4. HasNoText(buf') /\ HasNoText(wire') /\ model'.commands[k'] = "wait"
    BY <1>2, <1>4, <2>3
  <2> QED BY <1>2, <2>1, <2>2, <2>4 DEF Answering
<1>5. CASE /\ model.commands[i] = "show"
           /\ Commands(i) = [pc |-> "command", say |-> <<Token("show", i)>>]
  <2>1. Commands(i).pc = "command" /\ Commands(i).say = <<Token("show", i)>>
    BY <1>5
  <2>2. typed' = <<Token("show", i)>>
    BY <1>2, <2>1
  <2> QED BY <1>2, <1>5, <2>1, <2>2 DEF Answering
<1> QED BY <1>1, <1>3, <1>4, <1>5

\* The capture of a finished command is good.
LEMMA Kept ==
    ASSUME TypeInv, CaptureInv, pc = "command", Save, model' = model,
           wire = <<>>, typed = <<>> \/ model.dis = {}
    PROVE  (\A i \in 1..Len(capture) : Good(capture[i], i))'
<1>1. /\ k \in 1..Len(model.commands) /\ Len(capture) = k - 1 /\ k \in Nat
      /\ capture \in Seq(Seq(TokenSet)) /\ buf \in Seq(TokenSet)
  BY DEF TypeInv
<1>2. /\ capture' = Append(capture, buf) /\ Len(capture') = k
      /\ \A i \in 1..(k - 1) : capture'[i] = capture[i]
      /\ capture'[k] = buf
  <2>1. capture' = Append(capture, buf)
    BY DEF Save
  <2>2. Len(capture) \in Nat /\ k = Len(capture) + 1
    BY <1>1
  <2> QED BY <1>1, <2>1, <2>2, AppendProperties
<1>3. Good(buf, k)
  <2>1. Answering
    BY DEF CaptureInv
  <2>2. CASE model.commands[k] = "wait" /\ HasNoText(buf)
    BY <2>2 DEF Good, HasNoText, LinesOf
  <2>3. CASE buf = <<>> /\ model.dis = {}
    BY <2>3 DEF Good, LinesOf
  <2>4. CASE buf \o wire \in AnswerTo(k)
    <3>1. buf \o wire = buf
      BY <1>1
    <3> QED BY <1>1, <2>4, <3>1, AnswerGood
  <2> QED BY <2>1, <2>2, <2>3, <2>4 DEF Answering
<1>4. ASSUME NEW i \in 1..Len(capture') PROVE Good(capture'[i], i)
  <2>1. i \in 1..(k - 1) \/ i = k
    BY <1>1, <1>2
  <2>2. i \in 1..(k - 1) => Good(capture[i], i)
    BY <1>1 DEF CaptureInv
  <2> QED BY <1>2, <1>3, <2>1, <2>2
<1>5. ASSUME NEW i \in 1..Len(capture') PROVE Good(capture[i], i)'
  BY <1>4, <1>5 DEF Good, LinesOf
<1> QED BY <1>5

LEMMA CapturesStay ==
    ASSUME CaptureInv, model' = model, capture' = capture
    PROVE  (\A i \in 1..Len(capture) : Good(capture[i], i))'
<1>1. ASSUME NEW i \in 1..Len(capture) PROVE Good(capture[i], i)'
  <2>1. Good(capture[i], i)
    BY <1>1 DEF CaptureInv
  <2> QED BY <2>1 DEF Good, LinesOf
<1> QED BY <1>1

LEMMA JoinNoText ==
    ASSUME NEW s \in Seq(TokenSet), NEW t \in Seq(TokenSet), HasNoText(s), HasNoText(t)
    PROVE  HasNoText(s \o t)
<1>1. /\ Len(s \o t) = Len(s) + Len(t)
      /\ \A i \in 1..(Len(s) + Len(t)) :
           (s \o t)[i] = IF i <= Len(s) THEN s[i] ELSE t[i - Len(s)]
  BY ConcatProperties
<1>2. Len(s) \in Nat /\ Len(t) \in Nat
  OBVIOUS
<1>3. ASSUME NEW i \in 1..(Len(s) + Len(t)) PROVE (s \o t)[i].kind # "text"
  <2>1. CASE i <= Len(s)
    <3>1. i \in 1..Len(s)
      BY ONLY <1>2, <2>1, i \in 1..(Len(s) + Len(t))
    <3> QED BY <1>1, <2>1, <3>1 DEF HasNoText
  <2>2. CASE ~ (i <= Len(s))
    <3>1. i - Len(s) \in 1..Len(t)
      BY ONLY <1>2, <2>2, i \in 1..(Len(s) + Len(t))
    <3> QED BY <1>1, <2>2, <3>1 DEF HasNoText
  <2> QED BY <2>1, <2>2
<1> QED BY <1>1, <1>3 DEF HasNoText

LEMMA CaptureHears ==
    ASSUME TypeInv, TurnInv, CaptureInv, HearsStep
    PROVE  CaptureInv'
<1>1. PICK tokens \in Seq(TokenSet) : Hears(tokens)
  BY HearsGives
<1>2. /\ typed # <<>> /\ typed' = Tail(typed) /\ wire' = wire \o tokens
      /\ UNCHANGED <<case, pc, k, found, buf, capture>> /\ model' = model
      /\ dev' \notin {"off", "greet"}
      /\ dev' = "enablePass" => Head(typed).kind = "enable"
      /\ dev \in {"shell", "enablePass"} => dev' \in {"shell", "enablePass", "closed"}
  BY <1>1 DEF Hears, model
<1>3. typed \in Seq(Line) /\ Head(typed) = typed[1] /\ 1 \in 1..Len(typed)
  <2>1. typed \in Seq(Line)
    BY DEF TypeInv
  <2> QED BY <1>2, <2>1
<1>4. (\A i \in 1..Len(capture) : Good(capture[i], i))'
  BY <1>2, CapturesStay
<1>5. dev \notin {"greet", "closed", "off"}
  BY DEF HearsStep, DeviceAsks, DeviceChecks, DeviceKey, DeviceEnables,
     DeviceChecksEnable, DeviceAnswers
<1>6. ASSUME pc = "pager" PROVE dev' \in {"shell", "closed"} \/ model.dis = {}
  <2>1. Head(typed).kind = "pager"
    BY <1>3, <1>6 DEF TurnInv, PagerCount
  <2>2. dev = "shell" \/ model.dis = {}
    BY <1>5, <1>6 DEF CaptureInv
  <2> QED BY <1>2, <2>1, <2>2
<1>7. ASSUME pc = "command"
      PROVE  dev' \in {"shell", "closed"} /\ Answering'
  <2>1. /\ model.commands[k] = "show" /\ typed = <<Token("show", k)>>
        /\ buf = <<>> /\ wire = <<>> /\ dev = "shell" /\ k \in Nat
    BY <1>2, <1>5, <1>7 DEF CaptureInv, Answering, TypeInv
  <2>2. /\ Head(typed) = Token("show", k) /\ Token("show", k).kind = "show"
        /\ Token("show", k).of = k /\ Tail(typed) = <<>>
    BY <2>1 DEF Token
  <2>3. Out = Output(k)
    BY <2>2 DEF Out
  <2>4. \/ model.dis = {} /\ tokens = Output(k) /\ dev' = "closed"
        \/ model.dis # {} /\ tokens = Output(k) \o Prompt(mode) /\ dev' = "shell"
    BY <1>1, <2>1, <2>2, <2>3 DEF Hears
  <2>5. tokens \in AnswerTo(k)
    BY <2>4 DEF AnswerTo, TypeInv, CaseInv
  <2>6. buf \o wire' = tokens
    BY <1>1, <1>2, <2>1
  <2>7. (buf \o wire \in AnswerTo(k))'
    BY <1>2, <2>5, <2>6 DEF AnswerTo, Output, Prompt
  <2> QED BY <1>2, <2>1, <2>2, <2>4, <2>7 DEF Answering
<1> QED BY <1>2, <1>4, <1>6, <1>7 DEF CaptureInv

LEMMA CaptureDevice ==
    ASSUME TypeInv, TurnInv, CaptureInv, TheDevice
    PROVE  CaptureInv'
<1>1. CASE HearsStep
  BY <1>1, CaptureHears
<1>2. CASE DeviceGreets
  <2>1. /\ dev = "greet" /\ dev' = "shell" /\ UNCHANGED <<progVars, mode, typed>>
        /\ \/ wire' = wire
           \/ model.dis # {} /\ wire' = wire \o Prompt(mode)
    BY <1>2 DEF DeviceGreets, CommandLine, Says
  <2>2. UNCHANGED <<case, pc, k, found, buf, capture, typed>> /\ model' = model
    BY <2>1 DEF progVars, model
  <2>3. (\A i \in 1..Len(capture) : Good(capture[i], i))'
    BY <2>2, CapturesStay
  <2>4. ASSUME pc = "command" PROVE Answering'
    <3>1. Answering
      BY <2>4 DEF CaptureInv
    <3>2. CASE wire' = wire
      BY <2>2, <3>1, <3>2 DEF Answering, HasNoText, AnswerTo
    <3>3. CASE model.dis # {} /\ wire' = wire \o Prompt(mode)
      <4>1. typed = <<>> /\ wire = <<>> /\ buf = <<>>
        BY <2>1, <2>4, <3>3 DEF TurnInv, Greeting, Matching
      <4>2. mode \in Kind
        BY <3>3 DEF TypeInv, CaseInv, Kind
      <4>3. model.commands[k] = "wait" /\ HasNoText(buf)
        <5>1. CASE buf \o wire \in AnswerTo(k)
          <6>1. <<>> \in AnswerTo(k)
            BY <4>1, <5>1
          <6>2. PICK kind \in {"dis", "ena"} : <<>> = Output(k) \o Prompt(kind)
            BY <3>3, <6>1 DEF AnswerTo
          <6>3. Output(k) \in Seq(TokenSet) /\ Prompt(kind) \in Seq(TokenSet)
                /\ Len(Prompt(kind)) = 2
            <7>1. k \in Nat /\ kind \in Kind
              BY DEF TypeInv, Kind
            <7> QED BY <7>1, OutputIs, PromptIs
          <6>4. Len(Output(k) \o Prompt(kind)) > 0
            BY ONLY <6>3
          <6> QED BY <6>2, <6>4
        <5> QED BY <3>1, <4>1, <5>1 DEF Answering
      <4>4. /\ wire' = Prompt(mode) /\ Len(Prompt(mode)) = 2
            /\ Prompt(mode)[1].kind = "stem" /\ Prompt(mode)[2].kind = mode
        <5>1. /\ Prompt(mode) \in Seq(TokenSet) /\ Len(Prompt(mode)) = 2
              /\ Prompt(mode)[1].kind = "stem" /\ Prompt(mode)[2].kind = mode
          BY <4>2, PromptIs
        <5>2. wire' = Prompt(mode)
          BY ONLY <3>3, <4>1, <5>1
        <5> QED BY <5>1, <5>2
      <4>5. HasNoText(wire')
        BY <4>2, <4>4 DEF HasNoText, Kind
      <4> QED BY <2>2, <4>1, <4>3, <4>5 DEF Answering, HasNoText
    <3> QED BY <2>1, <3>2, <3>3
  <2> QED BY <2>1, <2>2, <2>3, <2>4 DEF CaptureInv
<1>3. CASE DeviceHangsUp
  <2>1. /\ dev' = "closed" /\ UNCHANGED <<case, pc, k, buf, capture, wire, typed>>
        /\ model' = model
    BY <1>3 DEF DeviceHangsUp, progVars, model
  <2>2. (\A i \in 1..Len(capture) : Good(capture[i], i))'
    BY <2>1, CapturesStay
  <2>3. pc = "command" => Answering'
    BY <2>1 DEF CaptureInv, Answering, HasNoText, AnswerTo
  <2> QED BY <2>1, <2>2, <2>3 DEF CaptureInv
<1> QED BY <1>1, <1>2, <1>3 DEF TheDevice, HearsStep

LEMMA CaptureRead ==
    ASSUME TypeInv, CaptureInv, NEW n \in 1..Len(wire), Read(n)
    PROVE  CaptureInv'
<1> DEFINE read == SubSeq(wire, 1, n)
<1>1. /\ buf' = buf \o read /\ wire' = SubSeq(wire, n + 1, Len(wire))
      /\ UNCHANGED <<case, pc, k, capture, dev, mode, typed>> /\ model' = model
  BY DEF Read, model
<1>2. buf \in Seq(TokenSet) /\ wire \in Seq(TokenSet) /\ n \in 1..Len(wire)
  BY DEF TypeInv
<1>3. /\ read \in Seq(TokenSet) /\ Len(read) = n /\ \A i \in 1..n : read[i] = wire[i]
      /\ wire' \in Seq(TokenSet) /\ Len(wire') = Len(wire) - n
      /\ \A i \in 1..Len(wire') : wire'[i] = wire[n + i]
      /\ buf' \o wire' = buf \o wire
  <2>1. wire' = SubSeq(wire, n + 1, Len(wire)) /\ buf' = buf \o read
    BY <1>1
  <2>2. /\ read \in Seq(TokenSet) /\ Len(read) = n /\ \A i \in 1..n : read[i] = wire[i]
        /\ wire' \in Seq(TokenSet) /\ Len(wire') = Len(wire) - n
        /\ \A i \in 1..Len(wire') : wire'[i] = wire[n + i]
    BY ONLY <1>2, <2>1, SplitWire
  <2>3. (buf \o read) \o SubSeq(wire, n + 1, Len(wire)) = buf \o wire
    BY ONLY <1>2, ReadKeeps
  <2> QED BY <2>1, <2>2, <2>3
<1>4. (\A i \in 1..Len(capture) : Good(capture[i], i))'
  BY <1>1, CapturesStay
<1>5. ASSUME pc = "command" PROVE Answering'
  <2>1. Answering
    BY <1>5 DEF CaptureInv
  <2>2. CASE model.commands[k] = "wait" /\ typed = <<>> /\ HasNoText(buf) /\ HasNoText(wire)
    <3> HIDE DEF read
    <3>2. HasNoText(read)
      <4>1. Len(wire) \in Nat
        BY <1>2
      <4>2. \A i \in 1..n : i \in 1..Len(wire)
        BY ONLY <1>2, <4>1
      <4> QED BY <1>3, <2>2, <4>2 DEF HasNoText
    <3>3. HasNoText(buf')
      BY <1>1, <1>2, <1>3, <2>2, <3>2, JoinNoText
    <3>4. HasNoText(wire')
      <4>1. Len(wire) \in Nat
        BY <1>2
      <4>2. \A i \in 1..Len(wire') : n + i \in 1..Len(wire)
        BY ONLY <1>2, <1>3, <4>1
      <4> QED BY <1>3, <2>2, <4>2 DEF HasNoText
    <3> QED BY <1>1, <2>2, <3>3, <3>4 DEF Answering, HasNoText
  <2>3. CASE model.commands[k] = "show" /\ typed = <<>> /\ buf \o wire \in AnswerTo(k)
    BY <1>1, <1>3, <2>3 DEF Answering, AnswerTo
  <2>4. CASE wire = <<>>
    BY <1>2, <2>4
  <2> QED BY <2>1, <2>2, <2>3, <2>4 DEF Answering
<1> QED BY <1>1, <1>4, <1>5 DEF CaptureInv

LEMMA CaptureOpen ==
    ASSUME TypeInv, StartInv, CaptureInv, Open
    PROVE  CaptureInv'
<1> DEFINE logged == Head(case.transports) = "ssh"
           next == Login(logged)
<1>1. /\ pc = "open" /\ Goto(next, 1) /\ case.transports # <<>> /\ model' = model
      /\ capture' = capture
      /\ dev' = IF logged \/ case.asks = "none" THEN "greet" ELSE case.asks
      /\ wire' = IF logged \/ case.asks = "none" THEN <<>>
                 ELSE <<Token("text", 0)>> \o Prompt(case.asks)
  BY DEF Open, model
<1>2. /\ CaseInv /\ typed = <<>> /\ StartsWell(model, case.transports)
      /\ model.login => model.pass # {}
      /\ case.transports \in Seq(Transport)
      /\ case.asks \in {"user", "pass", "none"} /\ (case.asks = "none" <=> ~ model.login)
  BY <1>1 DEF TypeInv, CaseInv, CaseRecord, StartInv
<1>3. (\A i \in 1..Len(capture) : Good(capture[i], i))' /\ dev' # "off"
  BY <1>1, <1>2, CapturesStay
<1>4. pc' = next.pc
  BY <1>1 DEF Goto
<1>5. CASE model.login /\ ~ logged
  <2>1. next = [pc |-> "login", say |-> <<>>]
    BY <1>2, <1>5, LoginIs
  <2>2. pc' = "login"
    BY <1>4, <2>1
  <2> QED BY <1>3, <2>2 DEF CaptureInv
<1>6. CASE ~ (model.login /\ ~ logged)
  <2>1. next = Enable(FALSE) /\ wire' = <<>> /\ dev' = "greet"
    BY <1>1, <1>2, <1>6, LoginIs
  <2>2. ~ model.enabledMode /\ (model.pagingOff => model.dis = {})
    <3>1. 1 \in 1..Len(case.transports) /\ Head(case.transports) = case.transports[1]
      BY <1>1, <1>2
    <3> QED BY <1>2, <1>6, <3>1 DEF StartsWell, WaitsFirst, CaseInv
  <2>3. next = PagingOff
    BY <1>2, <2>1, <2>2, EnableIs
  <2>4. CASE model.pagingOff
    <3>1. pc' = "pager"
      BY <1>2, <1>4, <2>3, <2>4, PagingOffIs
    <3> QED BY <1>1, <1>3, <2>2, <2>4, <3>1 DEF CaptureInv
  <2>5. CASE ~ model.pagingOff
    <3>1. next = Commands(1)
      BY <1>2, <2>3, <2>5, PagingOffIs
    <3>2. Goto(Commands(1), 1) /\ 1 \in Nat \ {0}
      BY <1>1, <3>1
    <3>3. pc' \in {"command", "save"} /\ (pc' = "command" => Answering')
      BY <1>1, <1>2, <2>1, <3>2, CommandStarts
    <3> QED BY <1>3, <2>1, <3>3 DEF CaptureInv
  <2> QED BY <2>4, <2>5
<1> QED BY <1>5, <1>6

LEMMA CaptureEarly ==
    ASSUME TypeInv, TurnInv, AskedInv, CaptureInv, EarlyStep
    PROVE  CaptureInv'
<1>1. PICK next, n : /\ n \in Nat /\ NextIs(next, n) /\ Goto(next, n)
                     /\ next.pc \in {"pager", "command", "save"} => n = 1
                     /\ UNCHANGED <<case, capture, devVars>>
                     /\ pc \in Early /\ found \in 1..Len(Patterns)
                     /\ Turn(next)
  BY EarlyGoes
<1>2. CaseInv /\ pc \in Matching \ {"pager"} /\ found # 0
  BY <1>1, PatternsCount DEF TypeInv, Early, Matching
<1>3. typed = <<>> /\ wire = <<>>
  BY <1>1, <1>2 DEF TurnInv, OneAtATime
<1>4. /\ pc' = next.pc /\ wire' = <<>> /\ dev' = dev /\ model' = model /\ capture' = capture
  BY <1>1, <1>3 DEF Goto, devVars, model
<1>5. dev # "off" /\ (SawPrompt => dev \in {"shell", "closed"})
  BY <1>1, HeardFrom DEF AskedInv
<1>6. (\A i \in 1..Len(capture) : Good(capture[i], i))'
  BY <1>4, CapturesStay
<1>7. CASE next.pc \notin {"pager", "command"}
  BY <1>4, <1>5, <1>6, <1>7 DEF CaptureInv
<1>8. CASE next.pc \in {"pager", "command"}
  <2>1. SawPrompt /\ AtPrompt(next)
    <3>1. /\ next # [pc |-> "password", say |-> Word("username")]
          /\ next # [pc |-> "prompt", say |-> Word("key")]
          /\ next # [pc |-> "enable2", say |-> Word("enable")]
          /\ next # [pc |-> "enable3", say |-> Word("enablePassword")]
          /\ next.pc \notin {"prompt", "post"}
      BY <1>8
    <3> QED BY <1>1, <3>1 DEF Turn
  <2>2. CASE next.pc = "pager"
    BY <1>4, <1>5, <1>6, <2>1, <2>2 DEF CaptureInv
  <2>3. CASE next = Commands(1)
    <3>1. Goto(Commands(1), 1) /\ 1 \in Nat \ {0}
      <4>1. Goto(Commands(1), n) /\ Commands(1).pc \in {"pager", "command"}
        BY <1>1, <1>8, <2>3
      <4>2. n = 1
        BY <1>1, <1>8
      <4> QED BY <4>1, <4>2
    <3>2. pc' \in {"command", "save"} /\ (pc' = "command" => Answering')
      BY <1>3, <1>4, <3>1, CommandStarts
    <3> QED BY <1>4, <1>5, <1>6, <2>1, <3>2 DEF CaptureInv
  <2>4. next # [pc |-> "enable", say |-> Word("enter")]
    BY <1>8
  <2> QED BY <2>1, <2>2, <2>3, <2>4 DEF AtPrompt
<1> QED BY <1>7, <1>8

LEMMA CaptureFetch ==
    ASSUME TypeInv, StartInv, TurnInv, AskedInv, CaptureInv, Fetch
    PROVE  CaptureInv'
<1>0. CaseInv /\ typed \in Seq(Line) /\ k + 1 \in Nat \ {0} /\ 1 \in Nat \ {0}
  BY DEF TypeInv
<1>1. ASSUME UNCHANGED <<capture, dev>>, model' = model,
             pc' \notin Matching
      PROVE  CaptureInv'
  <2>1. (\A i \in 1..Len(capture) : Good(capture[i], i))'
    BY <1>1, CapturesStay
  <2> QED BY <1>1, <2>1 DEF CaptureInv, Matching
<1>2. CASE OpenNext \/ OpenFails \/ TimesOut \/ SaveCommit
  <2>1. UNCHANGED <<capture, dev>> /\ pc' \notin Matching
    BY <1>2 DEF OpenNext, OpenFails, TimesOut, SaveCommit, Matching, devVars
  <2>2. model' = model
    BY <1>0, <1>2 DEF OpenNext, OpenFails, TimesOut, SaveCommit, CaseInv, CaseRecord, model
  <2> QED BY <1>1, <2>1, <2>2
<1>3. CASE CommandDone
  <2>1. /\ pc = "command" /\ found # 0 /\ Save /\ Goto(Commands(k + 1), k + 1)
        /\ UNCHANGED <<dev, wire>> /\ model' = model
    BY <1>3 DEF CommandDone, TypeInv, devVars, model
  <2>2. typed = <<>> /\ wire = <<>>
    BY <2>1 DEF TurnInv, OneAtATime, Matching
  <2>3. (\A i \in 1..Len(capture) : Good(capture[i], i))'
    BY <2>1, <2>2, Kept
  <2>4. pc' \in {"command", "save"} /\ (pc' = "command" => Answering')
    BY <1>0, <2>1, <2>2, CommandStarts
  <2> QED BY <2>1, <2>3, <2>4 DEF CaptureInv, Matching
<1>4. CASE ReadEOF
  <2>1. pc' \in {"save", "failed"} /\ dev' = dev /\ model' = model
    BY <1>4, LastEOF DEF ReadEOF, devVars, model
  <2>2. (\A i \in 1..Len(capture) : Good(capture[i], i))'
    <3>1. CASE pc = "command" /\ model.dis = {}
      BY <1>4, <2>1, <3>1, Kept DEF ReadEOF
    <3>2. CASE ~ (pc = "command" /\ model.dis = {})
      BY <1>4, <2>1, <3>2, CapturesStay DEF ReadEOF
    <3> QED BY <3>1, <3>2
  <2> QED BY <2>1, <2>2 DEF CaptureInv, Matching
<1>5. CASE PagerOff
  <2>1. /\ pc = "pager" /\ found # 0 /\ UNCHANGED <<capture, dev, wire>> /\ model' = model
        /\ dev # "off"
    BY <1>5 DEF PagerOff, TypeInv, devVars, model, CaptureInv, Matching
  <2>2. (\A i \in 1..Len(capture) : Good(capture[i], i))'
    BY <2>1, CapturesStay
  <2>3. CASE Goto([pc |-> "pager", say |-> <<>>], k + 1)
    <3>1. pc' = "pager"
      BY <2>3 DEF Goto
    <3> QED BY <2>1, <2>2, <3>1 DEF CaptureInv
  <2>4. CASE ~ (k <= model.extra) /\ Goto(Commands(1), 1)
    <3>1. k > model.extra
      BY <1>0, <2>4, ModelIs DEF TypeInv
    <3>2. typed = <<>> /\ wire = <<>>
      BY <2>1, <3>1, PagerDone
    <3>3. pc' \in {"command", "save"} /\ (pc' = "command" => Answering')
      BY <1>0, <2>1, <2>4, <3>2, CommandStarts
    <3>4. dev \in {"greet", "shell", "closed"}
      <4>1. CASE model.dis = {}
        BY <1>0, <2>1, <4>1 DEF CaseInv
      <4>2. CASE model.dis # {}
        BY <2>1, <4>2 DEF CaptureInv
      <4> QED BY <4>1, <4>2
    <3> QED BY <2>1, <2>2, <3>3, <3>4 DEF CaptureInv
  <2> QED BY <1>5, <2>3, <2>4 DEF PagerOff
<1> QED BY <1>2, <1>3, <1>4, <1>5, CaptureOpen, CaptureEarly, CaptureRead DEF Fetch, EarlyStep

\* What a backup that reports success has saved is whole and unmixed, for any model that
\* starts in step.
THEOREM CapturesWhole == StartsInStep => (Spec => []CaptureComplete)
<1> SUFFICES ASSUME StartsInStep PROVE Spec => []CaptureComplete
  OBVIOUS
<1> DEFINE Inv == TypeInv /\ StartInv /\ TurnInv /\ AskedInv /\ SecretInv /\ CaptureInv
<1>1. Init => Inv
  <2>1. Init => CaptureInv
    BY DEF Init, CaptureInv, Matching
  <2> QED BY <2>1, InitType, TurnsInit, AskedInit
<1>2. Inv /\ [Next]_vars => Inv'
  <2> SUFFICES ASSUME Inv, [Next]_vars PROVE Inv'
    OBVIOUS
  <2>1. TypeInv' /\ StartInv' /\ TurnInv' /\ AskedInv' /\ SecretInv'
    BY TypeStep, TurnsStep, AskedStep
  <2>2. CASE Next
    BY <2>1, <2>2, CaptureFetch, CaptureDevice DEF Next
  <2>3. CASE UNCHANGED vars
    <3>1. /\ UNCHANGED <<case, pc, k, buf, capture, dev, wire, typed>> /\ model' = model
      BY <2>3 DEF vars, model
    <3>2. (\A i \in 1..Len(capture) : Good(capture[i], i))'
      BY <3>1, CapturesStay
    <3>3. pc = "command" => Answering'
      BY <3>1 DEF CaptureInv, Answering, HasNoText, AnswerTo
    <3> QED BY <2>1, <3>1, <3>2, <3>3 DEF CaptureInv
  <2> QED BY <2>2, <2>3
<1>3. Inv => CaptureComplete
  BY DEF TypeInv, CaptureInv, CaptureComplete, Good
<1> QED BY <1>1, <1>2, <1>3, PTL DEF Spec
==============================================================================
