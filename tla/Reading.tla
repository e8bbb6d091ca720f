-------------------------------- MODULE Reading --------------------------------
(***************************************************************************)
(* What fetch makes of the bytes a telnet device sends: the negotiation of *)
(* src/dev/telnet.go at the head of each Read, removeControlChars of       *)
(* src/dev/control.go on the rest, one iteration of their loops a step,    *)
(* and the line filter of saveCommit.                                      *)
(*                                                                         *)
(* A device sends items: a character of text, the end of a line, an escape *)
(* sequence, a telnet command.  The network returns the stream in reads it *)
(* cuts where it likes.  `ref' is what is due after each item, found item  *)
(* by item from what the item means on a screen; it stands as long as no   *)
(* read was torn inside an item.                                           *)
(***************************************************************************)
EXTENDS Integers, SequencesExt

CONSTANTS Text,      \* characters that mean nothing but themselves
          Devices,   \* the items each kind of device sends: a set of sets of them
          MaxItems   \* items in one dialogue

Commands == {"DO", "DONT", "WILL", "WONT"}
\* Characters below 32, ESC, CR, LF and BS apart; "echo" is a telnet option.
OtherControl == {"NUL", "BEL", "echo"}
Digits == {"0", "1"}
Moves == {"A", "B", "C", "D", "J", "K"}
Tildes == {"1", "3", "4"}
Special == {"IAC", "CR", "LF", "BS", "ESC"} \cup OtherControl
Char == Text \cup Special \cup Commands \cup Digits \cup Moves \cup Tildes
        \cup {"[", "]", ";", "m", "~"}

------------------------------------------------------------------------------
(* What devices send *)

IsPlain(item) == Len(item) = 1 /\ item[1] \in Text \cup {"LF"}
IsCommand(item) == /\ Len(item) = 3 /\ item[1] = "IAC"
                   /\ item[2] \in Commands /\ item[3] \in OtherControl
IsLineEnd(item) == item \in {<<"CR", "LF">>, <<"CR", "NUL">>}
IsColour(item) == /\ Len(item) > 3 /\ item[1] = "ESC" /\ item[2] = "[" /\ Last(item) = "m"
                  /\ \A j \in 3..(Len(item) - 1) : item[j] \in Digits
IsMove(item) == Len(item) = 3 /\ item[1] = "ESC" /\ item[2] = "[" /\ item[3] \in Moves
IsKey(item) == /\ Len(item) = 4 /\ item[1] = "ESC" /\ item[2] = "["
               /\ item[3] \in Tildes /\ item[4] = "~"
IsTitle(item) == /\ Len(item) > 4 /\ Last(item) = "BEL"
                 /\ item[1] = "ESC" /\ item[2] = "]" /\ item[3] = "0" /\ item[4] = ";"
                 /\ \A j \in 5..(Len(item) - 1) : item[j] \in Text
IsDrawing(item) == \/ IsColour(item) \/ IsMove(item) \/ IsKey(item) \/ IsTitle(item)
                   \/ Len(item) = 1 /\ item[1] \in OtherControl

Item(item) == item \in Seq(Char) /\ \/ IsPlain(item) \/ IsCommand(item)
                                      \/ IsLineEnd(item) \/ IsDrawing(item)
                                      \/ item \in {<<"CR">>, <<"BS">>}

ASSUME ReadAssumption ==
    /\ Text \cap Special = {} /\ MaxItems \in Nat
    /\ \A device \in Devices : \A item \in device : Item(item)

VARIABLES device,   \* the items this device sends
          keep,     \* Attr.KeepControlChars
          filter,   \* Attr.LineFilter, once it is applied
          stream,   \* all characters sent so far
          taken,    \* how many of them reads have returned
          pc,       \* in match, telnetNegotiation or removeControlChars
          suffix,   \* what is left of the last read
          at,       \* place in suffix, from 1
          hitNeg,   \* a command was found in this read
          buf,      \* matchBuf
          replies,  \* answers to telnet commands
          saved,    \* the lines saveCommit would write
          failed,   \* match met an empty read
          ref,      \* the reference: each item, its end in the stream, and what is due
          torn      \* the reference no longer stands

inVars == <<device, keep, stream, ref>>
loopVars == <<pc, suffix, at, hitNeg, buf, replies, failed>>
outVars == <<filter, saved>>
vars == <<inVars, taken, torn, loopVars, outVars>>

\* s without its elements i to j.
Cut(s, i, j) == SubSeq(s, 1, i - 1) \o SubSeq(s, j + 1, Len(s))
\* Where c last occurs in s, 0 if it does not.
LastIndex(s, c) == Max({0} \cup {i \in 1..Len(s) : s[i] = c})

------------------------------------------------------------------------------
(* The device, and the reference: what to keep and to answer after each item *)

\* Variant: every option is agreed to.
Agreement(command) == IF command \in {"DO", "DONT"} THEN "WILL" ELSE "DO"

Refusal(command) == IF command \in {"DO", "DONT"} THEN "WONT" ELSE "DONT"

\* What a reader of whole items would keep, with or without their control characters:
\* a CR returns to the start of its line, CR NUL is taken for an end of line, and a
\* sequence that draws goes whole.
Shown(whole, text, item) ==
    IF IsCommand(item) THEN text
    ELSE IF whole THEN text \o item
    ELSE CASE item = <<"CR", "NUL">> -> text \o <<"CR", "LF">>
           [] item = <<"CR">>        -> SubSeq(text, 1, LastIndex(text, "LF"))
           [] item = <<"BS">>        -> IF text = <<>> THEN text ELSE Front(text)
           [] IsDrawing(item)        -> text
           [] OTHER                  -> text \o item
Answer(item) == <<Refusal(item[2]), item[3]>>
Due(whole, due, item) ==
    [item |-> item, place |-> due.place + Len(item),
     text |-> Shown(whole, due.text, item),
     answers |-> IF IsCommand(item) THEN Append(due.answers, Answer(item)) ELSE due.answers]

\* What the device sends while fetch is at work on a read waits for the next.
Send(item) ==
    /\ pc = "match" /\ saved = <<>> /\ ~ failed
    /\ Len(ref) <= MaxItems
    /\ stream' = stream \o item
    /\ ref' = Append(ref, Due(keep, Last(ref), item))
    /\ UNCHANGED <<device, keep, taken, torn, loopVars, outVars>>

------------------------------------------------------------------------------
(* A Read, and telnetNegotiation *)

\* Nothing tells the items m to n apart if a sole CR may be half of an end of line, or
\* if a command does not come first.
Ambiguous(m, n) ==
    \/ \E k \in m..(n - 1) : ref[k].item = <<"CR">> /\ ref[k + 1].item[1] \in {"LF", "NUL"}
    \/ \E k, l \in m..n : k < l /\ ~ IsCommand(ref[k].item) /\ IsCommand(ref[l].item)

\* A read from the end of one item to the end of another, in which it can be told what
\* is what.
Clear(n) == \E k, l \in 1..Len(ref) : /\ ref[k].place = taken /\ ref[l].place = taken + n
                                      /\ ~ Ambiguous(k + 1, l)

Read(n) ==
    /\ pc = "match" /\ saved = <<>> /\ ~ failed
    /\ suffix' = SubSeq(stream, taken + 1, taken + n)
    /\ taken' = taken + n
    /\ torn' = (torn \/ ~ Clear(n))
    /\ hitNeg' = FALSE /\ pc' = "negotiate"
    /\ UNCHANGED <<inVars, outVars, at, buf, replies, failed>>

\* Variant: one command a read.
FirstCommand == ~ hitNeg /\ Len(suffix) >= 3 /\ suffix[1] = "IAC" /\ suffix[2] \in Commands

CommandAtHead == Len(suffix) >= 3 /\ suffix[1] = "IAC" /\ suffix[2] \in Commands

Negotiate ==
    /\ pc = "negotiate" /\ CommandAtHead
    /\ replies' = Append(replies, Answer(suffix))
    /\ suffix' = SubSeq(suffix, 4, Len(suffix))
    /\ hitNeg' = TRUE
    /\ UNCHANGED <<inVars, outVars, taken, torn, pc, at, buf, failed>>

\* A read of commands only is skipped, an empty one ends the dialogue.  Control
\* characters are removed unless they are to be kept.
Negotiated ==
    /\ pc = "negotiate" /\ ~ CommandAtHead
    /\ failed' = (suffix = <<>> /\ ~ hitNeg)
    /\ IF keep THEN pc' = "match" /\ buf' = buf \o suffix /\ suffix' = <<>>
       ELSE pc' = "clean" /\ UNCHANGED <<buf, suffix>>
    /\ at' = 1
    /\ UNCHANGED <<inVars, outVars, taken, torn, hitNeg, replies>>

------------------------------------------------------------------------------
(* removeControlChars: what its loop does at place `at' of suffix *)

\* The loop finds c; it goes on with suffix s from place i.
Finds(c) == pc = "clean" /\ at <= Len(suffix) /\ suffix[at] \in c
GoOn(s, i) == suffix' = s /\ at' = i
              /\ UNCHANGED <<inVars, outVars, taken, torn, pc, hitNeg, replies, failed>>

Ordinary == /\ pc = "clean" /\ at <= Len(suffix)
            /\ suffix[at] \notin {"CR", "BS", "ESC"} \cup OtherControl
            /\ GoOn(suffix, at + 1) /\ UNCHANGED buf

\* A CR before LF, or NUL which becomes LF, stays.
LineEnds == at < Len(suffix) /\ suffix[at + 1] \in {"NUL", "LF"}
LineEnd == /\ Finds({"CR"}) /\ LineEnds
           /\ GoOn([suffix EXCEPT ![at + 1] = "LF"], at + 1) /\ UNCHANGED buf

\* A sole one takes back what is on its line, and the end of the line before, in suffix
\* or else in buf.
LineStart == LastIndex(SubSeq(suffix, 1, at - 1), "LF")

ReturnInBuf ==
    /\ Finds({"CR"}) /\ ~ LineEnds /\ LineStart = 0
    /\ buf' = SubSeq(buf, 1, LastIndex(buf, "LF") - 1)
    /\ GoOn(SubSeq(suffix, at + 1, Len(suffix)), 1)

ReturnInSuffix ==
    /\ Finds({"CR"}) /\ ~ LineEnds /\ LineStart > 0
    /\ buf' = IF LineStart = 1 /\ buf # <<>> /\ Last(buf) = "CR" THEN Front(buf) ELSE buf
    /\ LET from == IF LineStart > 1 /\ suffix[LineStart - 1] = "CR" THEN LineStart - 1
                   ELSE LineStart
       IN GoOn(Cut(suffix, from, at), from)

\* Variant: a backspace at the head of a read is dropped.
BackspaceInRead ==
    /\ Finds({"BS"})
    /\ UNCHANGED buf
    /\ IF at > 1 THEN GoOn(Cut(suffix, at - 1, at), at - 1) ELSE GoOn(Tail(suffix), 1)

Backspace ==
    /\ Finds({"BS"})
    /\ buf' = IF at > 1 \/ buf = <<>> THEN buf ELSE Front(buf)
    /\ IF at > 1 THEN GoOn(Cut(suffix, at - 1, at), at - 1) ELSE GoOn(Tail(suffix), 1)

\* How long the `d...dm' is that s begins with, 0 if it does not.
PrefixNumberM(s) ==
    LET ends == {i \in 2..Len(s) : s[i] = "m" /\ \A j \in 1..(i - 1) : s[j] \in Digits}
    IN IF ends = {} THEN 0 ELSE CHOOSE i \in ends : TRUE

\* How long the `;...BEL' is that s begins with, 0 if it does not.
PrefixTitle(s) ==
    LET bels == {i \in 1..Len(s) : s[i] = "BEL"}
    IN IF Len(s) >= 2 /\ s[1] = ";" /\ bels # {} THEN Min(bels) ELSE 0

\* How many characters of the escape sequence at the head of s go; 0: it is not known,
\* or not all here.  Of ESC [ 1 ~ the tilde stays.
EscapeSize(s) ==
    LET is(i, S) == i <= Len(s) /\ s[i] \in S
        m == PrefixNumberM(SubSeq(s, 3, Len(s)))
        title == PrefixTitle(SubSeq(s, 4, Len(s)))
    IN CASE is(2, {"["}) /\ m > 0                           -> 2 + m
         [] is(2, {"["}) /\ is(3, Moves)                    -> 3
         [] is(2, {"["}) /\ is(3, Tildes) /\ is(4, {"~"})   -> 3
         [] is(2, {"]"}) /\ is(3, {"0"}) /\ title > 0       -> 3 + title
         [] OTHER                                           -> 0

Escape ==
    /\ Finds({"ESC"}) /\ UNCHANGED buf
    /\ LET size == EscapeSize(SubSeq(suffix, at, Len(suffix)))
       IN IF size = 0 THEN GoOn(suffix, at + 1) ELSE GoOn(Cut(suffix, at, at + size - 1), at)

Control == Finds(OtherControl) /\ GoOn(Cut(suffix, at, at), at) /\ UNCHANGED buf

\* match appends what is left.
Cleaned ==
    /\ pc = "clean" /\ at > Len(suffix)
    /\ buf' = buf \o suffix /\ suffix' = <<>> /\ at' = 1 /\ pc' = "match"
    /\ UNCHANGED <<inVars, outVars, taken, torn, hitNeg, replies, failed>>

------------------------------------------------------------------------------
(* Line filters of src/dev/filter.go, applied by saveCommit *)

\* bytes.Split at each LF: one more line than there are LF.
Split(s) ==
    LET lf == <<0>> \o SetToSortSeq({i \in 1..Len(s) : s[i] = "LF"}, <) \o <<Len(s) + 1>>
    IN [n \in 1..(Len(lf) - 1) |-> SubSeq(s, lf[n] + 1, lf[n + 1] - 1)]

\* Variant: the pattern is not anchored to the start of the line.
FilteredAnywhere(line, n, with) ==
    CASE with = "iosxr" -> IF LastIndex(line, "clock") > 0 THEN <<>> ELSE line
      [] with = "drop"  -> <<>>
      [] OTHER          -> line

\* "clock" is any of the four texts the iosxr filter takes for volatile.
Filtered(line, n, with) ==
    CASE with = "iosxr"       -> IF line # <<>> /\ line[1] = "clock" THEN <<>> ELSE line
      [] with = "drop"        -> <<>>
      [] with = "count_lines" -> <<ToString(n), ":">> \o line
      [] OTHER                -> line

\* An unknown filter leaves the block as it is; a known one ends each line with LF.
\* Lines are counted from the block's first; the blocks before it add a constant.
Lines(s, with) ==
    IF with = "unknown" THEN <<s>>
    ELSE LET lines == Split(s)
         IN [n \in 1..Len(lines) |-> Filtered(lines[n], n, with) \o <<"LF">>]

------------------------------------------------------------------------------
\* A prompt ends the output, which is saved.
Save(with) ==
    /\ pc = "match" /\ saved = <<>> /\ ~ failed /\ buf # <<>>
    /\ filter' = with
    /\ saved' = Lines(buf, with)
    /\ UNCHANGED <<inVars, taken, torn, loopVars>>

Init ==
    /\ device \in Devices /\ keep \in BOOLEAN /\ filter = "unknown"
    /\ stream = <<>> /\ taken = 0
    /\ pc = "match" /\ suffix = <<>> /\ at = 1 /\ hitNeg = FALSE
    /\ buf = <<>> /\ replies = <<>> /\ saved = <<>> /\ failed = FALSE
    /\ ref = <<[item |-> <<>>, place |-> 0, text |-> <<>>, answers |-> <<>>]>>
    /\ torn = FALSE

Clean == \/ Ordinary \/ LineEnd \/ ReturnInBuf \/ ReturnInSuffix \/ Backspace
         \/ Escape \/ Control \/ Cleaned

Next ==
    \/ \E item \in device : Send(item)
    \/ \E n \in 1..(Len(stream) - taken) : Read(n)
    \/ Negotiate \/ Negotiated \/ Clean
    \/ \E with \in {"unknown", "noop", "drop", "count_lines", "iosxr"} : Save(with)

Spec == Init /\ [][Next]_vars

------------------------------------------------------------------------------
(* Properties *)

\* Every variable keeps its shape.
TypeOK ==
    /\ device \in Devices /\ keep \in BOOLEAN /\ failed \in BOOLEAN /\ torn \in BOOLEAN
    /\ stream \in Seq(Char) /\ taken \in 0..Len(stream) /\ hitNeg \in BOOLEAN
    /\ pc \in {"match", "negotiate", "clean"}
    /\ suffix \in Seq(Char) /\ at \in 1..(Len(suffix) + 1) /\ buf \in Seq(Char)
    /\ replies \in Seq({"WONT", "DONT"} \X Char)
    /\ Len(ref) \in 1..(MaxItems + 1) /\ Last(ref).place = Len(stream)

\* What the items say that match has read.
SoFar(due) == due.place = taken

\* The code does not do what it should with a key's sequence, of which a tilde stays,
\* and with a CR on any line but the first, which takes the end of the line before.
Mistaken(text, item) ==
    ~ keep /\ (IsKey(item) \/ (item = <<"CR">> /\ LastIndex(text, "LF") > 0))

\* There is no such item among the first k.
Mastered(k) == \A j \in 2..k : ~ Mistaken(ref[j - 1].text, ref[j].item)

\* What is kept of a device's output is its text, without the characters that only
\* draw it, whatever the reads it came in, if none cut an item in two and there is
\* none of the two kinds of item the code mistakes.
KeptAsShown ==
    pc = "match" /\ ~ torn =>
        \E k \in 1..Len(ref) : SoFar(ref[k]) /\ (Mastered(k) => buf = ref[k].text)

\* The same of every item.  Of a key's sequence it says what control.go:110 says,
\* `remove 4 control chars', and of a CR what control.go:29 says.
AlwaysAsShown ==
    pc = "match" /\ ~ torn => \E k \in 1..Len(ref) : SoFar(ref[k]) /\ buf = ref[k].text

\* Each telnet command gets its refusal, once and in order, and nothing else does;
\* a command that a read cut in two may be taken for text.  A read of commands only
\* does not end the dialogue as an empty one would.
Answered ==
    /\ ~ failed
    /\ pc = "match" /\ ~ torn =>
         \E k \in 1..Len(ref) : SoFar(ref[k]) /\ replies = ref[k].answers
    /\ \E of \in [1..Len(replies) -> 1..Len(ref)] :
         \A i \in 1..Len(replies) :
            /\ IsCommand(ref[of[i]].item) /\ replies[i] = Answer(ref[of[i]].item)
            /\ \A j \in 1..(i - 1) : of[j] < of[i]

\* Of an IOS XR configuration the lines that begin with a volatile text are saved
\* empty, with whatever escape sequences or corrections the device drew them, and the
\* others whole and under the same line number; again but for items that are mistaken,
\* after which a volatile line may begin with a tilde and be saved.
VolatileDropped ==
    saved # <<>> /\ filter = "iosxr" /\ ~ torn =>
        \E k \in 1..Len(ref) :
            LET lines == Split(ref[k].text)
                volatile(n) == lines[n] # <<>> /\ lines[n][1] = "clock"
            IN /\ SoFar(ref[k])
               /\ Mastered(k) =>
                    saved = [n \in 1..Len(lines) |->
                               IF volatile(n) THEN <<"LF">> ELSE lines[n] \o <<"LF">>]
==============================================================================
