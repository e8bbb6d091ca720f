------------------------------ MODULE MCReading ------------------------------
(* Instances of Reading for TLC. *)
EXTENDS Reading

Letters == {"a", "clock"}
Words == {<<"a">>, <<"clock">>}
Key == <<"ESC", "[", "1", "~">>
Drawn == {<<"ESC", "[", "1", "m">>, <<"ESC", "[", "K">>, Key,
          <<"ESC", "]", "0", ";", "a", "BEL">>, <<"BEL">>, <<"BS">>}
Asks == {<<"IAC", "DO", "echo">>, <<"IAC", "WILL", "echo">>}
Ends == {<<"CR", "LF">>, <<"CR", "NUL">>, <<"LF">>, <<"CR">>}

DeviceKinds == {Words \cup Drawn \cup Asks \cup Ends}

\* A device that draws its lines with the sequences of keys.
KeySenders == {{<<"clock">>, Key}}
==============================================================================
