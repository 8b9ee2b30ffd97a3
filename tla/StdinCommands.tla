------------------------------ MODULE StdinCommands -----------------------------
(***************************************************************************)
(* How a list of input commands becomes the bytes that are written to a    *)
(* session (src/models/command.go): all of them, or none when one of them  *)
(* is not valid.  The content of a RAW command stands for the bytes that   *)
(* its Base64 text decodes to.                                             *)
(***************************************************************************)
EXTENDS Integers, Sequences, SequencesExt

CONSTANTS
    Missing,    \* no content
    NotBase64   \* the content of a RAW command that does not decode

Bytes == 0..255

CommandTypes == {"TEXT", "CTRL", "ENTER", "RAW"}

SessionInputCommand ==
    [type : CommandTypes, content : Seq(Bytes) \cup {Missing}]
    \cup [type : {"RAW"}, content : {NotBase64}]

isASCIILetter(b) == b \in 65..90 \/ b \in 97..122

IsValid(c) ==
    \/ c.type = "TEXT" /\ c.content # Missing
    \/ /\ c.type = "CTRL"
       /\ c.content # Missing
       /\ Len(c.content) = 1
       /\ isASCIILetter(c.content[1])
    \/ c.type = "ENTER"
    \/ c.type = "RAW" /\ c.content \notin {Missing, NotBase64}

AllValid(cmds) == \A i \in DOMAIN cmds : IsValid(cmds[i])

\* b & 0x1f.
CtrlMask(b) == b % 32

AsciiCR == 13

StdinOf(c) ==
    CASE c.type \in {"TEXT", "RAW"} -> c.content
      [] c.type = "CTRL" -> <<CtrlMask(c.content[1])>>
      [] c.type = "ENTER" -> <<AsciiCR>>

\* BuildStdinInputFromCommands of a list that is valid.
BuildStdinInput(cmds) == FlattenSeq([i \in DOMAIN cmds |-> StdinOf(cmds[i])])

=============================================================================
