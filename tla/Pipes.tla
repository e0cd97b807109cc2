-------------------------------- MODULE Pipes --------------------------------
(***************************************************************************)
(* What crosses the border of a process, side by side: the output of a     *)
(* command, the messages of a server and the command line that Windows     *)
(* gives to a program.  They share no state.                               *)
(***************************************************************************)
EXTENDS Naturals, Sequences

CONSTANTS
    Framings, Bodies, Noise, FrameBytes, MaxMessages, MaxPiece, \* Framing
    Programs, Words, MaxWords, Half,                            \* CommandLine
    Alphabet, Secrets, MaxReturn, MaxOutput, MaxSequence,       \* Output
    MaxWritten, MaxChunk

VARIABLES
    written, raw, cleaner, buffer, shown, closed, exceeded, signals,
    framing, said, unwritten, pipe, unread, batch, got, state,
    argv, line, received, status, exit

outputVars == <<written, raw, cleaner, buffer, shown, closed, exceeded, signals>>
frameVars == <<framing, said, unwritten, pipe, unread, batch, got, state>>
lineVars == <<argv, line, received, status, exit>>

Collected == INSTANCE Output

Frames == INSTANCE Framing WITH
    buffer <- unread, MaxBytes <- FrameBytes, MaxChunk <- MaxPiece

Lines == INSTANCE CommandLine WITH
    raw <- status, Arguments <- Words, MaxArguments <- MaxWords

(* Any values to redact but the empty one (output.py:328-337).  What stands *)
(* for a value, and for what is left out, is told from what is written.    *)
ASSUME OutputAssumption ==
    /\ Secrets \subseteq Seq(Alphabet) \ {<<>>}
    /\ "#" \notin Alphabet /\ "~" \notin Alphabet
    /\ MaxReturn \in Nat /\ MaxOutput \in Nat /\ MaxSequence \in Nat

(* Messages of one line each are JSON as json.dumps writes it: no newline, *)
(* and a brace at both ends.  What is in between them is blank, and not so *)
(* long that a line with it is refused.                                    *)
ASSUME FramesAssumption ==
    /\ Framings \subseteq {"line", "header", "frame"}
    /\ Bodies \subseteq Seq(STRING) \ {<<>>}
    /\ Noise \subseteq Seq({"nl", " "})
    /\ FrameBytes \in 2..9 /\ MaxMessages \in Nat /\ MaxPiece \in Nat
    /\ "line" \in Framings =>
          /\ \A b \in Bodies :
                /\ b[1] # " " /\ b[Len(b)] # " "
                /\ \A i \in DOMAIN b : b[i] # "nl"
          /\ \A noise \in Noise :
                /\ Len(noise) <= FrameBytes
                /\ \A b \in Bodies : Len(b) <= FrameBytes => Len(noise) + Len(b) <= FrameBytes

(* No file of Windows has a quote in its name, and a program is a file,    *)
(* whose name does not end as a directory's may.                           *)
ASSUME CommandsAssumption ==
    /\ Programs \subseteq Seq(STRING) \ {<<>>}
    /\ \A p \in Programs : p[Len(p)] # "\\" /\ \A i \in DOMAIN p : p[i] # "q"
    /\ Words \subseteq Seq(STRING)
    /\ MaxWords \in Nat /\ Half \in Nat \ {0}

(* What arrives does not depend on how the bytes were cut on their way,    *)
(* nor on what they look like: of a command's output, if no value to       *)
(* redact lies in another but at its end; and no value is shown in any     *)
(* case.                                                                   *)
BytesArriveWhole ==
    /\ Collected!ChunkingDoesNotMatter /\ Collected!NoValueIsShown
    /\ Collected!ReturnIsBounded
    /\ Frames!FramesAreWhole
    /\ Lines!CommandsArriveWhole
=============================================================================
