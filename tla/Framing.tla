---------------------------------- MODULE Framing ----------------------------------
(***************************************************************************)
(* Messages through a pipe, which carries bytes in pieces of any size:     *)
(* newlines between them (mcp/protocol.py), a header with the length       *)
(* before each (lsp/protocol.py), and the frames to and from the POSIX     *)
(* supervisor (execution/backends/posix_protocol.py).                      *)
(*                                                                         *)
(* A byte is a character; a digit stands for a length, "t" for half of the *)
(* end of a header, "x" makes a body one that is not JSON.                 *)
(***************************************************************************)
EXTENDS Naturals, Sequences

CONSTANTS
    Framings,      \* a subset of {"line", "header", "frame"}
    Bodies,        \* of messages
    Noise,         \* bytes the other side writes between lines
    MaxBytes,      \* of a message, and of a header
    MaxMessages, MaxChunk

VARIABLES
    framing,
    said,      \* the messages given to be written
    unwritten, \* of the message being written
    pipe, buffer,
    batch,     \* messages of the call of feed that is running
    got,       \* messages passed on
    state      \* "waits", "feeds", "failed"

vars == <<framing, said, unwritten, pipe, buffer, batch, got, state>>

Init ==
    /\ framing \in Framings /\ said = <<>> /\ unwritten = <<>> /\ pipe = <<>>
    /\ buffer = <<>> /\ batch = <<>> /\ got = <<>> /\ state = "waits"

Valid(body) == body # <<>> /\ \A i \in DOMAIN body : body[i] # "x"
Rest(s, n) == SubSeq(s, n + 1, Len(s))

Digits == <<"0", "1", "2", "3", "4", "5", "6", "7", "8", "9">>
Digit(n) == Digits[n + 1]
Number(c) == CHOOSE n \in 0..9 : Digit(n) = c

----------------------------------------------------------------------------
(* encode_message, LineFraming.encode, encode_frame                        *)
Encoded(body) ==
    IF framing = "line" THEN body \o <<"nl">>
    ELSE IF framing = "header" THEN <<Digit(Len(body)), "t", "t">> \o body
    ELSE <<Digit(Len(body))>> \o body

(* A message that is too large is refused and nothing of it is written.    *)
Say(body) ==
    /\ unwritten = <<>> /\ Len(said) < MaxMessages
    /\ Len(body) <= MaxBytes
    /\ said' = Append(said, body) /\ unwritten' = Encoded(body)
    /\ UNCHANGED <<framing, pipe, buffer, batch, got, state>>

(* write_frame_fd, write_frame_async: the pipe takes some of it.           *)
MutantAfter(n) == <<>>
After(n) == Rest(unwritten, n)

Write(n) ==
    /\ n \in 1..Len(unwritten)
    /\ pipe' = pipe \o SubSeq(unwritten, 1, n) /\ unwritten' = After(n)
    /\ UNCHANGED <<framing, said, buffer, batch, got, state>>

(* Blank lines and white space around a line.                              *)
Interject(noise) ==
    /\ framing = "line" /\ unwritten = <<>> /\ noise \in Noise
    /\ Len(pipe) + Len(buffer) = 0
    /\ pipe' = pipe \o noise
    /\ UNCHANGED <<framing, said, unwritten, buffer, batch, got, state>>

----------------------------------------------------------------------------
(* _read_stdout, readexactly: what the pipe has, up to a limit.            *)
Feed(n) ==
    /\ state = "waits" /\ n \in 1..Len(pipe)
    /\ buffer' = buffer \o SubSeq(pipe, 1, n) /\ pipe' = Rest(pipe, n)
    /\ state' = "feeds"
    /\ UNCHANGED <<framing, said, unwritten, batch, got>>

Nothing == [found |-> FALSE, bad |-> FALSE, body |-> <<>>, used |-> 0]
Bad == [Nothing EXCEPT !.bad = TRUE]
Found(body, used) ==
    IF Valid(body) THEN [found |-> TRUE, bad |-> FALSE, body |-> body, used |-> used] ELSE Bad

(* LineBuffer.feed: to the newline, without the white space around it.     *)
Stripped(line) ==
    LET kept == {i \in DOMAIN line : line[i] # " "}
    IN  IF kept = {} THEN <<>>
        ELSE SubSeq(line, CHOOSE i \in kept : \A j \in kept : i <= j,
                          CHOOSE i \in kept : \A j \in kept : j <= i)

NextLine ==
    LET ends == {i \in DOMAIN buffer : buffer[i] = "nl"}
        end == CHOOSE i \in ends : \A j \in ends : i <= j
        line == Stripped(SubSeq(buffer, 1, end - 1))
    IN  IF ends = {} THEN IF Len(buffer) > MaxBytes THEN Bad ELSE Nothing
        ELSE IF line = <<>> THEN [Nothing EXCEPT !.used = end]
        ELSE IF Len(line) > MaxBytes THEN Bad ELSE Found(line, end)

(* MessageBuffer._take: to the end of the header, then as much as it says. *)
MutantEnds == {i \in DOMAIN buffer : buffer[i] = "t"}
Ends == {i \in 2..Len(buffer) : buffer[i - 1] = "t" /\ buffer[i] = "t"}

MutantNextHeaded ==
    LET end == CHOOSE i \in Ends : \A j \in Ends : i <= j
    IN  IF Ends = {} THEN Nothing
        ELSE Found(SubSeq(buffer, end + 1, Len(buffer)), Len(buffer))
NextHeaded ==
    LET end == CHOOSE i \in Ends : \A j \in Ends : i <= j
    IN  IF Ends = {} THEN IF Len(buffer) > MaxBytes THEN Bad ELSE Nothing
        ELSE IF Number(buffer[1]) > MaxBytes THEN Bad
        ELSE IF Len(buffer) < end + Number(buffer[1]) THEN Nothing
        ELSE Found(SubSeq(buffer, end + 1, end + Number(buffer[1])), end + Number(buffer[1]))

(* read_frame_stream, read_frame_fd: exactly the header, then the body.    *)
NextFrame ==
    IF buffer = <<>> THEN Nothing
    ELSE IF Number(buffer[1]) \notin 1..MaxBytes THEN Bad
    ELSE IF Len(buffer) < 1 + Number(buffer[1]) THEN Nothing
    ELSE Found(SubSeq(buffer, 2, 1 + Number(buffer[1])), 1 + Number(buffer[1]))

Taken ==
    IF framing = "line" THEN NextLine ELSE IF framing = "header" THEN NextHeaded ELSE NextFrame

Take ==
    /\ state = "feeds" /\ Taken.used > 0 /\ ~Taken.bad
    /\ batch' = IF Taken.found THEN Append(batch, Taken.body) ELSE batch
    /\ buffer' = Rest(buffer, Taken.used)
    /\ UNCHANGED <<framing, said, unwritten, pipe, got, state>>

(* feed returns: the messages are dispatched in their order.               *)
Return ==
    /\ state = "feeds" /\ Taken = Nothing
    /\ got' = got \o batch /\ batch' = <<>> /\ state' = "waits"
    /\ UNCHANGED <<framing, said, unwritten, pipe, buffer>>

(* ProtocolError, ValueError: the reader ends, and the messages this call  *)
(* had found are not passed on.                                            *)
Fail ==
    /\ state = "feeds" /\ Taken.bad
    /\ state' = "failed" /\ batch' = <<>>
    /\ UNCHANGED <<framing, said, unwritten, pipe, buffer, got>>

Next ==
    \/ \E body \in Bodies : Say(body)
    \/ \E noise \in Noise : Interject(noise)
    \/ \E n \in 1..MaxChunk : Write(n) \/ Feed(n)
    \/ Take \/ Return \/ Fail

Spec == Init /\ [][Next]_vars

----------------------------------------------------------------------------
(* However the bytes are cut, the messages that arrive are those that were *)
(* said, in their order; and with all bytes read, all arrived, unless a    *)
(* body was no JSON (docs/ARCHITECTURE.md:642: "tolerant of a message      *)
(* split across arbitrary chunks").                                        *)
FramesAreWhole ==
    /\ Len(got) <= Len(said) /\ got = SubSeq(said, 1, Len(got))
    /\ state = "failed" => \E i \in DOMAIN said : ~Valid(said[i])
    /\ state = "waits" /\ unwritten = <<>> /\ pipe = <<>> => got = said
=============================================================================
