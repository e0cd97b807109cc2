------------------------------- MODULE Output -------------------------------
(***************************************************************************)
(* Output collection of one execution (execution/output.py): two streams,  *)
(* each counted, kept in a first and a last window, cleaned of terminal    *)
(* sequences and redacted as it arrives; and the text returned at the end, *)
(* which is made again from the windows.                                   *)
(* A byte is a character; "[REDACTED]" is two characters "#" and the       *)
(* truncation marker one "~", so that both can be longer or shorter than   *)
(* what they stand for.  Decoding of UTF-8 is left out.                    *)
(***************************************************************************)
EXTENDS Naturals, Sequences

CONSTANTS
    Alphabet,      \* the bytes a command writes: "a", "b", "cr", "nl", "esc", "["
    Secrets,       \* the values to redact: sequences over Alphabet
    MaxReturn,     \* max_return_bytes
    MaxOutput,     \* max_output_bytes
    MaxSequence,   \* MAX_TERMINAL_SEQUENCE_CHARS
    MaxWritten,    \* bound: bytes a command writes
    MaxChunk       \* bound: bytes in one chunk

Streams == {"stdout", "stderr"}
Chunks == UNION {[1..n -> Alphabet] : n \in 1..MaxChunk}

VARIABLES
    written,   \* what the command has written to each stream
    raw,       \* BoundedByteStream: total, head, tail
    cleaner,   \* TerminalSanitizer: mode, run, cr
    buffer,    \* StreamingValueRedactor._buffer
    shown,     \* the text the previews have been given
    closed,
    exceeded,  \* OutputCollector._limit_exceeded
    signals    \* updates that were newly_exceeded

vars == <<written, raw, cleaner, buffer, shown, closed, exceeded, signals>>

-----------------------------------------------------------------------------
(* The windows. *)

HeadLimit == MaxReturn \div 2
TailLimit == MaxReturn - HeadLimit

Prefix(s, n) == SubSeq(s, 1, IF n < Len(s) THEN n ELSE Len(s))
Suffix(s, n) == SubSeq(s, IF n < Len(s) THEN Len(s) - n + 1 ELSE 1, Len(s))
Drop(s, n) == SubSeq(s, n + 1, Len(s))

\* BoundedByteStream.feed
Retained(w, chunk) ==
    LET room == HeadLimit - Len(w.head)
    IN  [total |-> w.total + Len(chunk),
         head  |-> w.head \o Prefix(chunk, room),
         tail  |-> Suffix(w.tail \o Drop(chunk, room), TailLimit)]

Marker(budget) == IF budget >= 3 THEN <<"~">> ELSE <<>>

\* ByteStreamSnapshot.preview_bytes
Preview(w, budget) ==
    LET kept == budget - Len(Marker(budget))
    IN  IF w.total <= budget THEN w.head \o w.tail
        ELSE Prefix(w.head, kept \div 2) \o Marker(budget) \o Suffix(w.tail, kept - kept \div 2)

-----------------------------------------------------------------------------
(* Cleaning: one character at a time, so that chunks cannot matter. *)

Clean == [mode |-> "text", run |-> 0, cr |-> FALSE, out |-> <<>>]

\* TerminalSanitizer._consume_text
InText(c, ch) ==
    LET ended == IF c.cr THEN [c EXCEPT !.cr = FALSE, !.out = Append(@, "nl")] ELSE c
    IN  CASE c.cr /\ ch = "nl" -> ended
          [] ch = "cr"  -> [ended EXCEPT !.cr = TRUE]
          [] ch = "esc" -> [ended EXCEPT !.mode = "escape"]
          [] OTHER      -> [ended EXCEPT !.out = Append(@, ch)]

\* TerminalSanitizer._consume, for the sequences ESC x and ESC [ ... letter
Consume(c, ch) ==
    CASE c.mode = "text"   -> InText(c, ch)
      [] c.mode = "escape" -> [c EXCEPT !.mode = IF ch = "[" THEN "csi" ELSE "text", !.run = 0]
      [] c.mode = "csi"    -> IF ch \notin {"cr", "nl", "esc"} \/ c.run + 1 > MaxSequence
                              THEN [c EXCEPT !.mode = "text", !.run = 0]
                              ELSE [c EXCEPT !.run = @ + 1]

Cleaned(c, text) ==
    LET after[i \in 0..Len(text)] ==
            IF i = 0 THEN [c EXCEPT !.out = <<>>] ELSE Consume(after[i - 1], text[i])
    IN  after[Len(text)]

\* TerminalSanitizer.feed(final=True)
Flushed(c) == IF c.cr THEN Append(c.out, "nl") ELSE c.out

-----------------------------------------------------------------------------
(* Redaction. *)

At(s, v, i) == i + Len(v) - 1 <= Len(s) /\ SubSeq(s, i, i + Len(v) - 1) = v

Matches(s) == {m \in (1..Len(s)) \X Secrets : At(s, m[2], m[1])}

\* _earliest_match: the first position and, there, the longest value
Earliest(s) ==
    CHOOSE m \in Matches(s) : \A n \in Matches(s) :
        m[1] < n[1] \/ (m[1] = n[1] /\ Len(m[2]) >= Len(n[2]))

(* Mutant: no prefix of a secret is held back.                           *)
MutantPending(s) == 0

\* _longest_pending_prefix: the end of s that may be the beginning of a value
Pending(s) ==
    LET sizes == {k \in 1..Len(s) : \E v \in Secrets : k < Len(v) /\ Prefix(v, k) = Suffix(s, k)}
    IN  IF sizes = {} THEN 0 ELSE CHOOSE k \in sizes : \A l \in sizes : l <= k

\* StreamingValueRedactor.feed: the text it gives and the text it keeps
Redacted(s, final) ==
    LET after[i \in 0..Len(s)] ==
            LET rest == Drop(s, i)
                m == Earliest(rest)
                kept == IF final THEN 0 ELSE Pending(rest)
                more == after[i + m[1] + Len(m[2]) - 1]
            IN  IF Matches(rest) # {}
                THEN [text |-> Prefix(rest, m[1] - 1) \o <<"#", "#">> \o more.text,
                      kept |-> more.kept]
                ELSE [text |-> Prefix(rest, Len(rest) - kept), kept |-> Suffix(rest, kept)]
    IN  after[0]

-----------------------------------------------------------------------------
(* What is returned. *)

\* _bound_text: a redaction may have made the preview longer than its budget
Bounded(text, budget) ==
    LET kept == budget - Len(Marker(budget))
    IN  IF Len(text) <= budget THEN text
        ELSE Prefix(text, kept \div 2) \o Marker(budget) \o Suffix(text, kept - kept \div 2)

\* _allocate_budgets
Budget(s) ==
    LET out == raw["stdout"].total
        err == raw["stderr"].total
        first == IF err = 0 THEN MaxReturn ELSE (MaxReturn * out) \div (out + err)
    IN  IF raw[s].total = 0 THEN 0 ELSE IF s = "stdout" THEN first ELSE MaxReturn - first

\* render_snapshot_text, OutputCollector.snapshot
Returned(s) ==
    Bounded(Redacted(Flushed(Cleaned(Clean, Preview(raw[s], Budget(s)))), TRUE).text, Budget(s))

-----------------------------------------------------------------------------
(* The collector. *)

Init ==
    /\ written = [s \in Streams |-> <<>>]
    /\ raw = [s \in Streams |-> [total |-> 0, head |-> <<>>, tail |-> <<>>]]
    /\ cleaner = [s \in Streams |-> Clean]
    /\ buffer = [s \in Streams |-> <<>>]
    /\ shown = [s \in Streams |-> <<>>]
    /\ closed = [s \in Streams |-> FALSE]
    /\ exceeded = FALSE
    /\ signals = 0

Written == Len(written["stdout"]) + Len(written["stderr"])

\* OutputCollector._feed
Feed(s, chunk) ==
    LET c == Cleaned(cleaner[s], chunk)
        r == Redacted(buffer[s] \o c.out, FALSE)
        over == Written + Len(chunk) > MaxOutput
    IN  /\ ~closed[s]
        /\ Written + Len(chunk) <= MaxWritten
        /\ written' = [written EXCEPT ![s] = @ \o chunk]
        /\ raw' = [raw EXCEPT ![s] = Retained(@, chunk)]
        /\ cleaner' = [cleaner EXCEPT ![s] = [c EXCEPT !.out = <<>>]]
        /\ buffer' = [buffer EXCEPT ![s] = r.kept]
        /\ shown' = [shown EXCEPT ![s] = @ \o r.text]
        /\ exceeded' = (exceeded \/ over)
        /\ signals' = IF over /\ ~exceeded THEN signals + 1 ELSE signals
        /\ UNCHANGED closed

\* OutputCollector._close
Close(s) ==
    /\ ~closed[s]
    /\ closed' = [closed EXCEPT ![s] = TRUE]
    /\ shown' = [shown EXCEPT ![s] = @ \o Redacted(buffer[s] \o Flushed(cleaner[s]), TRUE).text]
    /\ buffer' = [buffer EXCEPT ![s] = <<>>]
    /\ cleaner' = [cleaner EXCEPT ![s] = Clean]
    /\ UNCHANGED <<written, raw, exceeded, signals>>

Next == \E s \in Streams : Close(s) \/ \E chunk \in Chunks : Feed(s, chunk)

Spec == Init /\ [][Next]_vars

-----------------------------------------------------------------------------
(* Properties. *)

\* No value lies in another but at its end.  Nothing enforces it.
ValuesApart ==
    \A v, w \in Secrets : \A i \in 1..Len(w) : At(w, v, i) => i + Len(v) - 1 = Len(w)

\* For values apart, what the interface is shown of a finished stream depends
\* on what the command wrote and not on where the pipe cut it
\* (docs/ARCHITECTURE.md:1016-1020).
ChunkingDoesNotMatter ==
    ValuesApart =>
        \A s \in Streams : closed[s] =>
            shown[s] = Redacted(Flushed(Cleaned(Clean, written[s])), TRUE).text

\* Whatever the values, none escapes redaction because it came in pieces, or
\* beside another one: no value stands in what the interface is shown, nor in
\* a returned text whose budget has room for the truncation marker.
NoValueIsShown ==
    \A s \in Streams :
        Matches(shown[s]) = {} /\ (Budget(s) >= 3 => Matches(Returned(s)) = {})

\* The two texts together keep the return budget, also where redaction made
\* them longer, and each is whole while everything fits.
ReturnIsBounded ==
    /\ Len(Returned("stdout")) + Len(Returned("stderr")) <= MaxReturn
    /\ signals <= 1 /\ (exceeded <=> Written > MaxOutput)

\* A truncated stream still shows how it ended, whatever the other stream
\* wrote (docs/ARCHITECTURE.md:1236-1238: a preview "keeps both the beginning
\* and end"; the end of a traceback is what matters).
EndsAreShown ==
    \A s \in Streams :
        LET text == Preview(raw[s], Budget(s))
        IN  written[s] # <<>> /\ Budget(s) >= 1 => Suffix(text, 1) = Suffix(written[s], 1)
=============================================================================
