---------------------------- MODULE Conversation ----------------------------
(***************************************************************************)
(* What is sent to the model of a conversation that outgrows its budget,   *)
(* and when a turn is told that it repeats itself: agent/context.py,       *)
(* agent/compaction.py, agent/budget.py, agent/progress.py.                *)
(*                                                                         *)
(* Messages are sizes in tokens.  A turn is the size of its texts and of   *)
(* its one tool result; sizes of required messages are constants.          *)
(***************************************************************************)
EXTENDS Integers, Sequences, FiniteSets, FiniteSetsExt

CONSTANTS
    Budget,      \* max_input_tokens
    Ceiling,     \* of one tool result
    Envelope,    \* what a shortened result costs beside its text
    System, Summary, Plan,  \* sizes of the system prompt, the summary, the plan
    Texts, Results,         \* sizes of the texts of a turn and of its results
    MaxTurns,
    KeepRecent,             \* KEEP_RECENT_TURNS
    Identical, Changing,    \* thresholds of the progress monitor
    Signatures,             \* of calls, and of their results
    MaxRounds               \* tool rounds of one turn

VARIABLES
    turns,     \* completed turns: [text, result]
    covered,   \* how many of them the summary stands for
    phase,     \* "idle", "summary", "request", "rounds"
    pending,   \* the turn in progress: [text, result]
    planned,   \* whether there is a plan
    request,   \* the turns of history last sent
    rounds,    \* the rounds of this turn: <<calls, results>>
    monitor,   \* ProgressMonitor: [previous, calls, results]
    stalled    \* its verdict on the last round

vars == <<turns, covered, phase, pending, planned, request, rounds, monitor, stalled>>

NoTurn == [text |-> 0, result |-> 0]
NotYet == {0}    \* no request of this turn was built
Unseen == [previous |-> <<>>, calls |-> 0, results |-> 0]

----------------------------------------------------------------------------
(* fit_tool_message: how much of a result's text is kept, by bisection.    *)
(* Mutant: a text that just fits is one too many.                          *)
MutantFitsIn(kept) == Envelope + kept < Ceiling

FitsIn(kept) == Envelope + kept <= Ceiling

Spans(size) == [low : 0..size + 1, high : -1..size, best : 0..size]

Probe(size) ==
    LET probe[s \in Spans(size)] ==
            LET middle == (s.low + s.high) \div 2 IN
            IF s.low > s.high THEN s.best
            ELSE IF FitsIn(middle) THEN probe[[s EXCEPT !.low = middle + 1, !.best = middle]]
            ELSE probe[[s EXCEPT !.high = middle - 1]]
    IN  probe

KeptOf(size) == Probe(size)[[low |-> 0, high |-> size, best |-> 0]]

Fitted(size) == IF size <= Ceiling THEN size ELSE Envelope + KeptOf(size)

(* project: what is stored is not touched.                                 *)
Sent(turn) == turn.text + Fitted(turn.result)

Stored(turn) == turn.text + turn.result

(* The n-th of the turns, from the newest, and the size of the n newest of *)
(* them, as they are sent.                                                 *)
Nth(n) == turns[Len(turns) - n + 1]
Newest[n \in 0..Len(turns)] == IF n = 0 THEN 0 ELSE Newest[n - 1] + Sent(Nth(n))

Required == System + (IF covered > 0 THEN Summary ELSE 0) + (IF planned THEN Plan ELSE 0) + Sent(pending)

(* build: newest turns first, until one does not fit.                      *)
Take[n \in 0..Len(turns)] ==
    IF n < Len(turns) - covered /\ Required + Newest[n + 1] <= Budget THEN Take[n + 1] ELSE n

Chosen == IF Required > Budget THEN 0 ELSE Take[0]

(* turns_to_compact: by what is stored.                                    *)
Eligible ==
    LET kept == covered + 1..Len(turns)
        used == MapThenSumSet(LAMBDA i : Stored(turns[i]), kept)
    IN  IF Cardinality(kept) > KeepRecent /\ 2 * used > Budget THEN Cardinality(kept) - KeepRecent ELSE 0

----------------------------------------------------------------------------
(* ProgressMonitor.record *)

Watched(calls, results) ==
    LET last == monitor.previous IN
    IF last = <<>> \/ last[1] # calls
    THEN [previous |-> <<calls, results>>, calls |-> 1, results |-> 1]
    ELSE [previous |-> <<calls, results>>, calls |-> monitor.calls + 1,
          results |-> IF last[2] = results THEN monitor.results + 1 ELSE 1]

(* Mutant: a change of the results starts the count of the calls again.    *)
MutantVerdict(m) == m.results >= Identical

Verdict(m) == m.results >= Identical \/ m.calls >= Changing

----------------------------------------------------------------------------
Init ==
    /\ turns = <<>> /\ covered = 0 /\ phase = "idle" /\ pending = NoTurn
    /\ planned = FALSE /\ request = NotYet
    /\ rounds = <<>> /\ monitor = Unseen /\ stalled = FALSE

Begin ==
    /\ phase = "idle" /\ Len(turns) < MaxTurns
    /\ phase' = IF Eligible > 0 THEN "summary" ELSE "request"
    /\ \E size \in Texts : pending' = [text |-> size, result |-> 0]
    /\ request' = NotYet
    /\ rounds' = <<>> /\ monitor' = Unseen /\ stalled' = FALSE
    /\ UNCHANGED <<turns, covered, planned>>

(* summarize; an error, or an empty summary, leaves things as they are.    *)
Summarise ==
    /\ phase = "summary" /\ phase' = "request"
    /\ covered' \in {covered, covered + Eligible}
    /\ UNCHANGED <<turns, pending, planned, request, rounds, monitor, stalled>>

Build ==
    /\ phase = "request" /\ phase' = "rounds"
    /\ request' = Len(turns) - Chosen + 1..Len(turns)
    /\ UNCHANGED <<turns, covered, pending, planned, rounds, monitor, stalled>>

(* A round of tools, one result of which counts; update_plan among them.   *)
Round ==
    /\ phase = "rounds" /\ ~stalled /\ Len(rounds) < MaxRounds
    /\ phase' = "request"
    /\ \E calls, results \in Signatures :
            /\ rounds' = Append(rounds, <<calls, results>>)
            /\ monitor' = Watched(calls, results)
    /\ stalled' = Verdict(monitor')
    /\ \E size \in Results : pending' = [pending EXCEPT !.result = size]
    /\ planned' \in {planned, TRUE}
    /\ UNCHANGED <<turns, covered, request>>

(* complete_turn, or abort_turn.                                           *)
End ==
    /\ phase = "rounds" /\ phase' = "idle"
    /\ turns' \in {turns, Append(turns, pending)}
    /\ pending' = NoTurn
    /\ UNCHANGED <<covered, planned, request, rounds, monitor, stalled>>

(* New chat, a session switched to: history is replaced, no summary.       *)
Replace ==
    /\ phase = "idle" /\ turns # <<>>
    /\ turns' = <<>> /\ covered' = 0 /\ planned' = FALSE
    /\ UNCHANGED <<phase, pending, request, rounds, monitor, stalled>>

Next == Begin \/ Summarise \/ Build \/ Round \/ End \/ Replace

Spec == Init /\ [][Next]_vars

----------------------------------------------------------------------------
(* What the largest text is that a result may keep, by definition.         *)
BestFit(size) ==
    IF size <= Ceiling THEN size
    ELSE Envelope + Max({0} \cup {k \in 0..size : Envelope + k <= Ceiling})

Cost(turn) == turn.text + BestFit(turn.result)

Costs[n \in 0..Len(turns)] == IF n = 0 THEN 0 ELSE Costs[n - 1] + Cost(Nth(n))

(* docs/ARCHITECTURE.md: context is recent, contiguous and turn-based; a   *)
(* request exceeds the budget only when what must be sent does alone.  The *)
(* history sent is the longest run of newest turns that fits, and no turn  *)
(* that the summary stands for is sent again.                              *)
RequestIsBest ==
    phase = "rounds" =>
        LET must == System + (IF covered > 0 THEN Summary ELSE 0) + (IF planned THEN Plan ELSE 0)
                    + Cost(pending)
            runs == 0..Len(turns) - covered
        IN  \E n \in runs :
                /\ request = Len(turns) - n + 1..Len(turns)
                /\ n > 0 => must + Costs[n] <= Budget
                /\ \A m \in runs : must + Costs[m] <= Budget => m <= n

(* agent/progress.py: a turn is told that it repeats itself exactly when   *)
(* its last rounds made the same calls with the same results, or, with     *)
(* more patience, the same calls with whatever results.                    *)
StallsAreSeen ==
    LET last(n) == Len(rounds) - n + 1..Len(rounds)
        same(n, what(_)) == n <= Len(rounds) /\ \A i, j \in last(n) : what(i) = what(j)
    IN  phase \in {"request", "rounds"} =>
        (stalled <=> same(Identical, LAMBDA i : rounds[i]) \/ same(Changing, LAMBDA i : rounds[i][1]))
=============================================================================
