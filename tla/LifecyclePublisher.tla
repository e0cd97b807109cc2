------------------------- MODULE LifecyclePublisher -------------------------
(***************************************************************************)
(* The publisher of one execution's lifecycle events (execution/events.py):*)
(* a bounded buffer that drops its oldest event, a slot of its own for the *)
(* terminal event, and a worker that hands one event at a time to a sink   *)
(* that may be slow, fail or never return.                                 *)
(* Events are their sequence numbers.  The deque holds increasing numbers, *)
(* so it is a set here: its left end is its least member.  The runner      *)
(* publishes nothing after a terminal stage.                               *)
(***************************************************************************)
EXTENDS Naturals, FiniteSets

CONSTANTS
    Capacity,   \* capacity of the buffer
    MaxEvents   \* bound: events of one run

ASSUME CapacityAssumption == Capacity \in Nat \ {0}
ASSUME MaxEventsAssumption == MaxEvents \in Nat

NoEvent == MaxEvents

VARIABLES
    sequence,   \* _sequence
    pending,    \* _pending
    terminal,   \* _terminal: the reserved slot
    claimed,    \* _terminal_claimed
    closed,     \* _closed
    worker,     \* "none", "idle", "sending", "ended"
    sending,    \* the event the sink has been given
    delivered,  \* events the sink took
    failures    \* events the sink refused

vars == <<sequence, pending, terminal, claimed, closed, worker, sending, delivered, failures>>

Events == 0..(MaxEvents - 1)

Init ==
    /\ sequence = 0
    /\ pending = {}
    /\ terminal = NoEvent
    /\ claimed = FALSE
    /\ closed = FALSE
    /\ worker = "none"
    /\ sending = NoEvent
    /\ delivered = {}
    /\ failures = {}

(* Mutant: any waiting event makes room.                                 *)
MutantOldest(e, set) == e \in set

Oldest(e, set) == e \in set /\ \A o \in set : e <= o

\* publish, of a stage that is not terminal
Publish ==
    /\ ~closed /\ ~claimed /\ sequence < MaxEvents
    /\ IF Cardinality(pending) >= Capacity
       THEN \E e \in pending : Oldest(e, pending) /\ pending' = (pending \ {e}) \cup {sequence}
       ELSE pending' = pending \cup {sequence}
    /\ sequence' = sequence + 1
    /\ worker' = IF worker = "none" THEN "idle" ELSE worker
    /\ UNCHANGED <<terminal, claimed, closed, sending, delivered, failures>>

\* publish, of the one terminal stage
PublishTerminal ==
    /\ ~closed /\ ~claimed /\ sequence < MaxEvents
    /\ terminal' = sequence
    /\ claimed' = TRUE
    /\ sequence' = sequence + 1
    /\ worker' = IF worker = "none" THEN "idle" ELSE worker
    /\ UNCHANGED <<pending, closed, sending, delivered, failures>>

\* aclose, up to its wait for the worker
Close ==
    /\ ~closed
    /\ closed' = TRUE
    /\ UNCHANGED <<sequence, pending, terminal, claimed, worker, sending, delivered, failures>>

\* _drain: the oldest transient event, or the terminal one when there is none
Take ==
    /\ worker = "idle"
    /\ \/ \E e \in pending :
            /\ Oldest(e, pending)
            /\ sending' = e
            /\ pending' = pending \ {e}
            /\ UNCHANGED terminal
       \/ /\ pending = {} /\ terminal # NoEvent
          /\ sending' = terminal
          /\ terminal' = NoEvent
          /\ UNCHANGED pending
    /\ worker' = "sending"
    /\ UNCHANGED <<sequence, claimed, closed, delivered, failures>>

\* the sink returns, or raises
SinkReturns ==
    /\ worker = "sending"
    /\ \/ delivered' = delivered \cup {sending} /\ UNCHANGED failures
       \/ failures' = failures \cup {sending} /\ UNCHANGED delivered
    /\ sending' = NoEvent
    /\ worker' = "idle"
    /\ UNCHANGED <<sequence, pending, terminal, claimed, closed>>

\* _drain returns: closed and nothing left
WorkerEnds ==
    /\ worker = "idle" /\ closed /\ pending = {} /\ terminal = NoEvent
    /\ worker' = "ended"
    /\ UNCHANGED <<sequence, pending, terminal, claimed, closed, sending, delivered, failures>>

\* aclose: the drain timeout passes, or the wait is itself cancelled
GivesUp ==
    /\ closed /\ worker \in {"idle", "sending"}
    /\ worker' = "ended"
    /\ sending' = NoEvent
    /\ UNCHANGED <<sequence, pending, terminal, claimed, closed, delivered, failures>>

Next == Publish \/ PublishTerminal \/ Close \/ Take \/ SinkReturns \/ WorkerEnds \/ GivesUp

Spec == Init /\ [][Next]_vars

-----------------------------------------------------------------------------
TypeOK ==
    /\ sequence \in 0..MaxEvents
    /\ pending \in SUBSET Events
    /\ terminal \in 0..MaxEvents
    /\ claimed \in BOOLEAN /\ closed \in BOOLEAN
    /\ worker \in {"none", "idle", "sending", "ended"}
    /\ sending \in 0..MaxEvents
    /\ delivered \in SUBSET Events
    /\ failures \in SUBSET Events

Past == delivered \cup failures

\* What the sink has seen is older than what it is given, that is older than
\* what waits, and the terminal event is the youngest of all: however the
\* buffer overflows, the interface never hears of a stage after a later one.
NeverBackwards ==
    /\ \A e \in Past : /\ sending # NoEvent => e < sending
                       /\ \A o \in pending : e < o
                       /\ terminal # NoEvent => e < terminal
    /\ \A o \in pending : /\ sending # NoEvent => sending < o
                          /\ terminal # NoEvent => o < terminal
    /\ sending # NoEvent /\ terminal # NoEvent => sending < terminal

\* The terminal event outlives a full buffer: until the run stops waiting it
\* is in its slot, with the sink, or behind both (docs/ARCHITECTURE.md:1344).
TerminalSurvives ==
    claimed /\ worker # "ended" =>
        \/ terminal = sequence - 1
        \/ sending = sequence - 1
        \/ sequence - 1 \in Past

\* What the interface is told is in order, and the end is told.
StagesAreHeard == NeverBackwards /\ TerminalSurvives
=============================================================================
