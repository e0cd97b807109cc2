-------------------------- MODULE Interaction_proofs --------------------------
(***************************************************************************)
(* What stands between the user and the model, for any prompts and calls,  *)
(* windows and sessions, files, checkpoints and flows: the publisher, the  *)
(* agent, stored sessions, signing in, file mutations, checkpoints, notes, *)
(* credentials and the conversation keep the invariants below, and the     *)
(* worlds of MCInteraction are theirs.                                     *)
(***************************************************************************)
EXTENDS MCInteraction, SequenceTheorems, FiniteSetTheorems, WellFoundedInduction,
        TLAPS

-----------------------------------------------------------------------------
(* The publisher: what the interface is told of a run is in order, and its *)
(* end is told, for a buffer of any capacity.                              *)

(* Nothing is numbered before it is published, only a taken event is with  *)
(* the sink, and the terminal event is the last one published.             *)
Numbered ==
    /\ \A e \in pending \cup Past : e < sequence
    /\ sending # NoEvent => sending < sequence
    /\ worker = "sending" <=> sending # NoEvent

EndIsLast ==
    /\ terminal # NoEvent => claimed /\ terminal = sequence - 1
    /\ claimed => sequence > 0 /\ worker # "none"
    /\ claimed => \A e \in pending : e < sequence - 1

PublisherInv == TypeOK /\ Numbered /\ EndIsLast /\ NeverBackwards /\ TerminalSurvives

LEMMA InitHolds == Init => PublisherInv
<1> SUFFICES ASSUME Init PROVE PublisherInv
    OBVIOUS
<1>0. claimed \in BOOLEAN /\ closed \in BOOLEAN
    BY Zenon DEF Init
<1>1. TypeOK
    BY <1>0, MaxEventsAssumption, SMT DEF Init, TypeOK, Events, NoEvent
<1>2. Numbered /\ NeverBackwards
    BY DEF Init, Numbered, NeverBackwards, Past
<1>3. EndIsLast /\ TerminalSurvives
    BY Zenon DEF Init, EndIsLast, TerminalSurvives
<1> QED BY <1>1, <1>2, <1>3 DEF PublisherInv

LEMMA PublishHolds == PublisherInv /\ Publish => PublisherInv'
<1> SUFFICES ASSUME PublisherInv, Publish PROVE PublisherInv'
    OBVIOUS
<1> USE DEF PublisherInv
<1>1. /\ sequence \in Events /\ sequence' = sequence + 1
      /\ pending' \subseteq pending \cup {sequence}
    BY MaxEventsAssumption DEF Publish, TypeOK, Events
<1>2. terminal = NoEvent /\ ~claimed
    BY MaxEventsAssumption DEF Publish, EndIsLast
<1>3. TypeOK'
    BY MaxEventsAssumption, <1>1 DEF Publish, TypeOK, Events
<1>4. Numbered' /\ EndIsLast' /\ TerminalSurvives'
    BY MaxEventsAssumption, <1>1, <1>2
    DEF Publish, TypeOK, Numbered, EndIsLast, TerminalSurvives, Past, Events,
        NoEvent
<1>5. NeverBackwards'
    BY MaxEventsAssumption, <1>1, <1>2
    DEF Publish, TypeOK, Numbered, NeverBackwards, Past, Events, NoEvent
<1> QED BY MaxEventsAssumption, <1>3, <1>4, <1>5

LEMMA TerminalHolds == PublisherInv /\ PublishTerminal => PublisherInv'
<1> SUFFICES ASSUME PublisherInv, PublishTerminal PROVE PublisherInv'
    OBVIOUS
<1> USE DEF PublisherInv, PublishTerminal
<1>1. TypeOK' /\ terminal' = sequence /\ sequence' = sequence + 1 /\ sequence \in Events
    BY MaxEventsAssumption DEF TypeOK, Events
<1>2. Numbered' /\ EndIsLast' /\ TerminalSurvives'
    BY MaxEventsAssumption, <1>1
    DEF TypeOK, Numbered, EndIsLast, TerminalSurvives, Past, Events, NoEvent
<1>3. NeverBackwards'
    BY MaxEventsAssumption, <1>1
    DEF TypeOK, Numbered, NeverBackwards, Past, Events, NoEvent
<1> QED BY MaxEventsAssumption, <1>1, <1>2, <1>3

LEMMA TakeHolds == PublisherInv /\ Take => PublisherInv'
<1> SUFFICES ASSUME PublisherInv, Take PROVE PublisherInv'
    OBVIOUS
<1> USE DEF PublisherInv
<1>1. CASE \E e \in pending : Oldest(e, pending) /\ sending' = e
                              /\ pending' = pending \ {e} /\ UNCHANGED terminal
    <2> PICK e \in pending : Oldest(e, pending) /\ sending' = e
                             /\ pending' = pending \ {e} /\ UNCHANGED terminal
        BY MaxEventsAssumption, <1>1
    <2>1. TypeOK' /\ Numbered' /\ EndIsLast'
        BY MaxEventsAssumption
        DEF Take, TypeOK, Numbered, EndIsLast, Past, Events, NoEvent
    <2>2. \A o \in pending' : e < o
        BY MaxEventsAssumption DEF Oldest, TypeOK, Events
    <2>3. NeverBackwards'
        BY MaxEventsAssumption, <2>2
        DEF Take, TypeOK, NeverBackwards, Past, Events, NoEvent
    <2>4. TerminalSurvives'
        BY MaxEventsAssumption
        DEF Take, TypeOK, Numbered, TerminalSurvives, Past, Events, NoEvent
    <2> QED BY MaxEventsAssumption, <2>1, <2>3, <2>4
<1>2. CASE pending = {} /\ terminal # NoEvent /\ sending' = terminal
           /\ terminal' = NoEvent /\ UNCHANGED pending
    BY MaxEventsAssumption, <1>2
    DEF Take, TypeOK, Numbered, EndIsLast, NeverBackwards, TerminalSurvives, Past,
        Events, NoEvent
<1> QED BY MaxEventsAssumption, <1>1, <1>2 DEF Take

LEMMA SinkHolds == PublisherInv /\ SinkReturns => PublisherInv'
<1> SUFFICES ASSUME PublisherInv, SinkReturns PROVE PublisherInv'
    OBVIOUS
<1> USE DEF PublisherInv, SinkReturns
<1>1. sending \in Events /\ Past' = Past \cup {sending}
    BY MaxEventsAssumption DEF Past, TypeOK, Numbered, Events, NoEvent
<1>2. TypeOK'
    <2>1. delivered' \in SUBSET Events /\ failures' \in SUBSET Events
        BY <1>1 DEF TypeOK
    <2>2. sending' \in 0..MaxEvents
        BY MaxEventsAssumption DEF NoEvent
    <2> QED BY <2>1, <2>2 DEF TypeOK, Events
<1>3. Numbered' /\ EndIsLast' /\ TerminalSurvives'
    BY <1>1 DEF TypeOK, Numbered, EndIsLast, TerminalSurvives, NoEvent
<1>4. NeverBackwards'
    BY <1>1, MaxEventsAssumption DEF TypeOK, NeverBackwards, Events, NoEvent
<1> QED BY <1>2, <1>3, <1>4

LEMMA EndHolds == PublisherInv /\ (Close \/ WorkerEnds \/ GivesUp) => PublisherInv'
<1> SUFFICES ASSUME PublisherInv, Close \/ WorkerEnds \/ GivesUp PROVE PublisherInv'
    OBVIOUS
<1>0. worker = "idle" => sending = NoEvent
    BY DEF PublisherInv, Numbered
<1>1. UNCHANGED <<sequence, pending, terminal, claimed, delivered, failures>>
      /\ (UNCHANGED <<worker, sending>> \/ (worker' = "ended" /\ sending' = NoEvent))
    <2>1. CASE Close
        BY <2>1 DEF Close
    <2>2. CASE WorkerEnds
        BY <2>2, <1>0 DEF WorkerEnds
    <2>3. CASE GivesUp
        BY <2>3 DEF GivesUp
    <2> QED BY <2>1, <2>2, <2>3
<1>2. closed' \in BOOLEAN
    BY DEF PublisherInv, TypeOK, Close, WorkerEnds, GivesUp
<1>3. TypeOK'
    BY <1>1, <1>2, MaxEventsAssumption DEF PublisherInv, TypeOK, NoEvent
<1>4. Numbered' /\ EndIsLast' /\ NeverBackwards' /\ TerminalSurvives'
    BY <1>1
    DEF PublisherInv, Numbered, EndIsLast, NeverBackwards, TerminalSurvives, Past,
        NoEvent
<1> QED BY <1>3, <1>4 DEF PublisherInv

LEMMA StutterHolds == PublisherInv /\ UNCHANGED vars => PublisherInv'
BY MaxEventsAssumption
DEF PublisherInv, vars, TypeOK, Numbered, EndIsLast, NeverBackwards,
    TerminalSurvives, Past

(* LifecyclePublisher: whatever the capacity, and however the buffer       *)
(* overflows, the sink fails or the wait is given up, the interface hears  *)
(* the stages of a run in order and hears its end (publish,                *)
(* publish_terminal, _drain and aclose of execution/events.py).            *)
THEOREM StagesAlwaysHeard == Spec => []StagesAreHeard
<1>1. Init => PublisherInv
    BY InitHolds
<1>2. PublisherInv /\ [Next]_vars => PublisherInv'
    BY PublishHolds, TerminalHolds, TakeHolds, SinkHolds, EndHolds, StutterHolds
    DEF Next
<1>3. PublisherInv => StagesAreHeard
    BY DEF PublisherInv, StagesAreHeard
<1> QED BY <1>1, <1>2, <1>3, PTL DEF Spec

-----------------------------------------------------------------------------
(* Sessions, for any windows, sessions and turns: until two windows have   *)
(* been on one session, its row is a prefix of what its window shows, and  *)
(* the count the window keeps is of turns the row has.                     *)

Talks == Seq(Nat)
SessionRows == [turns : Talks, title : {"new", "auto", "custom"}]
WindowStates == [on : BOOLEAN, id : Nat, count : Nat, turns : Talks, due : BOOLEAN]

SessionsTyped ==
    /\ minted \in Nat /\ spoken \in Nat
    /\ window \in [Windows -> WindowStates]
    /\ Stored!Ids \subseteq 1..minted /\ \A id \in Stored!Ids : db[id] \in SessionRows
    /\ \A w \in Windows : /\ window[w].on => window[w].id \in 1..minted
                          /\ window[w].due => window[w].on

(* Two windows on one session have met there.                              *)
MetIsShared ==
    \A v, w \in Windows :
        v # w /\ window[v].on /\ window[w].on /\ window[v].id = window[w].id
            => window[w].id \in shared

WindowFits(w) ==
    window[w].on /\ window[w].id \in Stored!Ids \ shared =>
        /\ Stored!IsPrefix(db[window[w].id].turns, window[w].turns)
        /\ window[w].count <= Len(db[window[w].id].turns)

SessionsInv == SessionsTyped /\ MetIsShared /\ \A w \in Windows : WindowFits(w)

(* Conversations as sequences.                                             *)
LEMMA PrefixOfItself ==
    ASSUME NEW s \in Talks PROVE Stored!IsPrefix(s, s) /\ Len(s) \in Nat
BY DEF Stored!IsPrefix, Talks

LEMMA NoTurns == <<>> \in Talks /\ Len(<<>>) = 0 /\ Stored!IsPrefix(<<>>, <<>>)
<1>1. <<>> \in Talks /\ Len(<<>>) = 0
    BY DEF Talks
<1> QED BY <1>1, PrefixOfItself

LEMMA PrefixGrows ==
    ASSUME NEW s \in Talks, NEW t \in Talks, NEW x \in Nat, Stored!IsPrefix(s, t)
    PROVE  Stored!IsPrefix(s, Append(t, x)) /\ Append(t, x) \in Talks
<1>1. /\ Len(s) \in Nat /\ Len(t) \in Nat /\ Len(s) <= Len(t)
      /\ Len(Append(t, x)) = Len(t) + 1
    BY DEF Talks, Stored!IsPrefix
<1>2. SubSeq(Append(t, x), 1, Len(s)) = SubSeq(t, 1, Len(s))
    BY <1>1 DEF Talks
<1> QED BY <1>1, <1>2 DEF Stored!IsPrefix, Talks

LEMMA ExtendedIsTurns ==
    ASSUME NEW s \in Talks, NEW t \in Talks
    PROVE  /\ Stored!Extended(s, t) \in Talks /\ Len(s) <= Len(Stored!Extended(s, t))
           /\ Stored!IsPrefix(s, t) => Stored!Extended(s, t) = t
<1>1. Len(s) \in Nat /\ Len(t) \in Nat
    BY DEF Talks
<1>2. SubSeq(t, Len(s) + 1, Len(t)) \in Talks
    BY <1>1, SubSeqProperties DEF Talks
<1>3. Stored!Extended(s, t) \in Talks /\ Len(s) <= Len(Stored!Extended(s, t))
    BY <1>1, <1>2, ConcatProperties, LenProperties DEF Stored!Extended, Talks
<1>4. ASSUME Stored!IsPrefix(s, t) PROVE Stored!Extended(s, t) = t
    <2>1. Len(s) <= Len(t) /\ SubSeq(s, 1, Len(s)) = SubSeq(t, 1, Len(s))
        BY <1>4 DEF Stored!IsPrefix
    <2>2. SubSeq(s, 1, Len(s)) = s /\ SubSeq(t, 1, Len(t)) = t
        BY SubSeqFull DEF Talks
    <2>3. SubSeq(t, 1, Len(s)) \o SubSeq(t, Len(s) + 1, Len(t)) = SubSeq(t, 1, Len(t))
        <3>1. /\ t \in Seq(Nat) /\ 1 \in 1..Len(t) + 1 /\ Len(s) \in 1 - 1..Len(t)
              /\ Len(t) \in Len(s)..Len(t)
            BY <1>1, <2>1 DEF Talks
        <3> QED BY <3>1, ConcatAdjacentSubSeq
    <2> QED BY <2>1, <2>2, <2>3 DEF Stored!Extended
<1> QED BY <1>3, <1>4

(* A window that a step leaves alone.                                      *)
LEMMA WindowApart ==
    ASSUME NEW v \in Windows, WindowFits(v), window'[v] = window[v], shared \subseteq shared',
           window[v].on /\ window[v].id \in Stored!Ids' \ shared' =>
               window[v].id \in Stored!Ids /\ db'[window[v].id].turns = db[window[v].id].turns
    PROVE  WindowFits(v)'
BY DEF WindowFits

LEMMA RowsNew ==
    /\ Stored!NewRow \in SessionRows /\ Stored!NewRow.turns = <<>>
    /\ Stored!Off \in WindowStates /\ ~Stored!Off.on /\ ~Stored!Off.due
    /\ \A n \in Nat : LET new == [Stored!Off EXCEPT !.on = TRUE, !.id = n] IN
        new \in WindowStates /\ new.on /\ ~new.due /\ new.id = n /\ new.turns = <<>> /\ new.count = 0
BY NoTurns DEF Stored!NewRow, SessionRows, Stored!Off, WindowStates

(* A window on a session that is new.                                      *)
StartsSession(w) ==
    /\ minted' = minted + 1 /\ Stored!Ids' \subseteq Stored!Ids \cup {minted + 1}
    /\ \A id \in Stored!Ids' : db'[id] = IF id = minted + 1 THEN Stored!NewRow ELSE db[id]
    /\ window' = [window EXCEPT ![w] = [Stored!Off EXCEPT !.on = TRUE, !.id = minted + 1]]
    /\ UNCHANGED <<spoken, shared>>

LEMMA StartKeeps ==
    ASSUME SessionsInv, NEW w \in Windows, StartsSession(w)
    PROVE  SessionsInv'
<1>1. /\ minted \in Nat /\ minted + 1 \in Nat /\ minted + 1 \notin Stored!Ids
      /\ \A v \in Windows : window[v].on => window[v].id # minted + 1
    BY DEF SessionsInv, SessionsTyped
<1>2. /\ window'[w] \in WindowStates /\ window'[w].on /\ window'[w].id = minted + 1
      /\ window'[w].turns = <<>> /\ window'[w].count = 0 /\ ~window'[w].due
      /\ \A v \in Windows \ {w} : window'[v] = window[v]
    BY <1>1, RowsNew DEF StartsSession, SessionsInv, SessionsTyped
<1>3. SessionsTyped'
    <2>1. window' \in [Windows -> WindowStates]
        BY <1>1, RowsNew DEF StartsSession, SessionsInv, SessionsTyped
    <2>2. Stored!Ids' \subseteq 1..minted'
        BY <1>1 DEF StartsSession, SessionsInv, SessionsTyped
    <2>3. \A id \in Stored!Ids' : db'[id] \in SessionRows
        BY RowsNew DEF StartsSession, SessionsInv, SessionsTyped
    <2>4. \A v \in Windows : /\ window'[v].on => window'[v].id \in 1..minted'
                             /\ window'[v].due => window'[v].on
        BY <1>1, <1>2 DEF StartsSession, SessionsInv, SessionsTyped
    <2> QED
        BY <1>1, <2>1, <2>2, <2>3, <2>4
        DEF SessionsTyped, StartsSession, SessionsInv
<1>4. MetIsShared'
    BY <1>1, <1>2 DEF MetIsShared, SessionsInv, StartsSession
<1>5. WindowFits(w)'
    <2>1. window'[w].id \in Stored!Ids' => db'[window'[w].id].turns = <<>>
        BY <1>1, <1>2, RowsNew DEF StartsSession
    <2> QED BY <1>2, <2>1, NoTurns DEF WindowFits
<1>6. ASSUME NEW v \in Windows \ {w} PROVE WindowFits(v)'
    BY <1>1, <1>2, WindowApart DEF StartsSession, SessionsInv
<1> QED BY <1>3, <1>4, <1>5, <1>6 DEF SessionsInv

(* A window that changes what it shows.                                    *)
ShowsTurns(w, talk, count) ==
    /\ window' \in [Windows -> WindowStates]
    /\ \A v \in Windows \ {w} : window'[v] = window[v]
    /\ window'[w].on = window[w].on /\ window'[w].id = window[w].id
    /\ window'[w].turns = talk /\ window'[w].count = count /\ window[w].on

LEMMA WindowShows ==
    ASSUME SessionsTyped, NEW w \in Windows
    PROVE  /\ window[w] \in WindowStates /\ window[w].turns \in Talks
           /\ window[w].count \in Nat
           /\ window[w].id \in Nat /\ \A id \in Stored!Ids : db[id].turns \in Talks
BY DEF SessionsTyped, WindowStates, SessionRows

LEMMA WindowTurned ==
    ASSUME SessionsTyped, NEW w \in Windows, window[w].on, NEW s \in Talks, NEW d \in BOOLEAN,
           \/ window' = [window EXCEPT ![w].turns = s, ![w].due = d]
           \/ window' = [window EXCEPT ![w].turns = s]
    PROVE  ShowsTurns(w, s, window[w].count)
<1>1. CASE window' = [window EXCEPT ![w].turns = s, ![w].due = d]
    <2>1. window'[w] = [window[w] EXCEPT !.turns = s, !.due = d]
        BY <1>1 DEF SessionsTyped
    <2>2. [window[w] EXCEPT !.turns = s, !.due = d] \in WindowStates
        BY DEF SessionsTyped, WindowStates
    <2> QED BY <1>1, <2>1, <2>2 DEF SessionsTyped, WindowStates, ShowsTurns
<1>2. CASE window' = [window EXCEPT ![w].turns = s]
    BY <1>2 DEF SessionsTyped, WindowStates, ShowsTurns
<1> QED BY <1>1, <1>2

LEMMA WindowCounted ==
    ASSUME SessionsTyped, NEW w \in Windows, window[w].on, NEW n \in Nat, NEW d \in BOOLEAN,
           \/ window' = [window EXCEPT ![w].due = d, ![w].count = n]
           \/ window' = [window EXCEPT ![w].count = n]
    PROVE  ShowsTurns(w, window[w].turns, n)
<1>1. CASE window' = [window EXCEPT ![w].due = d, ![w].count = n]
    BY <1>1 DEF SessionsTyped, WindowStates, ShowsTurns
<1>2. CASE window' = [window EXCEPT ![w].count = n]
    BY <1>2 DEF SessionsTyped, WindowStates, ShowsTurns
<1> QED BY <1>1, <1>2

LEMMA WindowSettled ==
    ASSUME SessionsTyped, NEW w \in Windows, window[w].on, NEW d \in BOOLEAN,
           window' = window \/ window' = [window EXCEPT ![w].due = d]
    PROVE  ShowsTurns(w, window[w].turns, window[w].count)
BY DEF SessionsTyped, WindowStates, ShowsTurns

(* A step of a window on its session: rows change only their titles, but   *)
(* for that of the window's session.                                       *)
WorksOn(w) ==
    /\ UNCHANGED <<minted, shared>> /\ spoken' \in Nat
    /\ Stored!Ids' \subseteq Stored!Ids
    /\ \A id \in Stored!Ids' : db'[id] \in SessionRows
    /\ \A id \in Stored!Ids' : id # window[w].id => db'[id].turns = db[id].turns

LEMMA WorkKeeps ==
    ASSUME SessionsInv, NEW w \in Windows, NEW s, NEW n, ShowsTurns(w, s, n), WorksOn(w), WindowFits(w)'
    PROVE  SessionsInv'
<1>2. SessionsTyped'
    BY DEF WorksOn, ShowsTurns, SessionsInv, SessionsTyped
<1>3. MetIsShared'
    BY DEF MetIsShared, SessionsInv, WorksOn, ShowsTurns
<1>4. ASSUME NEW v \in Windows \ {w} PROVE WindowFits(v)'
    BY WindowApart DEF WorksOn, ShowsTurns, SessionsInv, MetIsShared
<1> QED BY <1>2, <1>3, <1>4 DEF SessionsInv

LEMMA OpenKeeps ==
    ASSUME SessionsInv, NEW w \in Windows,
           Stored!Open(w) \/ Stored!NewChat(w) \/ Stored!NewChatHalfDone(w) \/ \E id \in Stored!Ids : id = window[w].id /\ Stored!Delete(w, id)
    PROVE  SessionsInv'
<1> USE DEF StartsSession, Stored!Creates, Stored!With, Stored!Ids
<1>1. CASE Stored!Open(w) \/ Stored!NewChatHalfDone(w)
    BY <1>1, StartKeeps DEF Stored!Open, Stored!NewChatHalfDone
<1>2. CASE Stored!NewChat(w)
    BY <1>2, StartKeeps
    DEF Stored!NewChat, Stored!Emptied, Stored!Without, Stored!Restrict
<1>3. CASE \E id \in Stored!Ids : id = window[w].id /\ Stored!Delete(w, id)
    BY <1>3, StartKeeps DEF Stored!Delete, Stored!Without, Stored!Restrict
<1> QED BY <1>1, <1>2, <1>3

LEMMA SpeakKeeps ==
    ASSUME SessionsInv, NEW w \in Windows, Stored!Speak(w)
    PROVE  SessionsInv'
<1>0. SessionsTyped /\ spoken \in Nat /\ window[w].on /\ WindowFits(w)
    BY DEF SessionsInv, SessionsTyped, Stored!Speak, Stored!Idle
<1> DEFINE new == Append(window[w].turns, spoken + 1)
<1>1. new \in Talks /\ spoken + 1 \in Nat
    <2>1. window[w].turns \in Seq(Nat)
        BY <1>0, WindowShows DEF Talks
    <2> QED BY <1>0, <2>1 DEF Talks
<1>2. window' = [window EXCEPT ![w].turns = new, ![w].due = TRUE] /\ WorksOn(w)
    BY <1>0, <1>1 DEF Stored!Speak, WorksOn, SessionsTyped, Stored!Ids
<1> HIDE DEF new
<1>3. ShowsTurns(w, new, window[w].count)
    BY <1>0, <1>1, <1>2, WindowTurned
<1>4. UNCHANGED <<db, shared>>
    BY DEF Stored!Speak
<1>5. \A s \in Talks : Stored!IsPrefix(s, window[w].turns) => Stored!IsPrefix(s, new)
    BY <1>0, <1>1, PrefixGrows, WindowShows DEF new
<1>6. WindowFits(w)'
    BY <1>0, <1>3, <1>4, <1>5, WindowShows DEF WindowFits, ShowsTurns, Stored!Ids
<1> QED BY <1>0, <1>2, <1>3, <1>6, WorkKeeps

LEMMA SkipKeeps ==
    ASSUME SessionsInv, NEW w \in Windows, Stored!SaveSkipped(w) \/ Stored!SaveFails(w)
    PROVE  SessionsInv'
<1>0. /\ SessionsTyped /\ WindowFits(w) /\ window' = [window EXCEPT ![w].due = FALSE]
      /\ window[w].on
      /\ UNCHANGED <<db, minted, spoken, shared>>
    BY DEF SessionsInv, Stored!SaveSkipped, Stored!SaveFails, SessionsTyped
<1>1. ShowsTurns(w, window[w].turns, window[w].count)
    BY <1>0, WindowSettled
<1>2. WorksOn(w)
    BY <1>0 DEF WorksOn, SessionsTyped, Stored!Ids
<1>3. WindowFits(w)'
    BY <1>0, <1>1 DEF WindowFits, ShowsTurns, Stored!Ids
<1> QED BY <1>0, <1>1, <1>2, <1>3, WorkKeeps

LEMMA SaveKeeps ==
    ASSUME SessionsInv, NEW w \in Windows, Stored!Save(w) \/ Stored!SaveHalfDone(w)
    PROVE  SessionsInv'
<1> DEFINE id == window[w].id
<1> DEFINE new == Stored!Extended(db[id].turns, window[w].turns)
<1>1. /\ SessionsTyped /\ WindowFits(w) /\ window[w].on /\ id \in Stored!Ids
      /\ db[id] \in SessionRows
      /\ window[w].turns \in Talks /\ window[w].count \in Nat
    BY WindowShows
    DEF SessionsInv, Stored!Save, Stored!SaveHalfDone, Stored!Accepts, SessionsTyped
<1>2. /\ new \in Talks /\ Len(db[id].turns) <= Len(new)
      /\ Len(new) \in Nat /\ Len(db[id].turns) \in Nat
      /\ Stored!IsPrefix(db[id].turns, window[w].turns) => new = window[w].turns
    <2>1. db[id].turns \in Talks
        BY <1>1, WindowShows
    <2> HIDE DEF id
    <2> QED BY <1>1, <2>1, ExtendedIsTurns, PrefixOfItself
<1> HIDE DEF new
<1>3. /\ [db[id] EXCEPT !.turns = new] \in SessionRows
      /\ [db[id] EXCEPT !.turns = new].turns = new
      /\ Stored!Titled([db[id] EXCEPT !.turns = new]) \in SessionRows
      /\ Stored!Titled([db[id] EXCEPT !.turns = new]).turns = new
    <2>1. /\ [db[id] EXCEPT !.turns = new] \in SessionRows
          /\ [db[id] EXCEPT !.turns = new].turns = new
        BY <1>1, <1>2 DEF SessionRows
    <2>2. \A row \in SessionRows : Stored!Titled(row) \in SessionRows /\ Stored!Titled(row).turns = row.turns
        BY DEF Stored!Titled, Stored!AutoTitle, SessionRows
    <2> QED BY <2>1, <2>2
<1>4. /\ \/ db' = [db EXCEPT ![id] = Stored!Titled([db[id] EXCEPT !.turns = new])]
         \/ db' = [db EXCEPT ![id] = [db[id] EXCEPT !.turns = new]]
      /\ \/ window' = [window EXCEPT ![w].due = FALSE, ![w].count = Len(new)]
         \/ window' = [window EXCEPT ![w].due = FALSE]
      /\ UNCHANGED <<minted, spoken, shared>>
    BY <1>3 DEF Stored!Save, Stored!SaveHalfDone, new
<1>5. /\ db'[id].turns = new /\ db'[id] \in SessionRows /\ Stored!Ids' = Stored!Ids
      /\ \A i \in Stored!Ids : i # id => db'[i] = db[i]
    BY <1>1, <1>3, <1>4 DEF Stored!Ids
<1>6. ShowsTurns(w, window[w].turns, Len(new)) \/ ShowsTurns(w, window[w].turns, window[w].count)
    BY <1>1, <1>2, <1>4, WindowCounted, WindowSettled
<1>7. WorksOn(w)
    BY <1>1, <1>4, <1>5 DEF WorksOn, SessionsTyped
<1>8. WindowFits(w)'
    <2> SUFFICES ASSUME id \in Stored!Ids \ shared
                 PROVE  Stored!IsPrefix(new, window[w].turns) /\ window'[w].count <= Len(new)
        BY <1>4, <1>5, <1>6 DEF WindowFits, ShowsTurns
    <2>1. /\ Stored!IsPrefix(db[id].turns, window[w].turns)
          /\ window[w].count <= Len(db[id].turns)
        BY <1>1 DEF WindowFits
    <2>2. new = window[w].turns /\ Stored!IsPrefix(new, window[w].turns)
        BY <1>1, <1>2, <2>1, PrefixOfItself
    <2>3. window'[w].count = Len(new) \/ window'[w].count = window[w].count
        BY <1>6 DEF ShowsTurns
    <2>4. Len(new) \in Nat /\ Len(db[id].turns) \in Nat /\ window[w].count \in Nat
          /\ Len(db[id].turns) <= Len(new)
        BY <1>1, <1>2
    <2> HIDE DEF id
    <2> QED BY <2>1, <2>2, <2>3, <2>4
<1> QED BY <1>6, <1>7, <1>8, WorkKeeps

LEMMA RenameKeeps ==
    ASSUME SessionsInv, NEW w \in Windows, NEW id \in Stored!Ids, Stored!Rename(w, id)
    PROVE  SessionsInv'
<1>1. /\ SessionsTyped /\ WindowFits(w) /\ window[w].on /\ db[id] \in SessionRows
      /\ Len(db[id].turns) \in Nat
    BY WindowShows, PrefixOfItself
    DEF SessionsInv, Stored!Rename, Stored!Idle, SessionsTyped
<1>2. db' = [db EXCEPT ![id].title = "custom"] /\ UNCHANGED <<minted, spoken, shared>>
    BY DEF Stored!Rename
<1>3. /\ Stored!Ids' = Stored!Ids
      /\ \A i \in Stored!Ids : db'[i] \in SessionRows /\ db'[i].turns = db[i].turns
    <2>1. db'[id] = [db[id] EXCEPT !.title = "custom"] /\ Stored!Ids' = Stored!Ids
          /\ \A i \in Stored!Ids : i # id => db'[i] = db[i]
        BY <1>2 DEF Stored!Ids
    <2>2. db'[id] \in SessionRows /\ db'[id].turns = db[id].turns
        BY <1>1, <2>1 DEF SessionRows
    <2> QED BY <1>1, <2>1, <2>2 DEF SessionsTyped
<1>4. \/ window[w].id = id /\ ShowsTurns(w, window[w].turns, Len(db[id].turns))
      \/ ShowsTurns(w, window[w].turns, window[w].count)
    BY <1>1, WindowCounted, WindowSettled DEF Stored!Rename
<1>5. WorksOn(w)
    BY <1>1, <1>2, <1>3 DEF WorksOn, SessionsTyped
<1>6. WindowFits(w)'
    BY <1>1, <1>2, <1>3, <1>4 DEF WindowFits, ShowsTurns
<1> QED BY <1>4, <1>5, <1>6, WorkKeeps

LEMMA RemoveKeeps ==
    ASSUME SessionsInv, NEW w \in Windows,
           \/ Stored!DeleteHalfDone(w)
           \/ \E id \in Stored!Ids : id # window[w].id /\ Stored!Delete(w, id)
    PROVE  SessionsInv'
<1>1. SessionsTyped /\ WindowFits(w) /\ window[w].on
    BY DEF SessionsInv, Stored!DeleteHalfDone, Stored!Delete, Stored!Idle
<1>2. PICK id \in Stored!Ids : /\ db' = Stored!Without(db, id) /\ UNCHANGED <<minted, spoken, shared>>
                               /\ \/ window' = window
                                  \/ id = window[w].id /\ window' = [window EXCEPT ![w].turns = <<>>]
    BY DEF Stored!DeleteHalfDone, Stored!Delete
<1>3. Stored!Ids' = Stored!Ids \ {id} /\ \A i \in Stored!Ids \ {id} : db'[i] = db[i]
    BY <1>2 DEF Stored!Without, Stored!Restrict, Stored!Ids
<1>4. \/ ShowsTurns(w, window[w].turns, window[w].count)
      \/ window[w].id = id /\ ShowsTurns(w, <<>>, window[w].count)
    BY <1>1, <1>2, NoTurns, WindowSettled, WindowTurned
<1>5. WorksOn(w)
    BY <1>1, <1>2, <1>3 DEF WorksOn, SessionsTyped
<1>6. WindowFits(w)'
    BY <1>1, <1>2, <1>3, <1>4 DEF WindowFits, ShowsTurns
<1> QED BY <1>4, <1>5, <1>6, WorkKeeps

LEMMA CloseKeeps ==
    ASSUME SessionsInv, NEW w \in Windows, Stored!Close(w) \/ Stored!Crash(w)
    PROVE  SessionsInv'
<1>1. /\ window' = [window EXCEPT ![w] = Stored!Off]
      /\ UNCHANGED <<minted, spoken, shared>>
      /\ Stored!Ids' \subseteq Stored!Ids /\ \A id \in Stored!Ids' : db'[id] = db[id]
    BY DEF Stored!Close, Stored!Crash, Stored!Emptied, Stored!Without,
       Stored!Restrict, Stored!Ids
<1>2. /\ ~window'[w].on /\ \A v \in Windows \ {w} : window'[v] = window[v]
      /\ window' \in [Windows -> WindowStates] /\ ~window'[w].due
    BY <1>1, RowsNew DEF SessionsInv, SessionsTyped
<1>3. SessionsTyped'
    BY <1>1, <1>2 DEF SessionsInv, SessionsTyped
<1>4. MetIsShared'
    BY <1>1, <1>2 DEF SessionsInv, MetIsShared
<1>5. WindowFits(w)'
    BY <1>2 DEF WindowFits
<1>6. ASSUME NEW v \in Windows \ {w} PROVE WindowFits(v)'
    BY <1>1, <1>2, WindowApart DEF SessionsInv
<1> QED BY <1>3, <1>4, <1>5, <1>6 DEF SessionsInv

LEMMA SwitchKeeps ==
    ASSUME SessionsInv, NEW w \in Windows, NEW id \in Stored!Ids, Stored!Switch(w, id)
    PROVE  SessionsInv'
<1>1. /\ SessionsTyped /\ window[w].on /\ ~window[w].due /\ db[id].turns \in Talks
      /\ Len(db[id].turns) \in Nat
      /\ id \in 1..minted /\ minted \in Nat
    BY WindowShows, PrefixOfItself
    DEF SessionsInv, Stored!Switch, Stored!Idle, SessionsTyped
<1>2. /\ window' = [window EXCEPT ![w].id = id, ![w].count = Len(db[id].turns),
                                  ![w].turns = db[id].turns]
      /\ UNCHANGED <<minted, spoken>> /\ Stored!Ids' \subseteq Stored!Ids
      /\ \A i \in Stored!Ids' : db'[i] = db[i]
      /\ shared \subseteq shared' /\ (id \in Stored!Others(w) => id \in shared')
    BY DEF Stored!Switch, Stored!Loaded, Stored!Meets, Stored!Emptied,
       Stored!Without, Stored!Restrict, Stored!Ids
<1>3. /\ window' \in [Windows -> WindowStates]
      /\ \A v \in Windows \ {w} : window'[v] = window[v]
      /\ window'[w].id = id /\ window'[w].turns = db[id].turns
      /\ window'[w].count = Len(db[id].turns) /\ ~window'[w].due
    <2>1. window'[w] = [window[w] EXCEPT !.id = id, !.count = Len(db[id].turns), !.turns = db[id].turns]
        BY <1>1, <1>2 DEF SessionsTyped
    <2>2. window[w] \in WindowStates /\ id \in Nat
        BY <1>1 DEF SessionsTyped
    <2>3. /\ window'[w] \in WindowStates /\ window'[w].id = id
          /\ window'[w].turns = db[id].turns
          /\ window'[w].count = Len(db[id].turns) /\ window'[w].due = window[w].due
        BY <1>1, <2>1, <2>2 DEF WindowStates
    <2> QED BY <1>1, <1>2, <2>3 DEF SessionsTyped
<1>4. SessionsTyped'
    BY <1>1, <1>2, <1>3 DEF SessionsTyped
<1>5. MetIsShared'
    BY <1>2, <1>3 DEF SessionsInv, MetIsShared, Stored!Others
<1>6. WindowFits(w)'
    BY <1>1, <1>2, <1>3, PrefixOfItself DEF WindowFits
<1>7. ASSUME NEW v \in Windows \ {w} PROVE WindowFits(v)'
    BY <1>2, <1>3, WindowApart DEF SessionsInv
<1> QED BY <1>4, <1>5, <1>6, <1>7 DEF SessionsInv

LEMMA SessionsKeep == SessionsInv /\ [Stored!Next]_(Stored!vars) => SessionsInv'
<1> SUFFICES ASSUME SessionsInv, [Stored!Next]_(Stored!vars) PROVE SessionsInv'
    OBVIOUS
<1>1. CASE UNCHANGED Stored!vars
    BY <1>1
    DEF Stored!vars, SessionsInv, SessionsTyped, MetIsShared, WindowFits, Stored!Ids
<1>2. ASSUME NEW w \in Windows, NEW id \in Stored!Ids, Stored!Delete(w, id) PROVE SessionsInv'
    BY <1>2, OpenKeeps, RemoveKeeps
<1> QED
    BY <1>1, <1>2, OpenKeeps, SpeakKeeps, SkipKeeps, SaveKeeps, RenameKeeps,
       RemoveKeeps, CloseKeeps, SwitchKeeps
    DEF Stored!Next

LEMMA SessionsStart == Stored!Init => SessionsInv
<1> SUFFICES ASSUME Stored!Init PROVE SessionsInv
    OBVIOUS
<1>1. \A w \in Windows : window[w] = Stored!Off
    BY DEF Stored!Init
<1>2. Stored!Ids = {}
    BY DEF Stored!Init, Stored!Ids
<1>3. SessionsTyped
    BY <1>1, <1>2, RowsNew DEF Stored!Init, SessionsTyped
<1>4. MetIsShared /\ \A w \in Windows : WindowFits(w)
    BY <1>1, RowsNew DEF MetIsShared, WindowFits
<1> QED BY <1>3, <1>4 DEF SessionsInv

(* Sessions: whatever fails, is cut short or crashes between the steps of  *)
(* a save, what is stored of a session that one window has been on is a    *)
(* prefix of what was said there (save_completed_turns, _delete_if_empty   *)
(* and the callers of SessionManager).                                     *)
THEOREM StoredAlwaysConversation == Stored!Spec => []Stored!StoredIsConversation
<1>1. SessionsInv => Stored!StoredIsConversation
    BY DEF SessionsInv, WindowFits, Stored!StoredIsConversation
<1> QED BY <1>1, SessionsStart, SessionsKeep, PTL DEF Stored!Spec

-----------------------------------------------------------------------------
(* Signing in, for any times: a code is only taken from an approval, the   *)
(* listener lives with its flow, and the last poll asked for its pause.    *)

FlowSteps == {"none", "waiting", "polling", "exchanging", "token", "failed"}
FlowReasons == {"none", "port", "callback", "timeout", "exchange", "device endpoint", "expired",
            "refused", "declined"}
FlowRecords == [step : FlowSteps, why : FlowReasons]
ServerRecords == [listening : BOOLEAN, result : {"none", "code", "error"}]
PollRecords == [deadline : Nat, interval : Nat, due : Nat, last : Nat, asked : Nat, hasty : BOOLEAN]

SignInFormed ==
    /\ flow \in FlowRecords /\ now \in Nat /\ poll \in PollRecords
    /\ callback \in ServerRecords

FlowApproved ==
    /\ Account!At("exchanging") \/ Account!At("token") => verdict = "approved"
    /\ callback.result = "code" => verdict = "approved"
    /\ flow.why = "declined" => verdict = "declined"

FlowListens ==
    /\ callback.listening => flow # Account!NoFlow
    /\ ~callback.listening => callback.result = "none"

FlowPaces ==
    /\ ~poll.hasty /\ Account!Owed(poll.asked) <= poll.interval
    /\ poll.last # 0 => poll.due >= poll.last + Account!Owed(poll.asked)

SignInInv == SignInFormed /\ FlowApproved /\ FlowListens /\ FlowPaces

LEMMA NothingYet ==
    /\ Account!NoFlow \in FlowRecords /\ Account!NoFlow.step = "none"
    /\ Account!NoFlow.why = "none"
    /\ Account!NoServer \in ServerRecords
    /\ ~Account!NoServer.listening /\ Account!NoServer.result = "none"
    /\ Account!NoPoll \in PollRecords /\ ~Account!NoPoll.hasty
    /\ Account!NoPoll.asked = 0 /\ Account!NoPoll.interval = 0
    /\ Account!NoPoll.last = 0
<1>1. /\ Account!NoFlow \in FlowRecords /\ Account!NoFlow.step = "none"
      /\ Account!NoFlow.why = "none"
    BY DEF Account!NoFlow, FlowRecords, FlowSteps, FlowReasons
<1>2. /\ Account!NoServer \in ServerRecords /\ ~Account!NoServer.listening
      /\ Account!NoServer.result = "none"
    BY DEF Account!NoServer, ServerRecords
<1>3. /\ Account!NoPoll \in PollRecords /\ ~Account!NoPoll.hasty
      /\ Account!NoPoll.asked = 0 /\ Account!NoPoll.interval = 0
      /\ Account!NoPoll.last = 0
    BY DEF Account!NoPoll, PollRecords
<1> QED BY <1>1, <1>2, <1>3

LEMMA PausesKept ==
    /\ \A n \in Nat : Account!Owed(n) \in Nat
    /\ Account!Owed(0) = 0
    /\ \A n \in Nat : Account!KeptInterval(n) \in Nat /\ Account!Owed(n) <= Account!KeptInterval(n)
    /\ Account!Slower \in Nat \/ poll.interval \notin Nat
BY InteractionAssumption
DEF Account!Owed, Account!KeptInterval, Account!Slower, Account!Least, Account!Most

LEMMA SignInStarts == Account!Init => SignInInv
BY NothingYet, PausesKept
DEF Account!Init, SignInInv, SignInFormed, FlowApproved, FlowListens, FlowPaces,
    Account!At

LEMMA FlowWent ==
    ASSUME SignInFormed, NEW step \in FlowSteps, Account!To(step)
    PROVE  /\ flow' \in FlowRecords
           /\ flow'.step = step /\ flow'.why = flow.why
           /\ (step # "none" => flow' # Account!NoFlow)
BY NothingYet DEF SignInFormed, Account!To, FlowRecords

LEMMA FlowFailed ==
    ASSUME NEW why \in FlowReasons, Account!Fail(why)
    PROVE  /\ flow' \in FlowRecords
           /\ flow'.step = "failed" /\ flow'.why = why /\ flow' # Account!NoFlow
BY NothingYet DEF Account!Fail, FlowRecords, FlowSteps

LEMMA PickerKeeps ==
    ASSUME SignInInv,
           UNCHANGED <<flow, callback, dismissed, verdict, poll, now>> \/ Account!Answers \/ Account!Dismiss \/ Account!Tick
    PROVE  SignInInv'
BY DEF SignInInv, SignInFormed, FlowApproved, FlowListens, FlowPaces, Account!At,
   Account!Answers, Account!Dismiss, Account!Tick

LEMMA ReturnKeeps ==
    ASSUME SignInInv, \E connected \in BOOLEAN : Account!Return(connected),
           callback' = Account!NoServer \/ (flow = Account!NoFlow /\ UNCHANGED callback)
    PROVE  SignInInv'
<1>1. /\ flow' = Account!NoFlow /\ verdict' = "none" /\ poll' = Account!NoPoll
      /\ UNCHANGED now
    BY DEF Account!Return
<1>2. callback' \in ServerRecords
      /\ ~callback'.listening /\ callback'.result = "none"
    BY NothingYet DEF SignInInv, SignInFormed, FlowListens
<1> QED
    BY <1>1, <1>2, NothingYet, PausesKept
    DEF SignInInv, SignInFormed, FlowApproved, FlowListens, FlowPaces, Account!At, Account!Owed, Account!Least

LEMMA LoginKeeps == ASSUME SignInInv, Account!BeginLogin PROVE SignInInv'
<1>1. UNCHANGED <<verdict, poll, now>> /\ flow = Account!NoFlow
    BY DEF Account!BeginLogin
<1>2. CASE callback' = [listening |-> TRUE, result |-> "none"] /\ Account!To("waiting")
    BY <1>1, <1>2, FlowWent, NothingYet
    DEF FlowSteps, ServerRecords, SignInInv, SignInFormed, FlowApproved,
        FlowListens, FlowPaces, Account!At
<1>3. CASE callback' = callback /\ Account!Fail("port")
    BY <1>1, <1>3, FlowFailed
    DEF FlowReasons, SignInInv, SignInFormed, FlowApproved, FlowListens, FlowPaces,
        Account!At
<1> QED BY <1>2, <1>3 DEF Account!BeginLogin

LEMMA CallbackKeeps ==
    ASSUME SignInInv, NEW r \in Account!Requests, Account!Callback(r)
    PROVE  SignInInv'
<1>1. r.state = "own" /\ r.content = "code" => verdict = "approved"
    BY DEF Account!Requests
<1>2. UNCHANGED <<flow, verdict, poll, now>> /\ callback.listening
    BY DEF Account!Callback
<1>3. /\ callback' \in ServerRecords
      /\ callback'.listening /\ (callback'.result = "code" => verdict = "approved")
    BY <1>1, <1>2
    DEF Account!Callback, Account!ReadCallback, ServerRecords, SignInInv,
        SignInFormed, FlowApproved
<1> QED
    BY <1>2, <1>3
    DEF SignInInv, SignInFormed, FlowApproved, FlowListens, FlowPaces, Account!At

LEMMA WaitKeeps == ASSUME SignInInv, Account!Wakes \/ Account!Exchange PROVE SignInInv'
<1>1. UNCHANGED <<callback, verdict, poll, now>>
    BY DEF Account!Wakes, Account!Exchange
<1>2. \/ (Account!To("exchanging") \/ Account!To("token")) /\ verdict = "approved"
      \/ Account!Fail("callback") \/ Account!Fail("timeout") \/ Account!Fail("exchange")
    BY DEF Account!Wakes, Account!Exchange, SignInInv, FlowApproved
<1> QED
    BY <1>1, <1>2, FlowWent, FlowFailed, NothingYet
    DEF FlowSteps, FlowReasons, SignInInv, SignInFormed, FlowApproved, FlowListens,
        FlowPaces, Account!At

LEMMA GrantKeeps == ASSUME SignInInv, Account!RequestGrant PROVE SignInInv'
<1>1. UNCHANGED <<callback, verdict, now>> /\ flow = Account!NoFlow
    BY DEF Account!RequestGrant
<1>2. CASE poll' = poll /\ Account!Fail("device endpoint")
    BY <1>1, <1>2, FlowFailed
    DEF FlowReasons, SignInInv, SignInFormed, FlowApproved, FlowListens, FlowPaces,
        Account!At
<1>3. CASE /\ Account!To("polling")
           /\ \E granted \in Pauses :
                 poll' = [Account!NoPoll EXCEPT !.deadline = now + Expiry, !.interval = Account!KeptInterval(granted),
                                                !.due = now, !.asked = granted]
    <2>1. PICK granted \in Nat :
             poll' = [Account!NoPoll EXCEPT !.deadline = now + Expiry, !.interval = Account!KeptInterval(granted),
                                            !.due = now, !.asked = granted]
        BY <1>3, InteractionAssumption
    <2>2. PICK i \in Nat : i = Account!KeptInterval(granted)
        BY PausesKept
    <2>3. /\ poll' \in PollRecords /\ ~poll'.hasty /\ poll'.asked = granted
          /\ poll'.interval = i /\ poll'.last = 0
        <3>1. now \in Nat /\ now + Expiry \in Nat /\ poll \in PollRecords
            BY InteractionAssumption DEF SignInInv, SignInFormed
        <3>2. PICK d \in Nat : d = now + Expiry
            BY <3>1
        <3>3. poll' = [Account!NoPoll EXCEPT !.deadline = d, !.interval = i, !.due = now, !.asked = granted]
            BY <2>1, <2>2, <3>2
        <3>4. PICK new : new = poll'
            OBVIOUS
        <3>5. /\ new \in PollRecords /\ ~new.hasty /\ new.asked = granted
              /\ new.interval = i /\ new.last = 0
            BY <3>1, <3>3, <3>4 DEF PollRecords, Account!NoPoll
        <3> QED BY <3>4, <3>5
    <2>4. FlowPaces'
        BY <2>2, <2>3, PausesKept DEF FlowPaces, Account!Owed, Account!Least
    <2> QED
        BY <1>1, <1>3, <2>3, <2>4, FlowWent, NothingYet
        DEF FlowSteps, SignInInv, SignInFormed, FlowApproved, FlowListens, Account!At
<1> QED BY <1>2, <1>3 DEF Account!RequestGrant

LEMMA PolledKeeps ==
    ASSUME SignInInv, NEW interval \in Nat, NEW asked \in Nat, Account!Owed(asked) <= interval,
           now >= poll.due, Account!Polled(interval, asked)
    PROVE  poll' \in PollRecords /\ FlowPaces'
<1>1. /\ poll.last \in Nat /\ poll.due \in Nat /\ poll.asked \in Nat /\ now \in Nat
      /\ ~poll.hasty /\ (poll.last # 0 => poll.due >= poll.last + Account!Owed(poll.asked))
    BY DEF SignInInv, SignInFormed, PollRecords, FlowPaces
<1>2. ~(poll.last # 0 /\ now - poll.last < Account!Owed(poll.asked))
    BY <1>1, PausesKept
<1>3. poll' = [poll EXCEPT !.interval = interval, !.asked = asked, !.due = now + interval,
                           !.last = now, !.hasty = FALSE]
    BY <1>1, <1>2 DEF Account!Polled
<1>4. /\ poll' \in PollRecords /\ ~poll'.hasty /\ poll'.asked = asked
      /\ poll'.interval = interval
      /\ poll'.last = now /\ poll'.due = now + interval
    <2>1. poll \in PollRecords /\ now + interval \in Nat
        BY <1>1 DEF SignInInv, SignInFormed
    <2>2. PICK d \in Nat : d = now + interval
        BY <2>1
    <2>3. poll' = [poll EXCEPT !.interval = interval, !.asked = asked, !.due = d, !.last = now,
                               !.hasty = FALSE]
        BY <1>3, <2>2
    <2>4. now \in Nat /\ poll \in PollRecords
        BY <1>1, <2>1
    <2>5. /\ poll' \in PollRecords /\ ~poll'.hasty /\ poll'.asked = asked
          /\ poll'.interval = interval
          /\ poll'.last = now /\ poll'.due = d
        BY <2>3, <2>4 DEF PollRecords
    <2> QED BY <2>2, <2>5
<1>5. Account!Owed(poll'.asked) <= poll'.interval /\ Account!Owed(poll'.asked) \in Nat
    BY <1>4, PausesKept
<1>6. poll'.due >= poll'.last + Account!Owed(poll'.asked)
    BY <1>1, <1>4, <1>5
<1>7. Account!Owed(poll.asked)' = Account!Owed(poll'.asked)
    BY DEF Account!Owed, Account!Least
<1> QED BY <1>4, <1>5, <1>6, <1>7 DEF FlowPaces

LEMMA PollKeeps == ASSUME SignInInv, Account!Poll \/ Account!PollBroker PROVE SignInInv'
<1>1. /\ UNCHANGED <<callback, verdict, now>> /\ poll.asked \in Nat
      /\ poll.interval \in Nat
      /\ Account!Owed(poll.asked) <= poll.interval
    BY DEF Account!Poll, Account!PollBroker, SignInInv, SignInFormed, PollRecords,
       FlowPaces
<1>2. \/ /\ poll' = poll
         /\ \/ Account!Fail("expired") \/ Account!Fail("refused")
            \/ Account!Fail("declined") /\ verdict = "declined"
            \/ (Account!To("token") \/ Account!To("exchanging")) /\ verdict = "approved" /\ flow # Account!NoFlow
      \/ /\ flow' = flow /\ now >= poll.due
         /\ \/ Account!Polled(poll.interval, poll.asked)
            \/ Account!Polled(Account!Slower, poll.asked + Slowing)
    BY DEF Account!Poll, Account!PollBroker, Account!Due, Account!At, Account!NoFlow
<1>3. poll' \in PollRecords /\ FlowPaces'
    <2>1. CASE poll' = poll
        BY <2>1 DEF SignInInv, SignInFormed, FlowPaces
    <2>2. CASE now >= poll.due /\ Account!Polled(poll.interval, poll.asked)
        BY <1>1, <2>2, PolledKeeps
    <2>3. CASE now >= poll.due /\ Account!Polled(Account!Slower, poll.asked + Slowing)
        <3>1. /\ Account!Slower \in Nat /\ poll.asked + Slowing \in Nat
              /\ Account!Owed(poll.asked + Slowing) <= Account!Slower
            BY InteractionAssumption, <1>1 DEF Account!Slower, Account!Owed, Account!Least
        <3> QED BY <2>3, <3>1, PolledKeeps
    <2> QED BY <1>2, <2>1, <2>2, <2>3
<1>4. /\ flow' \in FlowRecords
      /\ flow' = Account!NoFlow => flow = Account!NoFlow
      /\ flow'.step \in {"exchanging", "token"} => verdict = "approved"
      /\ flow'.why = "declined" => verdict = "declined"
    BY <1>2, FlowWent, FlowFailed
    DEF FlowSteps, FlowReasons, SignInInv, SignInFormed, FlowApproved, Account!At
<1> QED
    BY <1>1, <1>3, <1>4
    DEF SignInInv, SignInFormed, FlowApproved, FlowListens, Account!At

LEMMA SignInKeeps == ASSUME SignInInv, [Account!Next]_(Account!vars) PROVE SignInInv'
<1>1. CASE Account!TypeKey \/ Account!Decides
    BY <1>1, ReturnKeeps
    DEF Account!TypeKey, Account!Decides, Account!Connects, Account!Gives,
        Account!Closed
<1>2. CASE Account!OpenPicker \/ Account!Back \/ UNCHANGED Account!vars \/ \E p \in {"p", "q"} : Account!PickProvider(p) \/ Account!PickModel(p) \/ Account!Expires(p)
    BY <1>2, PickerKeeps
    DEF Account!OpenPicker, Account!Back, Account!vars, Account!PickProvider,
        Account!PickModel, Account!Expires
<1> QED
    BY <1>1, <1>2, PickerKeeps, LoginKeeps, CallbackKeeps, WaitKeeps, GrantKeeps,
       PollKeeps
    DEF Account!Next

LEMMA ChoiceAnswers ==
    ASSUME [Account!Next]_(Account!vars), current' # current
    PROVE  credential[current']
<1>1. CASE \E p \in {"p", "q"} : Account!PickModel(p)
    BY <1>1 DEF Account!PickModel, Account!MayAnswer
<1>2. CASE ~\E p \in {"p", "q"} : Account!PickModel(p)
    BY <1>2
    DEF Account!Next, Account!vars, Account!picker, Account!OpenPicker,
        Account!Back, Account!TypeKey, Account!Return, Account!BeginLogin,
        Account!Answers, Account!Wakes, Account!Exchange, Account!RequestGrant,
        Account!Poll, Account!PollBroker, Account!Tick, Account!Dismiss,
        Account!Decides, Account!Connects, Account!Gives, Account!PickProvider,
        Account!Expires, Account!Callback
<1> QED BY <1>1, <1>2

(* SignIn: a token is stored only of what the user approved, no listener   *)
(* outlives its flow, no poll comes before the pause it was asked for (or  *)
(* the limit, when that is shorter), and what is chosen can answer         *)
(* (providers/device.py, login.py, the provider picker).                   *)
THEOREM SignInAlwaysHonest == Account!Spec => Account!SignInIsHonest
<1>1. SignInInv => Account!TokensAreApproved /\ Account!ListenerIsReleased /\ Account!PollsArePaced
    BY DEF SignInInv, FlowApproved, FlowListens, FlowPaces,
       Account!TokensAreApproved, Account!ListenerIsReleased, Account!PollsArePaced
<1>2. SignInInv /\ [Account!Next]_(Account!vars) => SignInInv'
    BY SignInKeeps
<1>3. [Account!Next]_(Account!vars) => [current' # current => credential[current']]_(Account!vars)
    BY ChoiceAnswers
<1> QED
    BY <1>1, <1>2, <1>3, SignInStarts, PTL
    DEF Account!Spec, Account!SignInIsHonest, Account!ChosenCanAnswer

-----------------------------------------------------------------------------
(* File mutations, for any calls at once, where nobody writes between the  *)
(* last look of an edit and its rename.                                    *)

FileTexts == SUBSET (Nat \cup Writes)
CallPcs == {"idle", "resolve", "read", "stat", "apply", "temp", "check", "replace", "record",
            "done", "crashed"}
CallRecords ==
    [pc : CallPcs, tool : {"none", "write", "edit"}, new : BOOLEAN, created : BOOLEAN, old : FileTexts,
     inode : Nat, stamp : Nat, replaced : BOOLEAN, result : {"none", "ok", "failed"}]
FileRecords ==
    [kind : {"none", "file", "link"}, readable : BOOLEAN, inode : Nat, stamp : Nat, text : FileTexts]

(* What an edit has read is what its fingerprint names, ...                *)
TrueToDisk(c) == file.kind = "file" /\ file.stamp = call[c].stamp => file.text = call[c].old

(* ... and what is there while nobody else may change it.                  *)
CallFine(c) ==
    /\ call[c] \in CallRecords /\ call[c].stamp <= stamps
    /\ c \in temps => Files!At(c, {"check", "replace", "crashed"})
    /\ call[c].tool = "edit" =>
        /\ Files!At(c, {"stat"}) => file.inode = call[c].inode /\ file.text = call[c].old
        /\ Files!At(c, {"apply", "temp", "check"}) => TrueToDisk(c)
        /\ Files!At(c, {"replace"}) => file.text = call[c].old

FilesTyped ==
    /\ file \in FileRecords /\ stamps \in Nat /\ file.stamp <= stamps
    /\ call = [c \in Writes |-> call[c]]

FilesInv == FilesTyped /\ \A c \in Writes : CallFine(c)

(* A call that steps.                                                      *)
CallSteps(c, pcs) ==
    /\ call' = [d \in Writes |-> call'[d]] /\ \A d \in Writes \ {c} : call'[d] = call[d]
    /\ call'[c] \in CallRecords /\ call'[c].pc \in pcs
    /\ \A d \in Writes \ {c} : d \in temps' => d \in temps

SameCall(c) ==
    /\ call'[c].tool = call[c].tool /\ call'[c].old = call[c].old
    /\ call'[c].stamp = call[c].stamp /\ call'[c].inode = call[c].inode

LEMMA CallStepped ==
    ASSUME FilesInv, NEW c \in Writes, NEW pc \in CallPcs, Files!To(c, pc), UNCHANGED temps
    PROVE  CallSteps(c, {pc}) /\ SameCall(c) /\ call'[c].replaced = call[c].replaced
BY DEF FilesInv, FilesTyped, CallFine, Files!To, CallSteps, SameCall, CallRecords

LEMMA CallGone ==
    ASSUME FilesInv, NEW c \in Writes, Files!Fails(c)
    PROVE  /\ CallSteps(c, {"done"}) /\ SameCall(c)
           /\ call'[c].replaced = call[c].replaced
           /\ c \notin temps'
<1>1. call'[c] = [call[c] EXCEPT !.pc = "done", !.result = "failed"]
    BY DEF FilesInv, FilesTyped, Files!Fails
<1>2. call[c] \in CallRecords
    BY DEF FilesInv, CallFine
<1>3. /\ call'[c] \in CallRecords /\ call'[c].pc = "done" /\ SameCall(c)
      /\ call'[c].replaced = call[c].replaced
    BY <1>1, <1>2 DEF CallRecords, CallPcs, SameCall
<1> QED BY <1>3 DEF FilesInv, FilesTyped, Files!Fails, CallSteps

LEMMA StepKeeps ==
    ASSUME FilesInv, NEW c \in Writes, NEW pcs, CallSteps(c, pcs), UNCHANGED <<file, stamps>>, CallFine(c)'
    PROVE  FilesInv'
<1>1. ASSUME NEW d \in Writes \ {c} PROVE CallFine(d)'
    BY DEF FilesInv, CallFine, CallSteps, Files!At, TrueToDisk
<1> QED BY <1>1 DEF FilesInv, FilesTyped, CallSteps

(* What the property says of a call.                                       *)
EditKept(c) ==
    /\ call'[c].replaced /\ ~call[c].replaced /\ call[c].tool = "edit" => file.text \subseteq file'.text
    /\ call'[c].pc = "done" => c \notin temps'

LEMMA KeptByInv ==
    ASSUME FilesInv', NEW c \in Writes, call'[c].replaced = call[c].replaced
    PROVE  EditKept(c)
BY DEF FilesInv, CallFine, Files!At, EditKept

LEMMA OthersKept ==
    ASSUME FilesInv', NEW c \in Writes, NEW pcs, CallSteps(c, pcs), EditKept(c)
    PROVE  \A d \in Writes : EditKept(d)
BY KeptByInv DEF CallSteps

LEMMA MovesKeep ==
    ASSUME FilesInv, NEW c \in Writes,
           \/ Files!Begin(c) \/ Files!Refused(c) \/ Files!Resolve(c) \/ Files!Apply(c) \/ Files!WriteTemp(c) \/ Files!StepFails(c) \/ Files!Crash(c)
    PROVE  FilesInv' /\ call'[c].replaced = call[c].replaced
<1>1. CASE Files!Fails(c) /\ UNCHANGED <<file, stamps>>
    <2>1. CallFine(c)'
        BY <1>1, CallGone DEF FilesInv, CallFine, CallSteps, SameCall, Files!At
    <2> QED BY <1>1, <2>1, CallGone, StepKeeps
<1>2. CASE Files!Begin(c)
    <2>1. PICK tool \in {"write", "edit"} : call' = [call EXCEPT ![c].pc = "resolve", ![c].tool = tool]
        BY <1>2 DEF Files!Begin
    <2>2. call'[c] = [call[c] EXCEPT !.pc = "resolve", !.tool = tool]
        BY <2>1 DEF FilesInv, FilesTyped
    <2>3. /\ call'[c] \in CallRecords /\ call'[c].pc = "resolve"
          /\ call'[c].stamp = call[c].stamp
          /\ call'[c].replaced = call[c].replaced
        BY <2>2 DEF FilesInv, CallFine, CallRecords, CallPcs
    <2>4. CallSteps(c, {"resolve"}) /\ CallFine(c)'
        BY <1>2, <2>1, <2>3
        DEF Files!Begin, CallSteps, CallFine, FilesInv, FilesTyped, Files!At
    <2> QED BY <1>2, <2>3, <2>4, StepKeeps DEF Files!Begin
<1>3. CASE Files!Resolve(c) /\ Files!Resolves(c)
    <2>1. call'[c] = [call[c] EXCEPT !.pc = IF file.kind = "none" THEN "temp" ELSE "read",
                                     !.new = (file.kind = "none")]
        BY <1>3 DEF Files!Resolve, FilesInv, FilesTyped
    <2>2. /\ call'[c] \in CallRecords /\ SameCall(c)
          /\ call'[c].replaced = call[c].replaced
          /\ call'[c].pc = IF file.kind = "none" THEN "temp" ELSE "read"
        BY <2>1 DEF FilesInv, CallFine, CallRecords, CallPcs, SameCall
    <2>3. call[c].tool = "edit" => file.kind = "file"
        BY <1>3 DEF Files!Resolves
    <2>4. CallSteps(c, {"temp", "read"}) /\ CallFine(c)'
        BY <1>3, <2>2, <2>3
        DEF Files!Resolve, CallSteps, SameCall, CallFine, FilesInv, FilesTyped,
            Files!At, TrueToDisk
    <2> QED BY <1>3, <2>2, <2>4, StepKeeps DEF Files!Resolve
<1>4. CASE Files!Apply(c) /\ Files!To(c, "temp") /\ UNCHANGED temps
    <2>1. CallSteps(c, {"temp"}) /\ SameCall(c) /\ call'[c].replaced = call[c].replaced
        BY <1>4, CallStepped DEF CallPcs
    <2>2. CallFine(c)'
        BY <1>4, <2>1
        DEF Files!Apply, CallSteps, SameCall, CallFine, FilesInv, Files!At,
            TrueToDisk
    <2> QED BY <1>4, <2>1, <2>2, StepKeeps DEF Files!Apply
<1>5. CASE Files!WriteTemp(c)
    <2>1. call'[c] = [call[c] EXCEPT !.pc = "check"]
        BY <1>5 DEF Files!WriteTemp, Files!To, FilesInv, FilesTyped
    <2>2. /\ call'[c] \in CallRecords /\ SameCall(c)
          /\ call'[c].replaced = call[c].replaced /\ call'[c].pc = "check"
        BY <2>1 DEF FilesInv, CallFine, CallRecords, CallPcs, SameCall
    <2>3. CallSteps(c, {"check"}) /\ CallFine(c)'
        BY <1>5, <2>2
        DEF Files!WriteTemp, Files!To, CallSteps, SameCall, CallFine, FilesInv,
            FilesTyped, Files!At, TrueToDisk
    <2> QED BY <1>5, <2>2, <2>3, StepKeeps DEF Files!WriteTemp
<1>6. CASE Files!Crash(c)
    <2>1. /\ CallSteps(c, {"crashed"}) /\ SameCall(c)
          /\ call'[c].replaced = call[c].replaced
        BY <1>6, CallStepped DEF Files!Crash, CallPcs
    <2>2. CallFine(c)'
        BY <1>6, <2>1
        DEF Files!Crash, CallSteps, SameCall, CallFine, FilesInv, Files!At
    <2> QED BY <1>6, <2>1, <2>2, StepKeeps DEF Files!Crash
<1> QED
    BY <1>1, <1>2, <1>3, <1>4, <1>5, <1>6, CallGone
    DEF Files!Refused, Files!Resolve, Files!Apply, Files!StepFails

LEMMA ReadKeeps ==
    ASSUME FilesInv, NEW c \in Writes, Files!Read(c)
    PROVE  FilesInv' /\ call'[c].replaced = call[c].replaced
<1>1. CASE Files!Fails(c)
    <2>1. CallFine(c)'
        BY <1>1, CallGone
        DEF FilesInv, CallFine, CallSteps, SameCall, Files!At, Files!Read
    <2> QED BY <1>1, <2>1, CallGone, StepKeeps DEF Files!Read
<1>2. CASE call[c].tool # "edit" /\ Files!To(c, "temp") /\ UNCHANGED temps
    <2>1. CallSteps(c, {"temp"}) /\ SameCall(c) /\ call'[c].replaced = call[c].replaced
        BY <1>2, CallStepped DEF CallPcs
    <2>2. CallFine(c)'
        BY <1>2, <2>1
        DEF Files!Read, CallSteps, SameCall, CallFine, FilesInv, Files!At
    <2> QED BY <1>2, <2>1, <2>2, StepKeeps DEF Files!Read
<1>3. CASE /\ call' = [call EXCEPT ![c].old = file.text, ![c].inode = file.inode, ![c].stamp = file.stamp,
                                   ![c].pc = IF call[c].tool = "edit" THEN "stat" ELSE "temp"]
           /\ UNCHANGED temps
    <2>1. call'[c] = [call[c] EXCEPT !.old = file.text, !.inode = file.inode, !.stamp = file.stamp,
                                     !.pc = IF call[c].tool = "edit" THEN "stat" ELSE "temp"]
        BY <1>3 DEF FilesInv, FilesTyped
    <2>2. /\ file.text \in FileTexts /\ file.inode \in Nat /\ file.stamp \in Nat
          /\ file.stamp <= stamps
        BY DEF FilesInv, FilesTyped, FileRecords
    <2>3. call[c] \in CallRecords
        BY DEF FilesInv, CallFine
    <2>4. /\ call'[c] \in CallRecords /\ call'[c].replaced = call[c].replaced
          /\ call'[c].tool = call[c].tool /\ call'[c].old = file.text
          /\ call'[c].inode = file.inode
          /\ call'[c].stamp = file.stamp
          /\ call'[c].pc = IF call[c].tool = "edit" THEN "stat" ELSE "temp"
        BY <2>1, <2>2, <2>3 DEF CallRecords, CallPcs
    <2>5. CallSteps(c, {"stat", "temp"}) /\ CallFine(c)'
        BY <1>3, <2>2, <2>4
        DEF Files!Read, CallSteps, CallFine, FilesInv, FilesTyped, Files!At
    <2> QED BY <2>4, <2>5, StepKeeps DEF Files!Read
<1> QED BY <1>1, <1>2, <1>3 DEF Files!Read

LEMMA FstatKeeps ==
    ASSUME FilesInv, NEW c \in Writes, Files!Fstat(c)
    PROVE  FilesInv' /\ call'[c].replaced = call[c].replaced
<1> DEFINE seen == IF file.inode = call[c].inode THEN file.stamp ELSE call[c].stamp
<1>1. call'[c] = [call[c] EXCEPT !.pc = "apply", !.stamp = seen]
    BY DEF Files!Fstat, FilesInv, FilesTyped
<1>2. seen \in Nat /\ seen <= stamps /\ call[c] \in CallRecords
    BY DEF FilesInv, FilesTyped, CallFine, FileRecords, CallRecords
<1>3. /\ call'[c] \in CallRecords /\ call'[c].replaced = call[c].replaced
      /\ call'[c].stamp = seen
      /\ call'[c].tool = call[c].tool /\ call'[c].old = call[c].old
      /\ call'[c].pc = "apply"
    BY <1>1, <1>2 DEF CallRecords, CallPcs
<1>4. CallSteps(c, {"apply"}) /\ CallFine(c)'
    BY <1>2, <1>3
    DEF Files!Fstat, CallSteps, CallFine, FilesInv, FilesTyped, Files!At, TrueToDisk
<1> QED BY <1>3, <1>4, StepKeeps DEF Files!Fstat

LEMMA CheckKeeps ==
    ASSUME FilesInv, NEW c \in Writes, Files!Check(c)
    PROVE  FilesInv' /\ call'[c].replaced = call[c].replaced
<1>1. CASE Files!Fails(c)
    <2>1. CallFine(c)'
        BY <1>1, CallGone
        DEF FilesInv, CallFine, CallSteps, SameCall, Files!At, Files!Check
    <2> QED BY <1>1, <2>1, CallGone, StepKeeps DEF Files!Check
<1>2. CASE ~Files!Fails(c)
    <2>1. /\ call' = [call EXCEPT ![c].pc = "replace", ![c].created = (file.kind = "none")]
          /\ UNCHANGED temps /\ (call[c].tool = "edit" => Files!Unchanged(c))
        BY <1>2 DEF Files!Check
    <2>2. call'[c] = [call[c] EXCEPT !.pc = "replace", !.created = (file.kind = "none")]
        BY <2>1 DEF FilesInv, FilesTyped
    <2>3. /\ call'[c] \in CallRecords /\ SameCall(c)
          /\ call'[c].replaced = call[c].replaced /\ call'[c].pc = "replace"
        BY <2>2 DEF FilesInv, CallFine, CallRecords, CallPcs, SameCall
    <2>4. call[c].tool = "edit" => file.text = call[c].old
        BY <2>1
        DEF Files!Unchanged, Files!Check, FilesInv, CallFine, Files!At, TrueToDisk
    <2>5. CallSteps(c, {"replace"}) /\ CallFine(c)'
        BY <2>1, <2>3, <2>4
        DEF Files!Check, CallSteps, SameCall, CallFine, FilesInv, FilesTyped,
            Files!At
    <2> QED BY <2>3, <2>5, StepKeeps DEF Files!Check
<1> QED BY <1>1, <1>2

LEMMA AuditKeeps ==
    ASSUME FilesInv, NEW c \in Writes, Files!Record(c)
    PROVE  FilesInv' /\ call'[c].replaced = call[c].replaced
<1>1. PICK result \in {"ok", "failed"} : call' = [call EXCEPT ![c].pc = "done", ![c].result = result]
    BY DEF Files!Record
<1>2. call'[c] = [call[c] EXCEPT !.pc = "done", !.result = result]
    BY <1>1 DEF FilesInv, FilesTyped
<1>3. /\ call'[c] \in CallRecords /\ SameCall(c) /\ call'[c].replaced = call[c].replaced
      /\ call'[c].pc = "done"
    BY <1>2 DEF FilesInv, CallFine, CallRecords, CallPcs, SameCall
<1>4. CallSteps(c, {"done"}) /\ CallFine(c)'
    BY <1>1, <1>3
    DEF Files!Record, CallSteps, SameCall, CallFine, FilesInv, FilesTyped, Files!At
<1> QED BY <1>3, <1>4, StepKeeps DEF Files!Record

(* The file changes: no call is where it may not, and no stamp is given    *)
(* out twice.                                                              *)
FileChanges ==
    /\ stamps' = stamps + 1 /\ file' \in FileRecords
    /\ \/ file'.kind # "file" /\ file'.stamp <= stamps
       \/ file'.stamp = stamps + 1
       \/ file'.kind = file.kind /\ file'.stamp = file.stamp /\ file'.text = file.text

LEMMA ChangeIsFine ==
    ASSUME FilesInv, FileChanges, NEW c \in Writes, ~Files!Narrow(c), call'[c] = call[c], c \in temps' => c \in temps
    PROVE  CallFine(c)'
<1>1. /\ call[c] \in CallRecords /\ call[c].stamp \in Nat /\ call[c].stamp <= stamps
      /\ stamps \in Nat
    BY DEF FilesInv, FilesTyped, CallFine, CallRecords
<1>2. TrueToDisk(c) => TrueToDisk(c)'
    BY <1>1 DEF FileChanges, TrueToDisk
<1> QED BY <1>1, <1>2 DEF FilesInv, CallFine, FileChanges, Files!Narrow, Files!At

LEMMA OutsideKeeps ==
    ASSUME FilesInv, Files!Outside PROVE FilesInv' /\ UNCHANGED call
<1>1. file \in FileRecords /\ stamps \in Nat /\ file.stamp <= stamps
    BY DEF FilesInv, FilesTyped
<1>2. FileChanges
    <2> DEFINE changed == [file EXCEPT !.stamp = stamps + 1, !.text = @ \cup {stamps + 1}]
    <2>1. file.text \cup {stamps + 1} \in FileTexts /\ stamps + 1 \in Nat
        BY <1>1 DEF FileRecords, FileTexts
    <2>2. changed \in FileRecords /\ changed.stamp = stamps + 1
        BY <1>1, <2>1 DEF FileRecords
    <2>3. /\ [changed EXCEPT !.kind = "file", !.inode = stamps + 1] \in FileRecords
          /\ [changed EXCEPT !.kind = "file", !.inode = stamps + 1].stamp = stamps + 1
        BY <2>1, <2>2 DEF FileRecords
    <2>4. /\ Files!NoFile \in FileRecords /\ Files!NoFile.kind = "none"
          /\ Files!NoFile.stamp = 0
          /\ [Files!NoFile EXCEPT !.kind = "link"] \in FileRecords
          /\ [Files!NoFile EXCEPT !.kind = "link"].kind = "link"
          /\ [Files!NoFile EXCEPT !.kind = "link"].stamp = 0
        BY DEF Files!NoFile, FileRecords, FileTexts
    <2>5. ASSUME file' = [file EXCEPT !.readable = FALSE]
          PROVE  /\ file' \in FileRecords /\ file'.kind = file.kind
                 /\ file'.stamp = file.stamp
                 /\ file'.text = file.text
        BY <1>1, <2>5 DEF FileRecords
    <2> HIDE DEF changed
    <2>6. /\ stamps' = stamps + 1
          /\ \/ file' = changed \/ file' = [changed EXCEPT !.kind = "file", !.inode = stamps + 1]
             \/ file' = Files!NoFile \/ file' = [Files!NoFile EXCEPT !.kind = "link"]
             \/ file' = [file EXCEPT !.readable = FALSE]
        BY DEF Files!Outside, changed
    <2>7. file' \in FileRecords
        BY <2>2, <2>3, <2>4, <2>5, <2>6
    <2>8. \/ file'.kind # "file" /\ file'.stamp = 0
          \/ file'.stamp = stamps + 1
          \/ file'.kind = file.kind /\ file'.stamp = file.stamp /\ file'.text = file.text
        BY <2>2, <2>3, <2>4, <2>5, <2>6
    <2> QED BY <1>1, <2>6, <2>7, <2>8 DEF FileChanges
<1>3. \A c \in Writes : ~Files!Narrow(c) /\ CallFine(c)'
    BY <1>2, ChangeIsFine DEF Files!Outside
<1>4. FilesTyped'
    BY <1>1, <1>2 DEF FilesInv, FilesTyped, FileChanges, Files!Outside, FileRecords
<1> QED BY <1>3, <1>4 DEF FilesInv, Files!Outside

LEMMA ReplaceKeeps ==
    ASSUME FilesInv, NEW c \in Writes, Files!Replace(c)
    PROVE  FilesInv' /\ EditKept(c) /\ CallSteps(c, {"record"})
<1>1. /\ stamps \in Nat /\ call[c] \in CallRecords /\ Files!NewText(c) \in FileTexts
      /\ stamps + 1 \in Nat
      /\ call[c].stamp \in Nat /\ call[c].stamp <= stamps
    BY DEF FilesInv, FilesTyped, CallFine, Files!NewText, CallRecords, FileTexts
<1>2. FileChanges /\ file'.text = Files!NewText(c) /\ file'.stamp = stamps + 1
    BY <1>1 DEF Files!Replace, FileChanges, FileRecords
<1>3. call'[c] = [call[c] EXCEPT !.pc = "record", !.replaced = TRUE]
    BY DEF Files!Replace, FilesInv, FilesTyped
<1>4. call'[c] \in CallRecords /\ SameCall(c) /\ call'[c].pc = "record"
    BY <1>1, <1>3 DEF CallRecords, CallPcs, SameCall
<1>5. CallSteps(c, {"record"}) /\ c \notin temps'
    BY <1>4 DEF Files!Replace, CallSteps, FilesInv, FilesTyped
<1>6. CallFine(c)'
    BY <1>1, <1>2, <1>4, <1>5 DEF CallFine, SameCall, Files!At, FileChanges
<1>7. ASSUME NEW d \in Writes \ {c} PROVE CallFine(d)'
    BY <1>2, <1>5, ChangeIsFine DEF Files!Replace, Files!OthersMay, CallSteps
<1>8. FilesTyped'
    BY <1>1, <1>2, <1>5 DEF FilesInv, FilesTyped, FileChanges, CallSteps
<1>9. EditKept(c)
    BY <1>2, <1>4
    DEF EditKept, Files!Replace, FilesInv, CallFine, Files!At, Files!NewText
<1> QED BY <1>5, <1>6, <1>7, <1>8, <1>9 DEF FilesInv

LEMMA FilesKeep ==
    ASSUME FilesInv, [Files!Next]_(Files!vars)
    PROVE  FilesInv' /\ \A c \in Writes : EditKept(c)
<1>1. CASE UNCHANGED Files!vars
    <2>1. FilesInv'
        BY <1>1 DEF Files!vars, FilesInv, FilesTyped, CallFine, Files!At, TrueToDisk
    <2> QED BY <1>1, <2>1, KeptByInv DEF Files!vars
<1>2. CASE Files!Outside
    BY <1>2, OutsideKeeps, KeptByInv
<1>3. ASSUME NEW c \in Writes, Files!Replace(c) PROVE FilesInv' /\ \A d \in Writes : EditKept(d)
    BY <1>3, ReplaceKeeps, OthersKept
<1>4. ASSUME NEW c \in Writes,
             \/ Files!Begin(c) \/ Files!Refused(c) \/ Files!Resolve(c) \/ Files!Read(c) \/ Files!Fstat(c) \/ Files!Apply(c) \/ Files!WriteTemp(c)
             \/ Files!Check(c) \/ Files!Record(c) \/ Files!StepFails(c) \/ Files!Crash(c)
      PROVE  FilesInv' /\ \A d \in Writes : EditKept(d)
    <2>1. FilesInv' /\ call'[c].replaced = call[c].replaced
        BY <1>4, MovesKeep, ReadKeeps, FstatKeeps, CheckKeeps, AuditKeeps
    <2>2. \A d \in Writes \ {c} : call'[d] = call[d]
        BY <1>4
        DEF Files!Begin, Files!Refused, Files!Resolve, Files!Read, Files!Fstat,
            Files!Apply, Files!WriteTemp, Files!Check, Files!Record,
            Files!StepFails, Files!Crash, Files!Fails, Files!To, FilesInv,
            FilesTyped
    <2> QED BY <2>1, <2>2, KeptByInv
<1> QED BY <1>1, <1>2, <1>3, <1>4 DEF Files!Next

LEMMA FilesStart == Files!Init => FilesInv
<1> SUFFICES ASSUME Files!Init PROVE FilesInv
    OBVIOUS
<1>1. file \in FileRecords /\ file.stamp <= 1
    <2>1. Files!NoFile \in FileRecords /\ Files!NoFile.stamp = 0
        BY DEF Files!NoFile, FileRecords, FileTexts
    <2>2. /\ [Files!NoFile EXCEPT !.kind = "file", !.inode = 1, !.stamp = 1] \in FileRecords
          /\ [Files!NoFile EXCEPT !.kind = "file", !.inode = 1, !.stamp = 1].stamp = 1
        BY <2>1 DEF FileRecords
    <2>3. CASE file = Files!NoFile
        BY <2>1, <2>3
    <2>4. CASE file = [Files!NoFile EXCEPT !.kind = "file", !.inode = 1, !.stamp = 1]
        BY <2>2, <2>4
    <2> QED BY <2>3, <2>4 DEF Files!Init
<1>2. Files!Fresh \in CallRecords /\ Files!Fresh.pc = "idle" /\ Files!Fresh.stamp = 0
    BY DEF Files!Fresh, CallRecords, CallPcs, FileTexts, Files!NoText
<1> QED BY <1>1, <1>2 DEF Files!Init, FilesInv, FilesTyped, CallFine, Files!At

(* FileMutation: an edit replaces a file only while it is what the edit    *)
(* has read, and a call that ends leaves no temporary file                 *)
(* (_replace_atomically, _edit_atomic and _write_atomic).                  *)
THEOREM EditsAlwaysLoseNothing == Files!Spec => Files!EditsLoseNothing
<1>1. FilesInv /\ [Files!Next]_(Files!vars) => FilesInv'
    BY FilesKeep
<1>2. FilesInv /\ [Files!Next]_(Files!vars) =>
      [\A c \in Writes :
        /\ call'[c].replaced /\ ~call[c].replaced /\ call[c].tool = "edit" => file.text \subseteq file'.text
        /\ call'[c].pc = "done" => c \notin temps']_(Files!vars)
    BY FilesKeep DEF EditKept
<1> QED BY <1>1, <1>2, FilesStart, PTL DEF Files!Spec, Files!EditsLoseNothing

-----------------------------------------------------------------------------
(* Checkpoints, for any files, trees and limit: no tree has an ignored     *)
(* file, turn and restore exclude each other, and from its own capture on  *)
(* a restore has a listed checkpoint of the files as they are.             *)

Workspaces == [Paths -> Contents \cup {"none"}]
CleanTrees == {t \in Workspaces : \A p \in Paths \cap Ignored : t[p] = "none"}
RefRecords == [id : Nat, tree : CleanTrees]
CaptureRecords == [pc : {"none", "snapshot", "list", "record", "prune"}, tree : CleanTrees, existing : SUBSET RefRecords]

WorkFiled == work \in Workspaces /\ index \cap Ignored = {} /\ edits \in Nat

RefsListed ==
    /\ made \in Nat /\ refs \subseteq RefRecords
    /\ capture \in [Saved!Tasks -> CaptureRecords]
    /\ \A r \in refs : r.id <= made
    /\ \A t \in Saved!Tasks : \A r \in capture[t].existing : r.id <= made

RestoreAlone ==
    /\ restore \in [pc : {"none", "safety", "apply"}, tree : CleanTrees]
    /\ restore.pc # "none" => turn = "none"
    /\ capture["turn"].pc # "none" => turn = "capture"
    /\ capture["restore"].pc # "none" => restore.pc = "safety"

RestoreSafe ==
    /\ capture["restore"].pc \in {"list", "record", "prune"} => capture["restore"].tree = Saved!Snapshot
    /\ capture["restore"].pc = "prune" =>
        \E r \in refs : r.tree = Saved!Snapshot /\ \A q \in capture["restore"].existing : q.id # r.id
    /\ restore.pc = "apply" => \E r \in refs : r.tree = Saved!Snapshot

CheckpointsInv == WorkFiled /\ RefsListed /\ RestoreAlone /\ RestoreSafe

LEMMA NothingTaken ==
    /\ Saved!NoCapture \in CaptureRecords /\ Saved!NoCapture.pc = "none"
    /\ Saved!NoRestore \in [pc : {"none", "safety", "apply"}, tree : CleanTrees]
    /\ Saved!NoRestore.pc = "none"
<1>1. Saved!Absent \in CleanTrees
    BY DEF Saved!Absent, CleanTrees, Workspaces
<1> QED BY <1>1 DEF Saved!NoCapture, Saved!NoRestore, CaptureRecords

LEMMA SnapshotIsTree == ASSUME work \in Workspaces PROVE Saved!Snapshot \in CleanTrees
BY DEF Saved!Snapshot, CleanTrees, Workspaces

LEMMA ResetIsState ==
    ASSUME NEW tree \in CleanTrees, NEW files \in Workspaces, NEW tracked
    PROVE  Saved!Reset(tree, files, tracked) \in Workspaces
BY DEF Saved!Reset, CleanTrees, Workspaces, Saved!In

(* A capture moves: of the task t to pc, with a tree and what existed.     *)
LEMMA CaptureMoves ==
    ASSUME capture \in [Saved!Tasks -> CaptureRecords], NEW t \in Saved!Tasks, NEW c \in CaptureRecords,
           capture' = [capture EXCEPT ![t] = c]
    PROVE  /\ capture' \in [Saved!Tasks -> CaptureRecords]
           /\ capture'[t] = c /\ \A u \in Saved!Tasks \ {t} : capture'[u] = capture[u]
OBVIOUS

LEMMA CheckpointsStart == Saved!Init => CheckpointsInv
<1> SUFFICES ASSUME Saved!Init PROVE CheckpointsInv OBVIOUS
<1>1. work \in Workspaces
    BY DEF Saved!Init, Workspaces
<1>2. index \cap Ignored = {}
    BY DEF Saved!Init, Saved!In, Saved!Snapshot
<1>3. /\ capture \in [Saved!Tasks -> CaptureRecords]
      /\ \A t \in Saved!Tasks : capture[t] = Saved!NoCapture
    BY NothingTaken DEF Saved!Init
<1>4. Saved!NoCapture.existing = {} BY DEF Saved!NoCapture
<1> QED
    BY <1>1, <1>2, <1>3, <1>4, NothingTaken
    DEF Saved!Init, CheckpointsInv, WorkFiled, RefsListed, RestoreAlone,
        RestoreSafe, Saved!Tasks

(* The files and the captures are as they were: nothing of the safety of a *)
(* restore is touched.                                                     *)
LEMMA SnapshotSame == ASSUME UNCHANGED work PROVE Saved!Snapshot' = Saved!Snapshot
BY DEF Saved!Snapshot

LEMMA BeginKeeps == ASSUME CheckpointsInv, Saved!StartTurn PROVE CheckpointsInv'
<1> USE SnapshotSame DEF CheckpointsInv, Saved!StartTurn
<1>1. CASE turn' = "runs" /\ UNCHANGED capture
    BY <1>1 DEF WorkFiled, RefsListed, RestoreAlone, RestoreSafe
<1>2. CASE turn' = "capture" /\ capture' = [capture EXCEPT !["turn"] = [Saved!NoCapture EXCEPT !.pc = "snapshot"]]
    <2>1. /\ [Saved!NoCapture EXCEPT !.pc = "snapshot"] \in CaptureRecords
          /\ [Saved!NoCapture EXCEPT !.pc = "snapshot"].existing = {}
        BY NothingTaken DEF CaptureRecords, Saved!NoCapture
    <2>2. /\ capture' \in [Saved!Tasks -> CaptureRecords] /\ "turn" \in Saved!Tasks
          /\ "restore" \in Saved!Tasks
          /\ capture'["turn"].existing = {}
          /\ \A u \in Saved!Tasks \ {"turn"} : capture'[u] = capture[u]
        BY <1>2, <2>1, CaptureMoves DEF RefsListed, Saved!Tasks
    <2>3. RefsListed'
        BY <2>2 DEF RefsListed
    <2> QED BY <1>2, <2>2, <2>3 DEF WorkFiled, RestoreAlone, RestoreSafe
<1> QED BY <1>1, <1>2

LEMMA WorksKeep ==
    ASSUME CheckpointsInv, Saved!EndTurn \/ (\E p \in Paths : Saved!Edit(p) \/ Saved!Stage(p)) \/ Saved!Unlock \/ Saved!ApplyFails
    PROVE  CheckpointsInv'
<1> USE SnapshotSame DEF CheckpointsInv
<1>1. CASE Saved!EndTurn BY <1>1 DEF Saved!EndTurn, WorkFiled, RefsListed, RestoreAlone, RestoreSafe
<1>2. ASSUME NEW p \in Paths, Saved!Edit(p) PROVE CheckpointsInv'
    BY <1>2
    DEF Saved!Edit, WorkFiled, RefsListed, RestoreAlone, RestoreSafe, Workspaces
<1>3. ASSUME NEW p \in Paths, Saved!Stage(p) PROVE CheckpointsInv'
    BY <1>3 DEF Saved!Stage, WorkFiled, RefsListed, RestoreAlone, RestoreSafe
<1>4. CASE Saved!Unlock BY <1>4 DEF Saved!Unlock, WorkFiled, RefsListed, RestoreAlone, RestoreSafe
<1>5. CASE Saved!ApplyFails BY <1>5, NothingTaken DEF Saved!ApplyFails, WorkFiled, RefsListed, RestoreAlone, RestoreSafe
<1> QED BY <1>1, <1>2, <1>3, <1>4, <1>5

LEMMA FollowKeeps ==
    ASSUME CheckpointsInv, NEW t \in Saved!Tasks, NEW tree \in CleanTrees, Saved!Captured(t, tree), capture[t].pc # "none",
           UNCHANGED work, WorkFiled', made' = made, refs' \subseteq refs,
           t = "restore" => \E r \in refs' : r.tree = Saved!Snapshot
    PROVE  CheckpointsInv'
<1> USE SnapshotSame DEF CheckpointsInv
<1>1. /\ capture' \in [Saved!Tasks -> CaptureRecords] /\ capture'[t] = Saved!NoCapture
      /\ \A u \in Saved!Tasks \ {t} : capture'[u] = capture[u]
    BY CaptureMoves, NothingTaken DEF Saved!Captured, RefsListed
<1>2. Saved!NoCapture.existing = {} BY DEF Saved!NoCapture
<1>3. RefsListed'
    BY <1>1, <1>2 DEF RefsListed
<1>4. CASE t = "turn"
    <2>1. /\ UNCHANGED restore /\ turn' = "runs" /\ restore.pc = "none"
        BY <1>4 DEF Saved!Captured, RestoreAlone
    <2> QED
        BY <1>1, <1>3, <1>4, <2>1, NothingTaken
        DEF RestoreAlone, RestoreSafe, Saved!Tasks
<1>5. CASE t = "restore"
    <2>1. /\ restore' = [restore EXCEPT !.pc = "apply"] /\ UNCHANGED turn
          /\ restore.pc = "safety"
          /\ turn = "none"
        BY <1>5 DEF Saved!Captured, RestoreAlone
    <2>2. capture'["turn"].pc = "none" /\ capture'["restore"].pc = "none"
        BY <1>1, <1>5, <2>1, NothingTaken DEF RestoreAlone, Saved!Tasks
    <2> QED BY <1>3, <1>5, <2>1, <2>2 DEF RestoreAlone, RestoreSafe
<1> QED BY <1>4, <1>5 DEF Saved!Tasks

LEMMA FailKeeps ==
    ASSUME CheckpointsInv, NEW t \in Saved!Tasks, Saved!CaptureFails(t)
    PROVE  CheckpointsInv'
<1> USE SnapshotSame DEF CheckpointsInv
<1>1. /\ capture' \in [Saved!Tasks -> CaptureRecords] /\ capture'[t] = Saved!NoCapture
      /\ \A u \in Saved!Tasks \ {t} : capture'[u] = capture[u]
    BY CaptureMoves, NothingTaken DEF Saved!CaptureFails, RefsListed
<1>2. Saved!NoCapture.existing = {} BY DEF Saved!NoCapture
<1>3. RefsListed' /\ WorkFiled'
    BY <1>1, <1>2 DEF RefsListed, Saved!CaptureFails, WorkFiled
<1>4. RestoreAlone' /\ RestoreSafe'
    BY <1>1, NothingTaken
    DEF Saved!CaptureFails, RestoreAlone, RestoreSafe, Saved!Tasks
<1> QED BY <1>3, <1>4

LEMMA SnapshotKeeps ==
    ASSUME CheckpointsInv, NEW t \in Saved!Tasks, Saved!TakeSnapshot(t)
    PROVE  CheckpointsInv'
<1> USE SnapshotSame DEF CheckpointsInv
<1>1. Saved!Snapshot \in CleanTrees BY SnapshotIsTree DEF WorkFiled
<1> DEFINE c == [capture[t] EXCEPT !.pc = "list", !.tree = Saved!Snapshot]
<1>2. capture' = [capture EXCEPT ![t] = c]
    BY DEF Saved!TakeSnapshot, RefsListed
<1>3. /\ c \in CaptureRecords /\ c.pc = "list" /\ c.tree = Saved!Snapshot
      /\ c.existing = capture[t].existing
    BY <1>1 DEF RefsListed, CaptureRecords
<1> HIDE DEF c
<1>4. /\ capture' \in [Saved!Tasks -> CaptureRecords] /\ capture'[t] = c
      /\ \A u \in Saved!Tasks \ {t} : capture'[u] = capture[u]
    BY <1>2, <1>3, CaptureMoves DEF RefsListed
<1>5. RefsListed' /\ WorkFiled'
    BY <1>3, <1>4 DEF RefsListed, Saved!TakeSnapshot, WorkFiled
<1>6. RestoreAlone' /\ RestoreSafe'
    BY <1>3, <1>4 DEF Saved!TakeSnapshot, RestoreAlone, RestoreSafe, Saved!Tasks
<1> QED BY <1>5, <1>6

LEMMA ListKeeps ==
    ASSUME CheckpointsInv, NEW t \in Saved!Tasks, Saved!List(t)
    PROVE  CheckpointsInv'
<1> USE SnapshotSame DEF CheckpointsInv
<1>1. CASE Saved!Reuses(t)
    <2>1. t = "turn" BY <1>1 DEF Saved!Reuses
    <2>2. capture[t].tree \in CleanTrees BY DEF RefsListed, CaptureRecords
    <2>3. /\ WorkFiled' /\ UNCHANGED <<work, refs, made>> /\ capture[t].pc # "none"
          /\ Saved!Captured(t, capture[t].tree)
        BY <1>1 DEF Saved!List, WorkFiled
    <2> QED BY <2>1, <2>2, <2>3, FollowKeeps
<1>2. CASE ~Saved!Reuses(t)
    <2> DEFINE c == [capture[t] EXCEPT !.pc = "record", !.existing = refs]
    <2>2. capture' = [capture EXCEPT ![t] = c]
        BY <1>2 DEF Saved!List, RefsListed
    <2>3. /\ c \in CaptureRecords /\ c.pc = "record" /\ c.tree = capture[t].tree
          /\ c.existing = refs
        BY DEF RefsListed, CaptureRecords
    <2> HIDE DEF c
    <2>4. /\ capture' \in [Saved!Tasks -> CaptureRecords] /\ capture'[t] = c
          /\ \A u \in Saved!Tasks \ {t} : capture'[u] = capture[u]
        BY <2>2, <2>3, CaptureMoves DEF RefsListed
    <2>5. RefsListed' /\ WorkFiled'
        BY <2>3, <2>4 DEF RefsListed, Saved!List, WorkFiled
    <2>6. RestoreAlone' /\ RestoreSafe'
        BY <1>2, <2>3, <2>4 DEF Saved!List, RestoreAlone, RestoreSafe, Saved!Tasks
    <2> QED BY <2>5, <2>6
<1> QED BY <1>1, <1>2

LEMMA CommitKeeps ==
    ASSUME CheckpointsInv, NEW t \in Saved!Tasks, Saved!Record(t)
    PROVE  CheckpointsInv'
<1> USE SnapshotSame DEF CheckpointsInv
<1> DEFINE c == [capture[t] EXCEPT !.pc = "prune"]
           r == [id |-> made + 1, tree |-> capture[t].tree]
<1>2. capture' = [capture EXCEPT ![t] = c]
    BY DEF Saved!Record, RefsListed
<1>3. /\ c \in CaptureRecords /\ c.pc = "prune" /\ c.tree = capture[t].tree
      /\ c.existing = capture[t].existing
    BY DEF RefsListed, CaptureRecords
<1>4. r \in RefRecords /\ r.id = made + 1 /\ r.tree = capture[t].tree
    BY DEF RefRecords, RefsListed, CaptureRecords
<1>5. /\ refs' = refs \cup {r} /\ made' = made + 1
      /\ UNCHANGED <<work, index, edits, turn, restore>> /\ capture[t].pc = "record"
    BY DEF Saved!Record
<1> HIDE DEF c, r
<1>6. /\ capture' \in [Saved!Tasks -> CaptureRecords] /\ capture'[t] = c
      /\ \A u \in Saved!Tasks \ {t} : capture'[u] = capture[u]
    BY <1>2, <1>3, CaptureMoves DEF RefsListed
<1>7. /\ made' \in Nat /\ refs' \subseteq RefRecords
      /\ \A q \in refs' : q.id <= made'
    BY <1>4, <1>5 DEF RefsListed, RefRecords
<1>8. \A u \in Saved!Tasks : \A q \in capture'[u].existing : q \in RefRecords /\ q.id <= made'
    BY <1>3, <1>5, <1>6 DEF RefsListed, RefRecords, CaptureRecords
<1>9. WorkFiled' /\ RefsListed'
    BY <1>5, <1>6, <1>7, <1>8 DEF RefsListed, WorkFiled
<1>10. RestoreAlone'
    BY <1>3, <1>5, <1>6 DEF RestoreAlone, Saved!Tasks
<1>11. \A q \in capture[t].existing : q.id # r.id
    BY <1>4 DEF RefsListed, RefRecords, CaptureRecords
<1>12. RestoreSafe'
    BY <1>3, <1>4, <1>5, <1>6, <1>11 DEF RestoreSafe, Saved!Tasks
<1> QED BY <1>9, <1>10, <1>12

LEMMA PruneKeeps ==
    ASSUME CheckpointsInv, NEW t \in Saved!Tasks, Saved!Prune(t)
    PROVE  CheckpointsInv'
<1> USE DEF CheckpointsInv
<1>1. PICK gone \in SUBSET Saved!Surplus(capture[t].existing) : refs' = {r \in refs : r.id \notin gone}
    BY DEF Saved!Prune
<1>2. \A g \in gone : \E q \in capture[t].existing : q.id = g
    BY DEF Saved!Surplus
<1>3. t = "restore" => \E r \in refs' : r.tree = Saved!Snapshot
    BY <1>1, <1>2 DEF Saved!Prune, RestoreSafe
<1>4. capture[t].tree \in CleanTrees BY DEF RefsListed, CaptureRecords
<1>5. /\ WorkFiled' /\ UNCHANGED <<work, made>> /\ capture[t].pc # "none"
      /\ Saved!Captured(t, capture[t].tree)
      /\ refs' \subseteq refs
    BY <1>1 DEF Saved!Prune, WorkFiled
<1> QED BY <1>3, <1>4, <1>5, FollowKeeps

LEMMA AskKeeps == ASSUME CheckpointsInv, Saved!StartRestore PROVE CheckpointsInv'
<1> USE SnapshotSame DEF CheckpointsInv
<1> DEFINE c == [Saved!NoCapture EXCEPT !.pc = "snapshot"]
<1>1. c \in CaptureRecords /\ c.existing = {} /\ c.pc = "snapshot"
    BY NothingTaken DEF CaptureRecords, Saved!NoCapture
<1>2. capture' = [capture EXCEPT !["restore"] = c]
    BY DEF Saved!StartRestore
<1> HIDE DEF c
<1>3. /\ capture' \in [Saved!Tasks -> CaptureRecords] /\ "turn" \in Saved!Tasks
      /\ "restore" \in Saved!Tasks
      /\ capture'["restore"] = c
      /\ \A u \in Saved!Tasks \ {"restore"} : capture'[u] = capture[u]
    BY <1>1, <1>2, CaptureMoves DEF RefsListed, Saved!Tasks
<1>4. RefsListed' /\ WorkFiled'
    BY <1>1, <1>3 DEF RefsListed, Saved!StartRestore, WorkFiled
<1>5. /\ restore' \in [pc : {"none", "safety", "apply"}, tree : CleanTrees]
      /\ restore'.pc = "safety"
    BY DEF Saved!StartRestore, RefsListed, RefRecords
<1>6. RestoreAlone' /\ RestoreSafe'
    BY <1>1, <1>3, <1>5
    DEF Saved!StartRestore, RestoreAlone, RestoreSafe, Saved!Tasks
<1> QED BY <1>4, <1>6

LEMMA ApplyKeeps ==
    ASSUME CheckpointsInv, Saved!Apply \/ Saved!ApplyKilled
    PROVE  CheckpointsInv'
<1> USE NothingTaken DEF CheckpointsInv
<1>1. restore.tree \in CleanTrees /\ restore' = Saved!NoRestore /\ restore.pc = "apply"
    BY DEF RestoreAlone, Saved!Apply, Saved!ApplyKilled
<1>2. Saved!Reset(restore.tree, work, index) \in Workspaces
    BY <1>1, ResetIsState DEF WorkFiled
<1>3. work' \in Workspaces
    <2>1. CASE Saved!Apply BY <1>2, <2>1 DEF Saved!Apply
    <2>2. CASE Saved!ApplyKilled BY <1>2, <2>2 DEF Saved!ApplyKilled, Saved!HalfReset, WorkFiled, Workspaces
    <2> QED BY <2>1, <2>2
<1>4. index' \cap Ignored = {} /\ UNCHANGED <<edits, refs, made, turn, capture>>
    BY <1>1 DEF Saved!Apply, Saved!ApplyKilled, Saved!In, CleanTrees, WorkFiled
<1>5. capture["turn"].pc = "none" /\ capture["restore"].pc = "none"
    BY <1>1 DEF RestoreAlone
<1> QED
    BY <1>1, <1>3, <1>4, <1>5
    DEF WorkFiled, RefsListed, RestoreAlone, RestoreSafe

LEMMA CheckpointsKeep ==
    ASSUME CheckpointsInv, [Saved!Next]_(Saved!vars)
    PROVE  CheckpointsInv'
<1>1. CASE UNCHANGED Saved!vars
    <2>1. UNCHANGED Saved!vars BY <1>1
    <2> QED
        BY <2>1, SnapshotSame
        DEF Saved!vars, CheckpointsInv, WorkFiled, RefsListed, RestoreAlone,
            RestoreSafe
<1>2. CASE Saved!Next
    BY <1>2, BeginKeeps, WorksKeep, FailKeeps, SnapshotKeeps, ListKeeps,
       CommitKeeps, PruneKeeps, AskKeeps, ApplyKeeps
    DEF Saved!Next
<1> QED BY <1>1, <1>2

LEMMA ApplyUndoes ==
    ASSUME CheckpointsInv, Saved!Apply \/ Saved!ApplyKilled, NEW r, r.tree = Saved!Snapshot, NEW p \in Paths
    PROVE  \/ Saved!Reset(r.tree, work', index')[p] = work[p]
           \/ work[p] = "none" /\ index' = index
<1> DEFINE t == restore.tree
<1>1. t \in CleanTrees
    BY DEF CheckpointsInv, RestoreAlone
<1>2. Saved!Reset(Saved!Snapshot, work', index')[p] =
         IF p \in Saved!In(Saved!Snapshot) THEN Saved!Snapshot[p] ELSE IF p \in index' THEN "none" ELSE work'[p]
    BY DEF Saved!Reset
<1>3. Saved!Reset(t, work, index)[p] =
         IF p \in Saved!In(t) THEN t[p] ELSE IF p \in index THEN "none" ELSE work[p]
    BY DEF Saved!Reset
<1>4. /\ Saved!Snapshot[p] = IF p \in Ignored THEN "none" ELSE work[p]
      /\ p \in Saved!In(Saved!Snapshot) <=> Saved!Snapshot[p] # "none"
      /\ p \in Saved!In(t) <=> t[p] # "none"
    BY DEF Saved!Snapshot, Saved!In
<1>5. p \in Ignored => p \notin Saved!In(t) /\ p \notin index
    BY <1>1, <1>4 DEF CleanTrees, CheckpointsInv, WorkFiled
<1>6. CASE Saved!Apply
    <2>1. /\ work'[p] = Saved!Reset(t, work, index)[p]
          /\ (p \in index' <=> p \in Saved!In(t))
        BY <1>6 DEF Saved!Apply
    <2> QED BY <1>2, <1>3, <1>4, <1>5, <2>1
<1>7. CASE Saved!ApplyKilled
    <2>1. work'[p] \in {work[p], Saved!Reset(t, work, index)[p]} /\ index' = index
        BY <1>7 DEF Saved!ApplyKilled, Saved!HalfReset
    <2> QED BY <1>2, <1>3, <1>4, <1>5, <2>1
<1> QED BY <1>6, <1>7

RestoreUndone ==
    work' # work /\ edits' = edits =>
        \E r \in refs' :
            LET back == Saved!Reset(r.tree, work', index') IN
            \A p \in Paths : back[p] = work[p] \/ (work[p] = "none" /\ index' = index)

LEMMA StepsUndoable ==
    ASSUME CheckpointsInv, [Saved!Next]_(Saved!vars)
    PROVE  RestoreUndone
<1>1. CASE UNCHANGED Saved!vars BY <1>1 DEF Saved!vars, RestoreUndone
<1>2. CASE Saved!Apply \/ Saved!ApplyKilled
    <2>1. PICK r \in refs : r.tree = Saved!Snapshot
        BY <1>2 DEF CheckpointsInv, RestoreSafe, Saved!Apply, Saved!ApplyKilled
    <2>2. refs' = refs BY <1>2 DEF Saved!Apply, Saved!ApplyKilled
    <2> QED BY <1>2, <2>1, <2>2, ApplyUndoes DEF RestoreUndone
<1>3. ASSUME NEW p \in Paths, Saved!Edit(p) PROVE RestoreUndone
    BY <1>3 DEF Saved!Edit, RestoreUndone, CheckpointsInv, WorkFiled
<1>4. CASE /\ Saved!Next /\ ~(Saved!Apply \/ Saved!ApplyKilled) /\ ~\E p \in Paths : Saved!Edit(p)
    <2>1. UNCHANGED work
        BY <1>4
        DEF Saved!Next, Saved!StartTurn, Saved!EndTurn, Saved!StartRestore,
            Saved!ApplyFails, Saved!Unlock, Saved!Stage, Saved!TakeSnapshot,
            Saved!List, Saved!Record, Saved!Prune, Saved!CaptureFails
    <2> QED BY <2>1 DEF RestoreUndone
<1> QED BY <1>1, <1>2, <1>3, <1>4

(* Checkpoints: whatever fails or is killed, after a restore or a part of  *)
(* one some listed checkpoint brings every file back (restore and _prune   *)
(* of checkpoint/service.py, restore_tree of checkpoint/git.py).           *)
THEOREM RestoresAlwaysUndoable ==
    Saved!Spec => Saved!RestoreIsUndoable
<1>1. CheckpointsInv /\ [Saved!Next]_(Saved!vars) => CheckpointsInv'
    BY CheckpointsKeep
<1>2. CheckpointsInv /\ [Saved!Next]_(Saved!vars) => RestoreUndone
    BY StepsUndoable
<1> QED
    BY <1>1, <1>2, CheckpointsStart, PTL
    DEF Saved!Spec, Saved!RestoreIsUndoable, RestoreUndone

-----------------------------------------------------------------------------
(* Memory, for any windows, workspaces, notes and a limit of at least two. *)

NoteRecords == [id : Nat, ws : Noted!Workspaces, note : Notes, key : Noted!Keys \cup {""}, at : Nat]

NotesOf(ws, s) == {r \in s : r.ws = ws}
NewerIn(ws, r, s) == {q \in s : q.ws = ws /\ Noted!Newer(q, r)}

(* What is stored is a set of entries with rowids of their own.            *)
Identified(s) == s \subseteq NoteRecords /\ \A p, q \in s : p.id = q.id => p = q
Counted(s, n) == \A r \in s : 1 <= r.id /\ r.id <= n /\ r.at <= n
KeysApart(s) ==
    /\ \A p, q \in s : p.ws = q.ws /\ p.key = q.key => p = q
    /\ \A r \in s : r.key = Noted!NoteKey(r.note)
Fits(s) == \A ws \in Noted!Workspaces : Cardinality(NotesOf(ws, s)) <= Kept

NotesInv ==
    /\ recorded \in Nat /\ IsFiniteSet(rows) /\ Identified(rows)
    /\ Counted(rows, recorded)
    /\ version = 2 => KeysApart(rows) /\ Fits(rows)

(* Before the keys nobody writes, so that what a migration has read is     *)
(* what it changes.                                                        *)
OpenedInv ==
    /\ version \in 0..2
    /\ version = 0 => rows = {}
    /\ version = 1 => recorded <= 2 /\ Cardinality(rows) <= 2
    /\ DOMAIN picked = NoteWindows
    /\ \A w \in NoteWindows :
         /\ picked[w] # {} => Noted!At(w, "open")
         /\ Noted!At(w, "open") => version = 2
         /\ Noted!At(w, "fetched") => version # 0 /\ (version = 1 => opened[w].fetched = rows)
         /\ Noted!At(w, "read") => (opened[w].seen = 1 => version # 0)

OpenedRecords ==
    [pc : {"closed", "read", "fetched", "open"}, seen : 0..2, fetched : SUBSET NoteRecords]
OpenedTyped == opened \in [NoteWindows -> OpenedRecords]

MemoryInv == OpenedTyped /\ NotesInv /\ OpenedInv

-----------------------------------------------------------------------------
(* Counting.                                                               *)
LEMMA CountsAgree ==
    \A S : Noted!Cardinality(S) = Cardinality(S) /\ (Noted!IsFiniteSet(S) <=> IsFiniteSet(S))
BY Zenon DEF Noted!Cardinality, Cardinality, Noted!IsFiniteSet, IsFiniteSet

LEMMA NewerIsOrder ==
    ASSUME NEW p \in NoteRecords, NEW q \in NoteRecords, NEW r \in NoteRecords
    PROVE  /\ ~Noted!Newer(p, p)
           /\ Noted!Newer(p, q) /\ Noted!Newer(q, r) => Noted!Newer(p, r)
           /\ Noted!Newer(p, q) \/ Noted!Newer(q, p) \/ p.id = q.id
           /\ p.at > q.at => Noted!Newer(p, q)
<1>1. /\ p.at \in Nat /\ q.at \in Nat /\ r.at \in Nat
      /\ p.id \in Nat /\ q.id \in Nat /\ r.id \in Nat
    BY DEF NoteRecords
<1> QED BY <1>1 DEF Noted!Newer

(* Of two entries the older one has more that are newer.                   *)
LEMMA OlderHasMore ==
    ASSUME NEW s, IsFiniteSet(s), Identified(s), NEW ws,
           NEW p \in s, NEW q \in s, p.ws = ws, Noted!Newer(p, q)
    PROVE  /\ Cardinality(NewerIn(ws, p, s)) \in Nat
           /\ Cardinality(NewerIn(ws, q, s)) \in Nat
           /\ Cardinality(NewerIn(ws, p, s)) < Cardinality(NewerIn(ws, q, s))
<1> DEFINE P == NewerIn(ws, p, s)
           Q == NewerIn(ws, q, s)
<1>1. P \subseteq s /\ Q \subseteq s
    BY DEF NewerIn
<1>2. IsFiniteSet(P) /\ IsFiniteSet(Q)
    BY <1>1, FS_Subset
<1>3. p \in Q /\ p \notin P
    BY NewerIsOrder DEF NewerIn, Identified
<1>4. P \subseteq Q
    BY NewerIsOrder DEF NewerIn, Identified
<1> HIDE DEF P, Q
<1>5. Cardinality(P \cup {p}) = Cardinality(P) + 1 /\ IsFiniteSet(P \cup {p})
    BY <1>2, <1>3, FS_AddElement
<1>6. Cardinality(P \cup {p}) <= Cardinality(Q)
    BY <1>2, <1>3, <1>4, FS_Subset
<1>7. Cardinality(P) \in Nat /\ Cardinality(Q) \in Nat
    BY <1>2, FS_CardinalityType
<1>8. Cardinality(P) < Cardinality(Q)
    BY <1>5, <1>6, <1>7
<1> QED BY <1>7, <1>8 DEF P, Q

(* The newest entries of a workspace that stay are as many as may stay.    *)
LEMMA PrunedFits ==
    ASSUME NEW s, IsFiniteSet(s), Identified(s), NEW ws, Kept \in Nat
    PROVE  Cardinality(NotesOf(ws, Noted!Pruned(ws, s))) <= Kept
<1> DEFINE K == NotesOf(ws, Noted!Pruned(ws, s))
           f == [r \in K |-> Cardinality(NewerIn(ws, r, s))]
<1>1. \A r \in K : r \in s /\ r.ws = ws /\ Cardinality(NewerIn(ws, r, s)) < Kept
    BY CountsAgree DEF NotesOf, Noted!Pruned, NewerIn
<1>2. \A r \in s : Cardinality(NewerIn(ws, r, s)) \in Nat
    <2> SUFFICES ASSUME NEW r \in s PROVE Cardinality(NewerIn(ws, r, s)) \in Nat
        OBVIOUS
    <2>1. NewerIn(ws, r, s) \subseteq s
        BY DEF NewerIn
    <2> QED BY <2>1, FS_Subset, FS_CardinalityType
<1>3. f \in [K -> 0..Kept - 1]
    BY <1>1, <1>2
<1>4. ASSUME NEW p \in K, NEW q \in K, p # q PROVE f[p] # f[q]
    <2>1. p \in s /\ q \in s /\ p.ws = ws /\ q.ws = ws
        BY <1>1, <1>4
    <2>2. Noted!Newer(p, q) \/ Noted!Newer(q, p)
        BY <1>4, <2>1, NewerIsOrder DEF Identified
    <2>3. CASE Noted!Newer(p, q)
        <3>1. Cardinality(NewerIn(ws, p, s)) < Cardinality(NewerIn(ws, q, s))
            BY <2>1, <2>3, OlderHasMore
        <3> QED BY <1>2, <1>4, <2>1, <3>1
    <2>4. CASE Noted!Newer(q, p)
        <3>1. Cardinality(NewerIn(ws, q, s)) < Cardinality(NewerIn(ws, p, s))
            BY <2>1, <2>4, OlderHasMore
        <3> QED BY <1>2, <1>4, <2>1, <3>1
    <2> QED BY <2>2, <2>3, <2>4
<1> HIDE DEF K, f
<1>5. f \in Injection(K, 0..Kept - 1)
    BY <1>3, <1>4 DEF Injection, IsInjective
<1>6. IsFiniteSet(0..Kept - 1) /\ Cardinality(0..Kept - 1) = Kept
    BY FS_Interval
<1>7. Cardinality(K) <= Kept
    BY <1>5, <1>6, FS_Injection
<1> QED BY <1>7 DEF K

(* A workspace that has no more is left as it is.                          *)
LEMMA PrunedKeepsFew ==
    ASSUME NEW s, IsFiniteSet(s), Identified(s), NEW ws, Kept \in Nat,
           Cardinality(NotesOf(ws, s)) <= Kept
    PROVE  Noted!Pruned(ws, s) = s
<1>1. ASSUME NEW r \in s, r.ws = ws PROVE Cardinality(NewerIn(ws, r, s)) < Kept
    <2> DEFINE N == NewerIn(ws, r, s)
               T == NotesOf(ws, s)
    <2>1. N \subseteq T /\ r \in T /\ r \notin N /\ T \subseteq s
        BY <1>1, NewerIsOrder DEF NewerIn, NotesOf, Identified
    <2> HIDE DEF N, T
    <2>2. IsFiniteSet(T)
        BY <2>1, FS_Subset
    <2>3. IsFiniteSet(N)
        BY <2>1, <2>2, FS_Subset
    <2>4. Cardinality(N \cup {r}) = Cardinality(N) + 1
        BY <2>1, <2>3, FS_AddElement
    <2>5. Cardinality(N \cup {r}) <= Cardinality(T)
        BY <2>1, <2>2, FS_Subset
    <2>6. Cardinality(N) \in Nat /\ Cardinality(T) \in Nat
        BY <2>2, <2>3, FS_CardinalityType
    <2>7. Cardinality(T) <= Kept
        BY DEF T
    <2>8. Cardinality(N) < Kept
        BY <2>4, <2>5, <2>6, <2>7
    <2> QED BY <2>8 DEF N
<1> QED BY <1>1, CountsAgree DEF Noted!Pruned, NewerIn

(* What goes is no newer than what stays.                                  *)
LEMMA PrunedOldest ==
    ASSUME NEW s, IsFiniteSet(s), Identified(s), NEW ws, Kept \in Nat,
           NEW gone \in s, gone \notin Noted!Pruned(ws, s),
           NEW kept \in Noted!Pruned(ws, s), kept.ws = ws
    PROVE  gone.ws = ws /\ gone.at <= kept.at
<1>1. /\ gone.ws = ws /\ ~(Cardinality(NewerIn(ws, gone, s)) < Kept)
      /\ kept \in s /\ Cardinality(NewerIn(ws, kept, s)) < Kept
    BY CountsAgree DEF Noted!Pruned, NewerIn
<1>2. ~Noted!Newer(gone, kept)
    <2> SUFFICES ASSUME Noted!Newer(gone, kept) PROVE FALSE
        OBVIOUS
    <2>1. /\ Cardinality(NewerIn(ws, gone, s)) < Cardinality(NewerIn(ws, kept, s))
          /\ Cardinality(NewerIn(ws, gone, s)) \in Nat
          /\ Cardinality(NewerIn(ws, kept, s)) \in Nat
        BY <1>1, OlderHasMore
    <2> QED BY <1>1, <2>1
<1>3. gone \in NoteRecords /\ kept \in NoteRecords
    BY <1>1 DEF Identified
<1>4. ~(gone.at > kept.at)
    BY <1>2, <1>3, NewerIsOrder
<1>5. gone.at \in Nat /\ kept.at \in Nat
    BY <1>3 DEF NoteRecords
<1> QED BY <1>1, <1>4, <1>5

(* Entries that are changed where they are do not become more.             *)
LEMMA ChangedAreNoMore ==
    ASSUME NEW s, IsFiniteSet(s), NEW f, f \in [s -> NoteRecords]
    PROVE  LET t == {f[r] : r \in s} IN
           /\ IsFiniteSet(t)
           /\ (\A r \in s : f[r].ws = r.ws) =>
                \A ws : Cardinality(NotesOf(ws, t)) <= Cardinality(NotesOf(ws, s))
<1> DEFINE t == {f[r] : r \in s}
<1>1. IsFiniteSet(t)
    <2>1. f \in Surjection(s, t)
        BY DEF Surjection
    <2> QED BY <2>1, FS_Surjection
<1>2. ASSUME \A r \in s : f[r].ws = r.ws, NEW ws
      PROVE  Cardinality(NotesOf(ws, t)) <= Cardinality(NotesOf(ws, s))
    <2> DEFINE A == NotesOf(ws, s)
               B == NotesOf(ws, t)
               g == [r \in A |-> f[r]]
    <2>1. A \subseteq s
        BY DEF NotesOf
    <2>2. g \in Surjection(A, B)
        BY <1>2 DEF Surjection, NotesOf
    <2>3. IsFiniteSet(A)
        BY <2>1, FS_Subset
    <2> HIDE DEF A, B, g
    <2>4. Cardinality(B) <= Cardinality(A)
        BY <2>2, <2>3, FS_Surjection
    <2> QED BY <2>4 DEF A, B
<1> QED BY <1>1, <1>2

LEMMA FewerFit ==
    ASSUME NEW s, NEW t, t \subseteq s, IsFiniteSet(s)
    PROVE  IsFiniteSet(t) /\ \A ws : Cardinality(NotesOf(ws, t)) <= Cardinality(NotesOf(ws, s))
<1>1. ASSUME NEW ws PROVE Cardinality(NotesOf(ws, t)) <= Cardinality(NotesOf(ws, s))
    <2>1. NotesOf(ws, s) \subseteq s /\ NotesOf(ws, t) \subseteq NotesOf(ws, s)
        BY DEF NotesOf
    <2>2. IsFiniteSet(NotesOf(ws, s))
        BY <2>1, FS_Subset
    <2> QED BY <2>1, <2>2, FS_Subset
<1> QED BY <1>1, FS_Subset

-----------------------------------------------------------------------------
(* Entries that go leave the rest as they must be.                         *)
LEMMA FewerKeep ==
    ASSUME NotesInv, Kept \in Nat, NEW s, s \subseteq rows
    PROVE  /\ IsFiniteSet(s) /\ Identified(s) /\ Counted(s, recorded)
           /\ version = 2 => KeysApart(s) /\ Fits(s)
<1>1. /\ IsFiniteSet(rows)
      /\ \A ws \in Noted!Workspaces : Cardinality(NotesOf(ws, s)) <= Cardinality(NotesOf(ws, rows))
    BY FewerFit DEF NotesInv
<1>2. IsFiniteSet(s) /\ Identified(s) /\ Counted(s, recorded)
    BY FewerFit DEF NotesInv, Identified, Counted
<1>3. version = 2 => KeysApart(s)
    BY DEF NotesInv, KeysApart
<1>4. ASSUME version = 2, NEW ws \in Noted!Workspaces PROVE Cardinality(NotesOf(ws, s)) <= Kept
    <2>1. NotesOf(ws, s) \subseteq s /\ NotesOf(ws, rows) \subseteq rows
        BY DEF NotesOf
    <2>2. IsFiniteSet(NotesOf(ws, s)) /\ IsFiniteSet(NotesOf(ws, rows))
        BY <1>1, <1>2, <2>1, FS_Subset
    <2>3. Cardinality(NotesOf(ws, s)) \in Nat /\ Cardinality(NotesOf(ws, rows)) \in Nat
        BY <2>2, FS_CardinalityType
    <2>4. /\ Cardinality(NotesOf(ws, s)) <= Cardinality(NotesOf(ws, rows))
          /\ Cardinality(NotesOf(ws, rows)) <= Kept
        BY <1>1, <1>4 DEF NotesInv, Fits
    <2> QED BY <2>3, <2>4
<1> QED BY <1>2, <1>3, <1>4 DEF Fits

LEMMA NewRow ==
    ASSUME NEW ws \in Noted!Workspaces, NEW note \in Notes, NEW n \in Nat
    PROVE  LET new == Noted!Row(n, ws, note, n) IN
           /\ new \in NoteRecords /\ new.id = n /\ new.at = n /\ new.ws = ws
           /\ new.note = note
           /\ new.key = Noted!NoteKey(note)
BY DEF Noted!Row, NoteRecords, Noted!Keys, Noted!NoteKey

NewIn(s, t, new, ws, note) ==
    /\ IsFiniteSet(t) /\ Identified(t) /\ Counted(t, recorded + 1) /\ KeysApart(t)
    /\ \A v \in Noted!Workspaces \ {ws} : Cardinality(NotesOf(v, t)) <= Kept
    /\ s \subseteq t /\ new \in Noted!Pruned(ws, t) /\ new.ws = ws /\ new.note = note
    /\ \A r \in t : r = new \/ r \in s

OverIn(s, t, ws, note) ==
    /\ IsFiniteSet(t) /\ Identified(t) /\ Counted(t, recorded) /\ KeysApart(t)
    /\ Fits(t)
    /\ \A r \in s : \E q \in t : q.id = r.id
    /\ \A q \in t : \E r \in s : q.ws = r.ws /\ q.key = r.key
    /\ \E q \in t : q.ws = ws /\ q.note = note

(* A note that is not there comes as the newest.                           *)
LEMMA UpsertedNew ==
    ASSUME NotesInv, version = 2, Kept \in Nat, Kept >= 1,
           NEW s, s \subseteq rows, NEW ws \in Noted!Workspaces, NEW note \in Notes,
           Noted!Those(ws, Noted!NoteKey(note), s) = {}
    PROVE  NewIn(s, Noted!Upserted(ws, note, recorded + 1, s),
                 Noted!Row(recorded + 1, ws, note, recorded + 1), ws, note)
<1> DEFINE t == Noted!Upserted(ws, note, recorded + 1, s)
           new == Noted!Row(recorded + 1, ws, note, recorded + 1)
<1>1. t = s \cup {new}
    BY DEF Noted!Upserted
<1>2. IsFiniteSet(s) /\ Identified(s) /\ Counted(s, recorded) /\ KeysApart(s) /\ Fits(s)
    BY FewerKeep
<1>3. /\ new \in NoteRecords /\ new.id = recorded + 1 /\ new.at = recorded + 1
      /\ new.ws = ws /\ new.note = note /\ new.key = Noted!NoteKey(note)
      /\ recorded \in Nat
    BY NewRow DEF NotesInv
<1> HIDE DEF new
<1>4. IsFiniteSet(t)
    BY <1>1, <1>2, FS_AddElement
<1>5. \A r \in s : r.id \in Nat /\ r.at \in Nat /\ 1 <= r.id /\ r.id <= recorded /\ r.at <= recorded
    BY <1>2 DEF Counted, Identified, NoteRecords
<1>6. Identified(t) /\ Counted(t, recorded + 1)
    <2>1. \A r \in s : r.id # new.id
        BY <1>3, <1>5
    <2>2. Identified(t)
        BY <1>1, <1>2, <1>3, <2>1 DEF Identified
    <2>3. Counted(t, recorded + 1)
        BY <1>1, <1>3, <1>5 DEF Counted
    <2> QED BY <2>2, <2>3
<1>7. KeysApart(t)
    BY <1>1, <1>2, <1>3 DEF KeysApart, Noted!Those
<1>8. \A v \in Noted!Workspaces \ {ws} : Cardinality(NotesOf(v, t)) <= Kept
    <2>1. \A v \in Noted!Workspaces \ {ws} : NotesOf(v, t) = NotesOf(v, s)
        BY <1>1, <1>3 DEF NotesOf
    <2> QED BY <1>2, <2>1 DEF Fits
<1>9. new \in Noted!Pruned(ws, t)
    <2>1. NewerIn(ws, new, t) = {}
        BY <1>1, <1>3, <1>5 DEF NewerIn, Noted!Newer
    <2>2. Cardinality(NewerIn(ws, new, t)) < Kept
        BY <2>1, FS_EmptySet
    <2> QED BY <1>1, <2>2, CountsAgree DEF Noted!Pruned, NewerIn
<1> QED BY <1>1, <1>3, <1>4, <1>6, <1>7, <1>8, <1>9 DEF new, NewIn

(* A note that is there is written over where it is.                       *)
LEMMA UpsertedOver ==
    ASSUME NotesInv, version = 2, Kept \in Nat,
           NEW s, s \subseteq rows, NEW ws \in Noted!Workspaces, NEW note \in Notes, NEW at,
           Noted!Those(ws, Noted!NoteKey(note), s) # {}
    PROVE  OverIn(s, Noted!Upserted(ws, note, at, s), ws, note)
<1> DEFINE there == Noted!Those(ws, Noted!NoteKey(note), s)
           f == [r \in s |-> IF r \in there THEN [r EXCEPT !.note = note] ELSE r]
           t == Noted!Upserted(ws, note, at, s)
<1>1. t = {f[r] : r \in s}
    BY DEF Noted!Upserted
<1>2. IsFiniteSet(s) /\ Identified(s) /\ Counted(s, recorded) /\ KeysApart(s) /\ Fits(s)
    BY FewerKeep
<1>3. ASSUME NEW r \in s
      PROVE  /\ f[r] \in NoteRecords /\ f[r].id = r.id /\ f[r].ws = r.ws
             /\ f[r].key = r.key
             /\ f[r].at = r.at /\ f[r].note = IF r \in there THEN note ELSE r.note
    <2>1. r \in NoteRecords
        BY <1>2 DEF Identified
    <2> QED BY <2>1 DEF NoteRecords
<1>4. f \in [s -> NoteRecords]
    BY <1>3
<1>5. \A r \in there : r \in s /\ r.ws = ws /\ r.key = Noted!NoteKey(note)
    BY DEF Noted!Those
<1> HIDE DEF f, t
<1>6. IsFiniteSet(t) /\ \A v : Cardinality(NotesOf(v, t)) <= Cardinality(NotesOf(v, s))
    BY <1>1, <1>2, <1>3, <1>4, ChangedAreNoMore
<1>7. Identified(t) /\ Counted(t, recorded)
    BY <1>1, <1>2, <1>3 DEF Identified, Counted
<1>8. KeysApart(t)
    BY <1>1, <1>2, <1>3, <1>5 DEF KeysApart
<1>9. Fits(t)
    <2> SUFFICES ASSUME NEW v \in Noted!Workspaces PROVE Cardinality(NotesOf(v, t)) <= Kept
        BY DEF Fits
    <2>1. NotesOf(v, s) \subseteq s /\ NotesOf(v, t) \subseteq t
        BY DEF NotesOf
    <2>2. Cardinality(NotesOf(v, s)) \in Nat /\ Cardinality(NotesOf(v, t)) \in Nat
        BY <1>2, <1>6, <2>1, FS_Subset, FS_CardinalityType
    <2>3. /\ Cardinality(NotesOf(v, t)) <= Cardinality(NotesOf(v, s))
          /\ Cardinality(NotesOf(v, s)) <= Kept
        BY <1>2, <1>6 DEF Fits
    <2> QED BY <2>2, <2>3
<1>10. \A r \in s : \E q \in t : q.id = r.id
    BY <1>1, <1>3
<1>11. \A q \in t : \E r \in s : q.ws = r.ws /\ q.key = r.key
    BY <1>1, <1>3
<1>12. \E q \in t : q.ws = ws /\ q.note = note
    BY <1>1, <1>3, <1>5
<1> QED BY <1>6, <1>7, <1>8, <1>9, <1>10, <1>11, <1>12 DEF t, OverIn

LEMMA PrunedKeeps ==
    ASSUME NEW s, IsFiniteSet(s), Identified(s), NEW n, Counted(s, n), KeysApart(s), Kept \in Nat,
           NEW ws, \A v \in Noted!Workspaces \ {ws} : Cardinality(NotesOf(v, s)) <= Kept
    PROVE  LET t == Noted!Pruned(ws, s) IN
           /\ t \subseteq s /\ IsFiniteSet(t) /\ Identified(t) /\ Counted(t, n)
           /\ KeysApart(t) /\ Fits(t)
<1> DEFINE t == Noted!Pruned(ws, s)
<1>1. t \subseteq s
    BY DEF Noted!Pruned
<1>2. \A v \in Noted!Workspaces \ {ws} : NotesOf(v, t) = NotesOf(v, s)
    BY DEF NotesOf, Noted!Pruned
<1>3. Cardinality(NotesOf(ws, t)) <= Kept
    BY PrunedFits
<1> HIDE DEF t
<1>4. IsFiniteSet(t) /\ Identified(t) /\ Counted(t, n) /\ KeysApart(t)
    BY <1>1, FS_Subset DEF Identified, Counted, KeysApart
<1>5. Fits(t)
    BY <1>2, <1>3 DEF Fits
<1> QED BY <1>1, <1>4, <1>5 DEF t

NotesKept ==
    /\ recorded' \in Nat /\ IsFiniteSet(rows') /\ Identified(rows')
    /\ Counted(rows', recorded')
    /\ KeysApart(rows') /\ Fits(rows')

LEMMA RememberKeeps ==
    ASSUME MemoryInv, Kept \in Nat, Kept >= 1,
           NEW w \in NoteWindows, NEW note \in Notes, NEW replaces, NEW at \in Noted!Clock,
           Noted!Remember(w, note, replaces, at)
    PROVE  NotesKept /\ Noted!CorrectionIsWhole
<1> DEFINE ws == Workspace[w]
           s == Noted!Superseded(ws, note, replaces, rows)
           t == Noted!Upserted(ws, note, at, s)
<1>1. /\ version = 2 /\ NotesInv /\ recorded' = recorded + 1
      /\ rows' = Noted!Pruned(ws, t)
      /\ told' = [ws |-> ws, note |-> note, replaces |-> replaces]
    BY DEF Noted!Remember, MemoryInv, OpenedInv
<1>2. at = recorded + 1 /\ recorded \in Nat
    BY DEF Noted!Clock, MemoryInv, NotesInv
<1>3. ws \in Noted!Workspaces
    BY DEF Noted!Workspaces
<1>4. /\ s \subseteq rows
      /\ \A r \in rows \ s : r.ws = ws /\ r.key = replaces
      /\ replaces # Noted!NoteKey(note) => \A r \in s : ~(r.ws = ws /\ r.key = replaces)
    BY DEF Noted!Superseded
<1>5. told'.ws = ws /\ told'.note = note /\ told'.replaces = replaces
    BY <1>1
<1> HIDE DEF s, ws
<1>6. CASE Noted!Those(ws, Noted!NoteKey(note), s) = {}
    <2> DEFINE new == Noted!Row(recorded + 1, ws, note, recorded + 1)
    <2> HIDE DEF new
    <2>1. NewIn(s, t, new, ws, note)
        BY <1>1, <1>2, <1>3, <1>4, <1>6, UpsertedNew DEF new
    <2>2. new.key = Noted!NoteKey(note)
        BY DEF Noted!Row, new
    <2> HIDE DEF t
    <2>3. NotesKept
        BY <1>1, <1>2, <2>1, PrunedKeeps DEF NotesKept, NewIn
    <2>4. \E r \in Noted!Left(ws) : r.note = note
        BY <1>1, <2>1 DEF Noted!Left, NewIn
    <2>5. replaces # Noted!NoteKey(note) => \A r \in Noted!Left(ws) : r.key # replaces
        <3>1. Noted!Pruned(ws, t) \subseteq t
            BY DEF Noted!Pruned
        <3> QED BY <1>1, <1>4, <2>1, <2>2, <3>1 DEF Noted!Left, NewIn
    <2>6. ASSUME NEW r \in Noted!Gone
          PROVE  r.ws = ws /\ (r.key = replaces \/ \A kept \in Noted!Left(r.ws) : r.at <= kept.at)
        <3>1. r \in rows /\ r \notin rows'
            BY DEF Noted!Gone, Noted!Ids
        <3>2. CASE r \notin s
            BY <1>4, <3>1, <3>2
        <3>3. CASE r \in s
            <4>1. r \in t /\ r \notin Noted!Pruned(ws, t)
                BY <1>1, <2>1, <3>1, <3>3 DEF NewIn
            <4>2. r.ws = ws
                BY <4>1 DEF Noted!Pruned
            <4>3. \A kept \in Noted!Left(r.ws) : kept \in Noted!Pruned(ws, t) /\ kept.ws = ws
                BY <1>1, <4>2 DEF Noted!Left
            <4>4. \A kept \in Noted!Left(r.ws) : r.at <= kept.at
                BY <2>1, <4>1, <4>3, PrunedOldest DEF NewIn
            <4> QED BY <4>2, <4>4
        <3> QED BY <3>2, <3>3
    <2> QED BY <1>5, <2>3, <2>4, <2>5, <2>6 DEF Noted!CorrectionIsWhole
<1>7. CASE Noted!Those(ws, Noted!NoteKey(note), s) # {}
    <2>1. OverIn(s, t, ws, note)
        BY <1>1, <1>3, <1>4, <1>7, UpsertedOver
    <2> HIDE DEF t
    <2>2. rows' = t
        BY <1>1, <1>3, <2>1, PrunedKeepsFew DEF Fits, OverIn
    <2>3. NotesKept
        <3>1. \A r \in t : r.id \in Nat /\ r.at \in Nat
            BY <2>1 DEF OverIn, Identified, NoteRecords
        <3>2. Counted(t, recorded + 1)
            BY <1>2, <2>1, <3>1 DEF Counted, OverIn
        <3> QED BY <1>1, <1>2, <2>1, <2>2, <3>2 DEF NotesKept, OverIn
    <2>4. \E r \in Noted!Left(ws) : r.note = note
        BY <2>1, <2>2 DEF Noted!Left, OverIn
    <2>5. replaces # Noted!NoteKey(note) => \A r \in Noted!Left(ws) : r.key # replaces
        BY <1>4, <2>1, <2>2 DEF Noted!Left, OverIn
    <2>6. ASSUME NEW r \in Noted!Gone PROVE r.ws = ws /\ r.key = replaces
        BY <1>4, <2>1, <2>2 DEF Noted!Gone, Noted!Ids, OverIn
    <2> QED BY <1>5, <2>3, <2>4, <2>5, <2>6 DEF Noted!CorrectionIsWhole
<1> QED BY <1>6, <1>7

(* Of two old notes of one key the one that was written last stays.        *)
LEMMA MigrateKeeps ==
    ASSUME MemoryInv, Kept \in Nat, Kept >= 2, version = 1,
           rows' = Noted!Keyed(rows, rows), UNCHANGED recorded
    PROVE  /\ NotesKept
           /\ \A r \in Noted!Gone : \E kept \in rows' :
                 kept.ws = r.ws /\ kept.key = Noted!NoteKey(r.note) /\ kept.id > r.id
<1> DEFINE K == {r \in rows : Noted!Survives(r, rows)}
           f == [r \in K |-> [r EXCEPT !.key = Noted!NoteKey(r.note)]]
<1>1. /\ recorded \in Nat /\ recorded <= 2 /\ IsFiniteSet(rows) /\ Identified(rows)
      /\ Counted(rows, recorded) /\ Cardinality(rows) <= 2
    BY CountsAgree DEF MemoryInv, NotesInv, OpenedInv
<1>2. rows' = {f[r] : r \in K}
    <2>1. \A r \in rows : r.id \in Noted!Ids(rows)
        BY DEF Noted!Ids
    <2>2. \A r \in rows : (\E q \in rows : q.id = r.id /\ ~Noted!Survives(q, rows)) <=> ~Noted!Survives(r, rows)
        BY <1>1 DEF Identified
    <2> QED BY <2>1, <2>2 DEF Noted!Keyed
<1>3. ASSUME NEW r \in K
      PROVE  /\ f[r] \in NoteRecords /\ f[r].id = r.id /\ f[r].ws = r.ws
             /\ f[r].at = r.at
             /\ f[r].note = r.note /\ f[r].key = Noted!NoteKey(r.note)
    <2>1. r \in NoteRecords
        BY <1>1 DEF Identified
    <2>2. Noted!NoteKey(r.note) \in Noted!Keys
        BY <2>1 DEF NoteRecords, Noted!Keys, Noted!NoteKey
    <2> QED BY <2>1, <2>2 DEF NoteRecords
<1>4. K \subseteq rows /\ f \in [K -> NoteRecords]
    BY <1>3
<1>5. \A r \in rows : r.id \in Nat /\ r.at \in Nat
    BY <1>1 DEF Identified, NoteRecords
<1>6. \A p, q \in K : p.ws = q.ws /\ Noted!NoteKey(p.note) = Noted!NoteKey(q.note) => p = q
    <2>1. \A p, q \in K : p.ws = q.ws /\ Noted!NoteKey(p.note) = Noted!NoteKey(q.note)
                          => p.id <= q.id /\ q.id <= p.id
        BY DEF Noted!Survives
    <2> QED BY <1>1, <1>4, <1>5, <2>1 DEF Identified
<1>7. \A r \in rows \ K : \E q \in K : q.ws = r.ws /\ Noted!NoteKey(q.note) = Noted!NoteKey(r.note) /\ q.id > r.id
    <2> SUFFICES ASSUME NEW r \in rows \ K
                 PROVE  \E q \in K : q.ws = r.ws /\ Noted!NoteKey(q.note) = Noted!NoteKey(r.note) /\ q.id > r.id
        OBVIOUS
    <2>1. PICK q \in rows : q.ws = r.ws /\ Noted!NoteKey(q.note) = Noted!NoteKey(r.note) /\ ~(q.id <= r.id)
        BY DEF Noted!Survives
    <2>2. \A p \in rows : 1 <= p.id /\ p.id <= 2
        BY <1>1, <1>5 DEF Counted
    <2>3. q.id = 2 /\ q.id > r.id
        BY <1>5, <2>1, <2>2
    <2>4. q \in K
        BY <2>2, <2>3 DEF Noted!Survives
    <2> QED BY <2>1, <2>3, <2>4
<1> HIDE DEF K, f
<1>8. IsFiniteSet(K) /\ Cardinality(K) <= 2
    <2>1. IsFiniteSet(K) /\ Cardinality(K) <= Cardinality(rows)
        BY <1>1, <1>4, FS_Subset
    <2>2. Cardinality(K) \in Nat /\ Cardinality(rows) \in Nat
        BY <1>1, <2>1, FS_CardinalityType
    <2> QED BY <1>1, <2>1, <2>2
<1>9. /\ IsFiniteSet(rows')
      /\ \A ws : Cardinality(NotesOf(ws, rows')) <= Cardinality(NotesOf(ws, K))
    BY <1>2, <1>3, <1>4, <1>8, ChangedAreNoMore
<1>10. Identified(rows') /\ Counted(rows', recorded) /\ KeysApart(rows')
    <2>1. Identified(rows')
        BY <1>1, <1>2, <1>3, <1>4 DEF Identified
    <2>2. Counted(rows', recorded)
        BY <1>1, <1>2, <1>3, <1>4 DEF Counted
    <2>3. KeysApart(rows')
        BY <1>2, <1>3, <1>6 DEF KeysApart
    <2> QED BY <2>1, <2>2, <2>3
<1>11. Fits(rows')
    <2> SUFFICES ASSUME NEW ws \in Noted!Workspaces PROVE Cardinality(NotesOf(ws, rows')) <= Kept
        BY DEF Fits
    <2>1. NotesOf(ws, K) \subseteq K /\ NotesOf(ws, rows') \subseteq rows'
        BY DEF NotesOf
    <2>2. /\ IsFiniteSet(NotesOf(ws, K))
          /\ Cardinality(NotesOf(ws, K)) <= Cardinality(K)
          /\ IsFiniteSet(NotesOf(ws, rows'))
        BY <1>8, <1>9, <2>1, FS_Subset
    <2>3. /\ Cardinality(NotesOf(ws, K)) \in Nat
          /\ Cardinality(NotesOf(ws, rows')) \in Nat /\ Cardinality(K) \in Nat
        BY <1>8, <2>2, FS_CardinalityType
    <2> QED BY <1>8, <1>9, <2>2, <2>3
<1>12. \A r \in Noted!Gone : \E kept \in rows' :
          kept.ws = r.ws /\ kept.key = Noted!NoteKey(r.note) /\ kept.id > r.id
    <2>1. \A r \in Noted!Gone : r \in rows \ K
        BY <1>2, <1>3 DEF Noted!Gone, Noted!Ids
    <2> QED BY <1>2, <1>3, <1>7, <2>1
<1> QED BY <1>1, <1>9, <1>10, <1>11, <1>12 DEF NotesKept

(* Only the notes of a window's workspace are deleted there.               *)
LEMMA DeletesOwn ==
    ASSUME NEW w \in NoteWindows, Noted!DeletePicked(w) \/ \E k \in Noted!Keys : Noted!Forget(w, k)
    PROVE  \A r \in Noted!Gone : r.ws = Workspace[w]
<1>1. \A r \in Noted!Gone : r \in rows /\ r \notin rows'
    BY DEF Noted!Gone, Noted!Ids
<1>2. CASE Noted!DeletePicked(w)
    BY <1>1, <1>2 DEF Noted!DeletePicked, Noted!Deletes
<1>3. CASE \E k \in Noted!Keys : Noted!Forget(w, k)
    BY <1>1, <1>3 DEF Noted!Forget, Noted!Those
<1> QED BY <1>2, <1>3

LEMMA MemoryStep ==
    ASSUME MemoryInv, Kept \in Nat, Kept >= 2, Noted!Next
    PROVE  MemoryInv' /\ Noted!CorrectionIsWhole
           /\ (version # version' =>
                 \A r \in Noted!Gone : \E kept \in rows' :
                    kept.ws = r.ws /\ kept.key = Noted!NoteKey(r.note) /\ kept.id > r.id)
<1>1. ASSUME NEW w \in NoteWindows, Noted!ReadVersion(w)
      PROVE  MemoryInv' /\ version' = version /\ told' = Noted!NoAnswer
    <2> DEFINE read == [Noted!NotOpen EXCEPT !.pc = "read", !.seen = version]
    <2>0. /\ Noted!NotOpen \in OpenedRecords /\ Noted!Open \in OpenedRecords
          /\ Noted!Open.pc = "open" /\ version \in 0..2
        BY DEF Noted!NotOpen, Noted!Open, OpenedRecords, MemoryInv, OpenedInv
    <2>1. read \in OpenedRecords /\ read.pc = "read" /\ read.seen = version
        BY <2>0 DEF OpenedRecords
    <2>2. /\ UNCHANGED <<rows, version, picked, recorded>> /\ told' = Noted!NoAnswer
          /\ Noted!At(w, "closed")
        BY <1>1 DEF Noted!ReadVersion
    <2> HIDE DEF read
    <2>3. opened' = [opened EXCEPT ![w] = IF version = 2 THEN Noted!Open ELSE read]
        BY <1>1 DEF Noted!ReadVersion, read
    <2>4. OpenedTyped' /\ OpenedInv'
        BY <2>0, <2>1, <2>2, <2>3 DEF MemoryInv, OpenedTyped, OpenedInv, Noted!At
    <2> QED BY <2>2, <2>4 DEF MemoryInv, NotesInv
<1>2. ASSUME NEW w \in NoteWindows, Noted!Fetch(w)
      PROVE  MemoryInv' /\ version' = version /\ told' = Noted!NoAnswer
    BY <1>2
    DEF Noted!Fetch, MemoryInv, OpenedTyped, OpenedRecords, NotesInv, OpenedInv,
        Noted!At, Identified
<1>3. ASSUME NEW w \in NoteWindows, Noted!Create(w)
      PROVE  MemoryInv' /\ (version' # version => rows = {}) /\ told' = Noted!NoAnswer
    <2>1. PICK record : /\ opened' = [opened EXCEPT ![w] = record]
                        /\ \/ /\ record = [pc |-> "open", seen |-> 0, fetched |-> {}]
                              /\ version = 0 /\ version' = 2
                           \/ /\ record = [pc |-> "closed", seen |-> 0, fetched |-> {}]
                              /\ version' = version
        <3>1. /\ Noted!Open = [pc |-> "open", seen |-> 0, fetched |-> {}]
              /\ Noted!NotOpen = [pc |-> "closed", seen |-> 0, fetched |-> {}]
            BY DEF Noted!NotOpen, Noted!Open
        <3>2. CASE version = 0
            BY <1>3, <3>1, <3>2 DEF Noted!Create
        <3>3. CASE version # 0
            BY <1>3, <3>1, <3>3 DEF Noted!Create
        <3> QED BY <3>2, <3>3
    <2>2. /\ UNCHANGED <<rows, picked, recorded>> /\ told' = Noted!NoAnswer
          /\ Noted!At(w, "read")
        BY <1>3 DEF Noted!Create
    <2>3. OpenedTyped' /\ OpenedInv' /\ (version' # version => rows = {})
        BY <2>1, <2>2 DEF MemoryInv, OpenedTyped, OpenedRecords, OpenedInv, Noted!At
    <2>4. rows = {} => KeysApart(rows) /\ Fits(rows)
        <3>1. rows = {} => \A ws : NotesOf(ws, rows) = {}
            BY DEF NotesOf
        <3> QED BY <3>1, FS_EmptySet DEF KeysApart, Fits
    <2>5. NotesInv'
        BY <2>1, <2>2, <2>3, <2>4 DEF MemoryInv, NotesInv
    <2> QED BY <2>2, <2>3, <2>5 DEF MemoryInv
<1>4. ASSUME NEW w \in NoteWindows, Noted!Migrate(w)
      PROVE  /\ MemoryInv' /\ told' = Noted!NoAnswer
             /\ version # version' =>
                 \A r \in Noted!Gone : \E kept \in rows' :
                    kept.ws = r.ws /\ kept.key = Noted!NoteKey(r.note) /\ kept.id > r.id
    <2>1. CASE version = 1
        <3>1. rows' = Noted!Keyed(rows, rows) /\ UNCHANGED recorded
            BY <1>4, <2>1 DEF Noted!Migrate, MemoryInv, OpenedInv
        <3>2. NotesKept /\ version' = 2
            BY <1>4, <2>1, <3>1, MigrateKeeps DEF Noted!Migrate
        <3>3. NotesInv'
            BY <3>2 DEF NotesKept, NotesInv
        <3>4. OpenedTyped' /\ OpenedInv'
            BY <1>4, <2>1, <3>2
            DEF Noted!Migrate, MemoryInv, OpenedTyped, OpenedRecords, OpenedInv,
                Noted!At, Noted!NotOpen, Noted!Open
        <3> QED
            BY <1>4, <2>1, <3>1, <3>3, <3>4, MigrateKeeps
            DEF Noted!Migrate, MemoryInv
    <2>2. CASE version # 1
        BY <1>4, <2>2
        DEF Noted!Migrate, MemoryInv, OpenedTyped, OpenedRecords, NotesInv,
            OpenedInv, Noted!At, Noted!NotOpen
    <2> QED BY <2>1, <2>2
<1>5. ASSUME NEW w \in NoteWindows, Noted!Close(w)
      PROVE  MemoryInv' /\ version' = version /\ told' = Noted!NoAnswer
    BY <1>5
    DEF Noted!Close, MemoryInv, OpenedTyped, OpenedRecords, NotesInv, OpenedInv,
        Noted!At, Noted!NotOpen
<1>6. ASSUME NEW w \in NoteWindows, NEW ids, Noted!Pick(w, ids)
      PROVE  MemoryInv' /\ version' = version /\ told' = Noted!NoAnswer
    BY <1>6
    DEF Noted!Pick, MemoryInv, OpenedTyped, OpenedRecords, NotesInv, OpenedInv,
        Noted!At
<1>7. ASSUME version = 2, rows' \subseteq rows, UNCHANGED <<version, opened, recorded>>,
             NEW w \in NoteWindows, picked' = picked \/ picked' = [picked EXCEPT ![w] = {}]
      PROVE  MemoryInv'
    <2>1. NotesInv'
        BY <1>7, FewerKeep DEF MemoryInv, NotesInv
    <2>2. OpenedTyped' /\ OpenedInv'
        BY <1>7 DEF MemoryInv, OpenedTyped, OpenedRecords, OpenedInv, Noted!At
    <2> QED BY <2>1, <2>2 DEF MemoryInv
<1>8. ASSUME NEW w \in NoteWindows, Noted!DeletePicked(w)
      PROVE  MemoryInv' /\ version' = version /\ told' = Noted!NoAnswer
    BY <1>7, <1>8 DEF Noted!DeletePicked, MemoryInv, OpenedInv
<1>9. ASSUME NEW w \in NoteWindows, NEW key \in Noted!Keys, Noted!Forget(w, key)
      PROVE  MemoryInv' /\ version' = version /\ told' = Noted!NoAnswer
    BY <1>7, <1>9 DEF Noted!Forget, MemoryInv, OpenedInv
<1>10. ASSUME NEW w \in NoteWindows, NEW note \in Notes, NEW replaces \in Noted!Keys \cup {"none"},
              NEW at \in Noted!Clock, Noted!Remember(w, note, replaces, at)
       PROVE  MemoryInv' /\ version' = version /\ Noted!CorrectionIsWhole
    <2>1. NotesKept /\ Noted!CorrectionIsWhole
        BY <1>10, RememberKeeps
    <2>2. version = 2 /\ UNCHANGED <<version, opened, picked>>
        BY <1>10 DEF Noted!Remember, MemoryInv, OpenedInv
    <2>3. NotesInv'
        BY <2>1 DEF NotesKept, NotesInv
    <2>4. OpenedTyped' /\ OpenedInv'
        BY <2>2 DEF MemoryInv, OpenedTyped, OpenedRecords, OpenedInv, Noted!At
    <2> QED BY <2>1, <2>2, <2>3, <2>4 DEF MemoryInv
<1>11. rows = {} => Noted!Gone = {}
    BY DEF Noted!Gone
<1>12. told' = Noted!NoAnswer => Noted!CorrectionIsWhole
    BY DEF Noted!CorrectionIsWhole
<1> QED
    BY <1>1, <1>2, <1>3, <1>4, <1>5, <1>6, <1>8, <1>9, <1>10, <1>11, <1>12
    DEF Noted!Next

LEMMA MemoryStart ==
    ASSUME Kept \in Nat, Kept >= 2, Noted!Init
    PROVE  MemoryInv
<1>1. /\ opened = [w \in NoteWindows |-> Noted!NotOpen]
      /\ picked = [w \in NoteWindows |-> {}]
      /\ recorded = Cardinality(rows)
    BY CountsAgree DEF Noted!Init
<1>2. CASE version = 0 /\ rows = {}
    <2>1. recorded = 0 /\ IsFiniteSet(rows)
        BY <1>1, <1>2, FS_EmptySet
    <2> QED
        BY <1>1, <1>2, <2>1
        DEF MemoryInv, OpenedTyped, OpenedRecords, NotesInv, OpenedInv, Noted!At,
            Noted!NotOpen, Identified, Counted
<1>3. ASSUME version = 1, NEW ws \in Noted!Workspaces, NEW old \in Noted!OldRows(ws),
             rows = {Noted!Unkeyed(r) : r \in old}
      PROVE  MemoryInv
    <2>1. CASE old = {}
        <3>1. rows = {} /\ recorded = 0 /\ IsFiniteSet(rows)
            BY <1>1, <1>3, <2>1, FS_EmptySet
        <3> QED
            BY <1>1, <1>3, <3>1, FS_EmptySet
            DEF MemoryInv, OpenedTyped, OpenedRecords, NotesInv, OpenedInv,
                Noted!At, Noted!NotOpen, Identified, Counted
    <2>2. CASE \E a, b \in Notes : old = {Noted!Row(1, ws, a, 1), Noted!Row(2, ws, b, 2)}
        <3> PICK a \in Notes, b \in Notes : old = {Noted!Row(1, ws, a, 1), Noted!Row(2, ws, b, 2)}
            BY <2>2
        <3> DEFINE p == Noted!Unkeyed(Noted!Row(1, ws, a, 1))
                   q == Noted!Unkeyed(Noted!Row(2, ws, b, 2))
        <3>1. /\ p \in NoteRecords /\ p.id = 1 /\ p.at = 1
              /\ q \in NoteRecords /\ q.id = 2 /\ q.at = 2
            BY DEF Noted!Unkeyed, Noted!Row, NoteRecords
        <3>2. rows = {p, q}
            BY <1>3
        <3> HIDE DEF p, q
        <3>3. IsFiniteSet(rows) /\ Cardinality(rows) = 2
            <4>1. IsFiniteSet({p}) /\ Cardinality({p}) = 1
                BY FS_Singleton
            <4>2. q # p
                BY <3>1
            <4>3. q \notin {p} /\ rows = {p} \cup {q}
                BY <3>2, <4>2, Zenon
            <4>4. /\ IsFiniteSet({p} \cup {q})
                  /\ Cardinality({p} \cup {q}) = Cardinality({p}) + 1
                BY <4>1, <4>3, FS_AddElement
            <4> QED BY <4>1, <4>3, <4>4
        <3>4. Identified(rows) /\ Counted(rows, 2)
            BY <3>1, <3>2 DEF Identified, Counted
        <3> QED
            BY <1>1, <1>3, <3>3, <3>4
            DEF MemoryInv, OpenedTyped, OpenedRecords, NotesInv, OpenedInv,
                Noted!At, Noted!NotOpen
    <2>3. old = {} \/ \E a, b \in Notes : old = {Noted!Row(1, ws, a, 1), Noted!Row(2, ws, b, 2)}
        <3>1. CASE old \in {{Noted!Row(1, ws, pair[1], 1), Noted!Row(2, ws, pair[2], 2)} :
                                pair \in {both \in Notes \X Notes : both[1] # both[2]}}
            BY <3>1
        <3> QED BY <3>1 DEF Noted!OldRows
    <2> QED BY <2>1, <2>2, <2>3
<1> QED BY <1>2, <1>3 DEF Noted!Init

(* Memory: with the keys there is one note of a key in a workspace and no  *)
(* more than the limit, a correction takes nothing but what it corrects    *)
(* and what is oldest, and no other step takes another workspace's notes   *)
(* (remember, _prune, _migrate_to_keys), while the clock is not set back.  *)
THEOREM MemoryAlwaysKept ==
    ASSUME Kept \in Nat, Kept >= 2
    PROVE  Noted!Spec => Noted!MemoryIsKept
<1>1. MemoryInv /\ [Noted!Next]_(Noted!vars) => MemoryInv'
    <2>1. MemoryInv /\ UNCHANGED Noted!vars => MemoryInv'
        BY DEF Noted!vars, MemoryInv, OpenedTyped, OpenedRecords, NotesInv,
           OpenedInv, Noted!At
    <2> QED BY <2>1, MemoryStep
<1>2. MemoryInv => Noted!OneNotePerKey
    BY CountsAgree
    DEF MemoryInv, NotesInv, KeysApart, Fits, NotesOf, Noted!OneNotePerKey
<1>3. MemoryInv /\ [Noted!Next]_(Noted!vars) => [Noted!CorrectionIsWhole /\ Noted!OnlyItsOwn]_(Noted!vars)
    BY MemoryStep, DeletesOwn DEF Noted!OnlyItsOwn
<1> QED BY <1>1, <1>2, <1>3, MemoryStart, PTL DEF Noted!Spec, Noted!MemoryIsKept

-----------------------------------------------------------------------------
(* Credentials, for any providers and environment, whatever saves fail.    *)

SettingsShaped ==
    /\ settings = [on |-> settings.on, provider |-> settings.provider,
                 credential |-> settings.credential, session |-> settings.session]
    /\ settings.on \in BOOLEAN

SaidShaped ==
    /\ said = [keys |-> said.keys, tokens |-> said.tokens, selection |-> said.selection]
    /\ DOMAIN said.keys = Secret!Names /\ DOMAIN said.tokens = Secret!Names

SecretShaped ==
    /\ DOMAIN keys = Secret!Names /\ DOMAIN tokens = Secret!Names
    /\ SaidShaped
    /\ SettingsShaped

(* A save changes one entry of the file as it is.                          *)
Changes(stored) ==
    /\ DOMAIN save.content = Secret!Names /\ save.content[save.provider] = save.entry
    /\ \A p \in Secret!Names \ {save.provider} : save.content[p] = stored[p]

SavingInv ==
    /\ save.file \in {"none", "keys", "tokens", "selection"}
    /\ save.file = "none" => save = Secret!NoSave
    /\ save.file # "none" => save.provider \in Vendors
    /\ save.file = "keys" => Changes(keys)
    /\ save.file = "tokens" => Changes(tokens)

SettingsInv ==
    /\ settings.on => settings.provider \in Vendors
    /\ ~settings.on => save = Secret!NoSave

SelectionIsStored == said.selection # "unsaid" => selection = said.selection

CredentialsInv == SecretShaped /\ SavingInv /\ SettingsInv /\ Secret!SaidIsStored /\ SelectionIsStored

LEMMA SaveShapes ==
    /\ \A stored, p, entry, content, gone :
         /\ Secret!Saving(stored, p, entry, content, gone).file = stored
         /\ Secret!Saving(stored, p, entry, content, gone).provider = p
         /\ Secret!Saving(stored, p, entry, content, gone).entry = entry
         /\ Secret!Saving(stored, p, entry, content, gone).content = content
    /\ Secret!NoSave.file = "none"
BY DEF Secret!Saving, Secret!NoSave

LEMMA NoSaveKeeps ==
    save = Secret!NoSave => SavingInv
BY SaveShapes DEF SavingInv

LEMMA SavesWrite ==
    ASSUME NEW stored, DOMAIN stored = Secret!Names, NEW p \in Vendors, NEW c
    PROVE  /\ DOMAIN Secret!With(stored, p, c) = Secret!Names
           /\ Secret!With(stored, p, c)[p] = c
           /\ \A q \in Secret!Names \ {p} : Secret!With(stored, p, c)[q] = stored[q]
BY DEF Secret!With, Secret!Names

(* A change of the window begins a save, or none.                          *)
LEMMA SavingKeeps ==
    ASSUME CredentialsInv, settings.on, UNCHANGED <<keys, tokens, selection, said>>,
           SettingsShaped', settings'.on = TRUE,
           settings'.provider \in Vendors,
           \/ save' = Secret!NoSave
           \/ \E p \in Vendors : \E c, g : save' = Secret!Saving("keys", p, c, Secret!With(keys, p, c), g)
           \/ \E p \in Vendors : \E c, g : save' = Secret!Saving("tokens", p, c, Secret!With(tokens, p, c), g)
           \/ \E p \in Vendors : save' = Secret!Saving("selection", p, Secret!None, Secret!Nothing, FALSE)
    PROVE  CredentialsInv'
<1>a. SecretShaped'
    BY DEF CredentialsInv, SecretShaped, SaidShaped
<1>b. SettingsInv'
    BY DEF SettingsInv
<1>c. Secret!SaidIsStored' /\ SelectionIsStored'
    BY DEF CredentialsInv, Secret!SaidIsStored, SelectionIsStored
<1>2. SavingInv'
    <2>1. CASE save' = Secret!NoSave
        BY <2>1, SaveShapes DEF SavingInv
    <2>2. ASSUME NEW p \in Vendors, NEW c, NEW g, save' = Secret!Saving("keys", p, c, Secret!With(keys, p, c), g)
          PROVE  SavingInv'
        BY <2>2, SaveShapes, SavesWrite
        DEF SavingInv, Changes, CredentialsInv, SecretShaped
    <2>3. ASSUME NEW p \in Vendors, NEW c, NEW g, save' = Secret!Saving("tokens", p, c, Secret!With(tokens, p, c), g)
          PROVE  SavingInv'
        BY <2>3, SaveShapes, SavesWrite
        DEF SavingInv, Changes, CredentialsInv, SecretShaped
    <2>4. ASSUME NEW p \in Vendors, save' = Secret!Saving("selection", p, Secret!None, Secret!Nothing, FALSE)
          PROVE  SavingInv'
        <3>1. save'.file = "selection" /\ save'.provider = p
            BY <2>4 DEF Secret!Saving
        <3> QED BY <3>1 DEF SavingInv
    <2> QED BY <2>1, <2>2, <2>3, <2>4
<1> QED BY <1>a, <1>b, <1>c, <1>2 DEF CredentialsInv

LEMMA LoadedAre ==
     Secret!LoadedKeys = {keys} /\ Secret!LoadedTokens = {tokens}
BY DEF Secret!LoadedKeys, Secret!LoadedTokens, Secret!Unreadable

(* What follows a save.                                                    *)
LEMMA SaveDone ==
    ASSUME CredentialsInv, ~Secret!Idle, NEW success \in BOOLEAN, Secret!Done(success),
           keys' = IF success THEN Secret!KeysSaved ELSE keys, tokens' = IF success THEN Secret!TokensSaved ELSE tokens
    PROVE  SecretShaped' => SavingInv' /\ SettingsInv' /\ settings'.on = settings.on
<1>1. /\ settings.on /\ save.file # "none" /\ save.provider \in Vendors
      /\ settings' = settings \/ settings' = [settings EXCEPT !.credential = Secret!None]
    BY DEF Secret!Idle, CredentialsInv, SettingsInv, SavingInv, Secret!Done
<1>2. settings'.on = settings.on /\ settings'.provider = settings.provider
    BY <1>1 DEF CredentialsInv, SecretShaped, SettingsShaped
<1>3. \/ save' = Secret!NoSave
      \/ save.file = "tokens" /\ save' = Secret!ForgetKey(save.provider, TRUE)
    BY <1>1 DEF Secret!Done, CredentialsInv, SavingInv
<1>4. SavingInv'
    <2>1. CASE save' = Secret!NoSave
        BY <2>1, SaveShapes DEF SavingInv
    <2>2. CASE save.file = "tokens" /\ save' = Secret!ForgetKey(save.provider, TRUE)
        <3>1. keys' = keys
            BY <2>2 DEF Secret!KeysSaved
        <3>2. DOMAIN keys = Secret!Names /\ DOMAIN keys' = Secret!Names
            BY <3>1 DEF CredentialsInv, SecretShaped
        <3> DEFINE p == save.provider
        <3>3. /\ p \in Vendors
              /\ save' = Secret!Saving("keys", p, Secret!None, Secret!With(keys', p, Secret!None), TRUE)
            BY <1>1, <2>2, <3>1 DEF Secret!ForgetKey
        <3> HIDE DEF p
        <3>4. /\ save'.file = "keys" /\ save'.provider = p /\ save'.entry = Secret!None
              /\ save'.content = Secret!With(keys', p, Secret!None)
            BY <3>3 DEF Secret!Saving
        <3>5. /\ DOMAIN Secret!With(keys', p, Secret!None) = Secret!Names
              /\ Secret!With(keys', p, Secret!None)[p] = Secret!None
              /\ \A q \in Secret!Names \ {p} : Secret!With(keys', p, Secret!None)[q] = keys'[q]
            BY <3>2, <3>3 DEF Secret!With, Secret!Names
        <3>6. Changes(keys)'
            BY <3>4, <3>5 DEF Changes
        <3> QED BY <3>3, <3>4, <3>6 DEF SavingInv
    <2> QED BY <1>3, <2>1, <2>2
<1> QED BY <1>1, <1>2, <1>4 DEF SettingsInv, CredentialsInv

(* What is on disk, when nothing of it changes.                            *)
LEMMA StillStored ==
    ASSUME CredentialsInv, UNCHANGED <<keys, tokens, selection, said>>
    PROVE  Secret!SaidIsStored' /\ SelectionIsStored' /\ (SettingsShaped' => SecretShaped')
BY DEF CredentialsInv, Secret!SaidIsStored, SelectionIsStored, SecretShaped,
   SaidShaped

LEMMA OpeningKeeps ==
    ASSUME CredentialsInv,
           NEW known \in SUBSET Vendors, DefaultVendor \in known, Secret!Start(known)
    PROVE  CredentialsInv' /\ Secret!StartsAsLeft
<1> DEFINE p == Secret!Chosen(known)
<1>1. /\ ~settings.on /\ save = Secret!NoSave
      /\ UNCHANGED <<keys, tokens, selection, save, said>>
      /\ settings' = [Secret!NoWindow EXCEPT !.on = TRUE, !.provider = p,
                                    !.credential = Secret!Remembered(p, keys, tokens)]
    BY LoadedAre DEF Secret!Start, CredentialsInv, SettingsInv
<1>2. p \in Vendors /\ (p = selection \/ p = DefaultVendor)
    BY DEF Secret!Chosen, Secret!Known
<1> HIDE DEF p
<1>3. /\ settings' = [on |-> TRUE, provider |-> p, credential |-> Secret!Remembered(p, keys, tokens),
                    session |-> Secret!Nothing]
    BY <1>1 DEF Secret!NoWindow
<1>4. /\ SettingsShaped' /\ settings'.on = TRUE /\ settings'.provider = p
      /\ settings'.credential = Secret!Remembered(p, keys, tokens)
    BY <1>3 DEF SettingsShaped
<1>5. SavingInv'
    BY <1>1, SaveShapes DEF SavingInv
<1>6. SettingsInv'
    BY <1>2, <1>4 DEF SettingsInv
<1>7. CredentialsInv'
    BY <1>1, <1>4, <1>5, <1>6, StillStored DEF CredentialsInv
<1>8. Secret!CredentialFor(p, Secret!NoWindow, keys, tokens)
        = IF Secret!Stored(p, keys, tokens) # Secret!None THEN Secret!Stored(p, keys, tokens) ELSE environment[p]
    BY DEF Secret!CredentialFor, Secret!NoWindow, Secret!Usable
<1>9. Secret!Stored(p, keys, tokens) # Secret!None => Secret!Remembered(p, keys, tokens) = Secret!Stored(p, keys, tokens)
    BY <1>8 DEF Secret!Remembered
<1>10. /\ said.keys[p] # Secret!Unsaid => keys[p] = said.keys[p]
       /\ said.tokens[p] \notin {Secret!Unsaid, Secret!None} => tokens[p] = said.tokens[p]
    BY <1>2 DEF CredentialsInv, Secret!SaidIsStored
<1>11. /\ Secret!Usable(said.tokens[p]) /\ said.tokens[p] # Secret!Unsaid
              => Secret!Remembered(p, keys, tokens) = said.tokens[p]
       /\ said.keys[p] \notin {Secret!Unsaid, Secret!None} /\ ~Secret!Usable(tokens[p])
              => Secret!Remembered(p, keys, tokens) = said.keys[p]
    BY <1>9, <1>10 DEF Secret!Stored, Secret!Usable
<1>12. said.selection # "unsaid" => p \in {said.selection, DefaultVendor}
    BY <1>2 DEF CredentialsInv, SelectionIsStored
<1> QED BY <1>4, <1>7, <1>11, <1>12, Zenon DEF Secret!StartsAsLeft

LEMMA ClosingKeeps ==
    ASSUME CredentialsInv, Secret!Ends
    PROVE  CredentialsInv' /\ Secret!StartsAsLeft
<1>1. /\ UNCHANGED <<keys, tokens, selection, said>>
      /\ settings' = Secret!NoWindow /\ save' = Secret!NoSave
    BY DEF Secret!Ends, Secret!Interrupted
<1>2. SettingsShaped' /\ settings'.on = FALSE
    BY <1>1 DEF SettingsShaped, Secret!NoWindow
<1>3. SavingInv' /\ SettingsInv'
    BY <1>1, <1>2, SaveShapes DEF SavingInv, SettingsInv
<1> QED BY <1>1, <1>2, <1>3, StillStored DEF CredentialsInv, Secret!StartsAsLeft

LEMMA ForgettingKeeps ==
    ASSUME CredentialsInv, Secret!Logout
    PROVE  CredentialsInv' /\ settings.on
<1> DEFINE p == settings.provider
           c == IF save' = Secret!NoSave /\ settings.session[p] # Secret!None THEN Secret!None ELSE settings.credential
<1>1. /\ settings.on /\ UNCHANGED <<keys, tokens, selection, said>>
      /\ settings' = [settings EXCEPT !.session[p] = Secret!None, !.credential = c]
    BY DEF Secret!Logout
<1>2. \/ save' = Secret!NoSave
      \/ \E g : save' = Secret!Saving("keys", p, Secret!None, Secret!With(keys, p, Secret!None), g)
      \/ \E g : save' = Secret!Saving("tokens", p, Secret!None, Secret!With(tokens, p, Secret!None), g)
    BY DEF Secret!Logout, Secret!ForgetKey
<1>3. p \in Vendors /\ settings.on = TRUE /\ SettingsShaped
    BY <1>1 DEF CredentialsInv, SettingsInv, SecretShaped, SettingsShaped
<1>4. /\ settings' = [on |-> TRUE, provider |-> p, credential |-> c,
                    session |-> [settings.session EXCEPT ![p] = Secret!None]]
    BY <1>1, <1>3 DEF SettingsShaped
<1> HIDE DEF p, c
<1>5. SettingsShaped' /\ settings'.on = TRUE /\ settings'.provider = p
    BY <1>4 DEF SettingsShaped
<1> QED BY <1>1, <1>2, <1>3, <1>5, SavingKeeps

(* What is typed, signed in or chosen, and the effort.                     *)
LEMMA ChoiceKeeps ==
    ASSUME CredentialsInv, NEW p \in Vendors,
           Secret!TypeKey(p) \/ Secret!SignIn(p) \/ Secret!Choose(p) \/ Secret!SetEffort
    PROVE  CredentialsInv' /\ settings.on
<1>1. /\ settings.on /\ settings.on = TRUE /\ SettingsShaped
      /\ settings.provider \in Vendors
    BY DEF Secret!TypeKey, Secret!SignIn, Secret!Choose, Secret!SetEffort,
       CredentialsInv, SettingsInv, SecretShaped, SettingsShaped
<1>2. UNCHANGED <<keys, tokens, selection, said>>
    BY DEF Secret!TypeKey, Secret!SignIn, Secret!Choose, Secret!SetEffort
<1>3. SettingsShaped' /\ settings'.on = TRUE /\ settings'.provider \in Vendors
    <2>1. ASSUME NEW c, settings' = Secret!Adopted(p, c)
          PROVE  SettingsShaped' /\ settings'.on = TRUE /\ settings'.provider \in Vendors
        BY <1>1, <2>1 DEF Secret!Adopted, SettingsShaped
    <2>2. ASSUME settings' = [settings EXCEPT !.provider = p, !.credential = Secret!Held(p)]
          PROVE  SettingsShaped' /\ settings'.on = TRUE /\ settings'.provider \in Vendors
        <3> DEFINE h == Secret!Held(p)
        <3>1. settings' = [on |-> TRUE, provider |-> p, credential |-> h,
                         session |-> settings.session]
            BY <1>1, <2>2 DEF SettingsShaped
        <3> HIDE DEF h
        <3> QED BY <3>1 DEF SettingsShaped
    <2>3. ASSUME settings' = settings
          PROVE  SettingsShaped' /\ settings'.on = TRUE /\ settings'.provider \in Vendors
        BY <1>1, <2>3 DEF SettingsShaped
    <2>4. \/ \E c : settings' = Secret!Adopted(p, c)
          \/ settings' = [settings EXCEPT !.provider = p, !.credential = Secret!Held(p)]
          \/ settings' = settings
        BY DEF Secret!TypeKey, Secret!SignIn, Secret!Choose, Secret!SetEffort
    <2> QED BY <2>1, <2>2, <2>3, <2>4
<1>4. \/ \E c, g : save' = Secret!Saving("keys", p, c, Secret!With(keys, p, c), g)
      \/ \E c, g : save' = Secret!Saving("tokens", p, c, Secret!With(tokens, p, c), g)
      \/ \E q \in Vendors : save' = Secret!Saving("selection", q, Secret!None, Secret!Nothing, FALSE)
    <2>1. CASE Secret!TypeKey(p)
        <3> DEFINE c == Secret!Key(p, issued')
        <3>1. save' = Secret!Saving("keys", p, c, Secret!With(keys, p, c), FALSE)
            BY <2>1, LoadedAre DEF Secret!TypeKey
        <3> HIDE DEF c
        <3> QED BY <3>1
    <2>2. CASE Secret!SignIn(p)
        <3> DEFINE c == Secret!Token(p, issued')
        <3>1. save' = Secret!Saving("tokens", p, c, Secret!With(tokens, p, c), FALSE)
            BY <2>2, LoadedAre DEF Secret!SignIn
        <3> HIDE DEF c
        <3> QED BY <3>1
    <2>3. CASE Secret!Choose(p) \/ Secret!SetEffort
        BY <1>1, <2>3 DEF Secret!Choose, Secret!SetEffort
    <2> QED BY <2>1, <2>2, <2>3
<1> QED BY <1>1, <1>2, <1>3, <1>4, SavingKeeps

(* The window after a save is as it was, but for its credential.           *)
LEMMA SaveShaped ==
    ASSUME CredentialsInv, NEW success \in BOOLEAN, Secret!Done(success)
    PROVE  SettingsShaped'
<1>1. settings' = settings \/ settings' = [settings EXCEPT !.credential = Secret!None]
    BY DEF Secret!Done
<1>2. SettingsShaped
    BY DEF CredentialsInv, SecretShaped
<1> QED BY <1>1, <1>2 DEF SettingsShaped

LEMMA SavedKeeps ==
    ASSUME CredentialsInv, Secret!Replace
    PROVE  CredentialsInv' /\ settings.on
<1> DEFINE p == save.provider
           e == save.entry
<1>1. /\ ~Secret!Idle /\ save.file \in {"keys", "tokens", "selection"} /\ p \in Vendors
      /\ p \in Secret!Names /\ settings.on
    BY DEF Secret!Replace, Secret!Idle, CredentialsInv, SavingInv, SettingsInv,
       Secret!Names
<1>2. /\ Secret!Done(TRUE) /\ keys' = Secret!KeysSaved /\ tokens' = Secret!TokensSaved
      /\ selection' = Secret!SelectionSaved
      /\ said' = IF save.file = "selection" THEN [said EXCEPT !.selection = p]
                 ELSE [said EXCEPT ![save.file][p] = e]
    BY DEF Secret!Replace
<1>3. /\ SettingsShaped' /\ SaidShaped /\ DOMAIN keys = Secret!Names
      /\ DOMAIN tokens = Secret!Names
    BY <1>2, SaveShaped DEF CredentialsInv, SecretShaped
<1>4. SaidShaped' /\ DOMAIN keys' = Secret!Names /\ DOMAIN tokens' = Secret!Names
      /\ Secret!SaidIsStored' /\ SelectionIsStored'
    <2>1. CASE save.file = "selection"
        <3>1. /\ keys' = keys /\ tokens' = tokens /\ selection' = p
              /\ said' = [keys |-> said.keys, tokens |-> said.tokens, selection |-> p]
            BY <1>2, <1>3, <2>1
            DEF Secret!KeysSaved, Secret!TokensSaved, Secret!SelectionSaved,
                SaidShaped
        <3> HIDE DEF p
        <3>2. /\ said'.keys = said.keys /\ said'.tokens = said.tokens
              /\ said'.selection = p
            BY <3>1
        <3> QED BY <1>3, <3>1, <3>2
            DEF SaidShaped, Secret!SaidIsStored, SelectionIsStored, CredentialsInv
    <2>2. CASE save.file = "keys"
        <3>1. /\ keys' = save.content /\ tokens' = tokens /\ selection' = selection
              /\ said' = [keys |-> [said.keys EXCEPT ![p] = e], tokens |-> said.tokens,
                          selection |-> said.selection]
            BY <1>2, <1>3, <2>2
            DEF Secret!KeysSaved, Secret!TokensSaved, Secret!SelectionSaved,
                SaidShaped
        <3>2. /\ DOMAIN save.content = Secret!Names /\ save.content[p] = e
              /\ \A q \in Secret!Names \ {p} : save.content[q] = keys[q]
            BY <2>2 DEF CredentialsInv, SavingInv, Changes
        <3> HIDE DEF p, e
        <3>3. /\ said'.keys = [said.keys EXCEPT ![p] = e] /\ said'.tokens = said.tokens
              /\ said'.selection = said.selection
            BY <3>1
        <3>4. SaidShaped'
            BY <1>3, <3>1, <3>3 DEF SaidShaped
        <3>5. \A q \in Vendors : said'.keys[q] # Secret!Unsaid => keys'[q] = said'.keys[q]
            BY <1>1, <1>3, <3>1, <3>2, <3>3
            DEF CredentialsInv, Secret!SaidIsStored, SaidShaped, Secret!Names
        <3> QED BY <1>3, <3>1, <3>2, <3>3, <3>4, <3>5
            DEF Secret!SaidIsStored, SelectionIsStored, CredentialsInv
    <2>3. CASE save.file = "tokens"
        <3>1. /\ tokens' = save.content /\ keys' = keys /\ selection' = selection
              /\ said' = [tokens |-> [said.tokens EXCEPT ![p] = e], keys |-> said.keys,
                          selection |-> said.selection]
            BY <1>2, <1>3, <2>3
            DEF Secret!KeysSaved, Secret!TokensSaved, Secret!SelectionSaved,
                SaidShaped
        <3>2. /\ DOMAIN save.content = Secret!Names /\ save.content[p] = e
              /\ \A q \in Secret!Names \ {p} : save.content[q] = tokens[q]
            BY <2>3 DEF CredentialsInv, SavingInv, Changes
        <3> HIDE DEF p, e
        <3>3. /\ said'.tokens = [said.tokens EXCEPT ![p] = e] /\ said'.keys = said.keys
              /\ said'.selection = said.selection
            BY <3>1
        <3>4. SaidShaped'
            BY <1>3, <3>1, <3>3 DEF SaidShaped
        <3>5. \A q \in Vendors :
                  said'.tokens[q] \notin {Secret!Unsaid, Secret!None} => tokens'[q] = said'.tokens[q]
            BY <1>1, <1>3, <3>1, <3>2, <3>3
            DEF CredentialsInv, Secret!SaidIsStored, SaidShaped, Secret!Names
        <3> QED BY <1>3, <3>1, <3>2, <3>3, <3>4, <3>5
            DEF Secret!SaidIsStored, SelectionIsStored, CredentialsInv
    <2> QED BY <1>1, <2>1, <2>2, <2>3
<1>5. SecretShaped'
    BY <1>3, <1>4 DEF SecretShaped
<1>6. SavingInv' /\ SettingsInv'
    <2>1. /\ keys' = (IF TRUE THEN Secret!KeysSaved ELSE keys)
          /\ tokens' = (IF TRUE THEN Secret!TokensSaved ELSE tokens)
        BY <1>2
    <2> QED BY <1>1, <1>2, <1>5, <2>1, SaveDone
<1> QED BY <1>1, <1>4, <1>5, <1>6 DEF CredentialsInv

LEMMA FailingKeeps ==
    ASSUME CredentialsInv, Secret!Fails
    PROVE  CredentialsInv' /\ settings.on
<1> DEFINE p == save.provider
<1>1. /\ ~Secret!Idle /\ Secret!Done(FALSE) /\ UNCHANGED <<keys, tokens, selection>>
      /\ said' = said \/ said' = [said EXCEPT !.tokens[p] = Secret!None]
    BY DEF Secret!Fails
<1>2. settings.on /\ SettingsShaped' /\ SaidShaped
    BY <1>1, SaveShaped DEF CredentialsInv, SettingsInv, SecretShaped, Secret!Idle
<1>3. SaidShaped' /\ Secret!SaidIsStored' /\ SelectionIsStored'
    <2>1. CASE said' = said
        BY <1>1, <1>2, <2>1, StillStored DEF SecretShaped
    <2>2. CASE said' = [said EXCEPT !.tokens[p] = Secret!None]
        <3>1. said' = [keys |-> said.keys, tokens |-> [said.tokens EXCEPT ![p] = Secret!None],
                       selection |-> said.selection]
            BY <1>2, <2>2 DEF SaidShaped
        <3> HIDE DEF p
        <3>2. /\ said'.keys = said.keys
              /\ said'.tokens = [said.tokens EXCEPT ![p] = Secret!None]
              /\ said'.selection = said.selection
            BY <3>1
        <3>3. SaidShaped'
            BY <1>2, <3>1, <3>2 DEF SaidShaped
        <3>4. \A q \in Vendors :
                  said'.tokens[q] \notin {Secret!Unsaid, Secret!None} => tokens'[q] = said'.tokens[q]
            BY <1>1, <1>2, <3>2
            DEF CredentialsInv, Secret!SaidIsStored, SaidShaped, Secret!Names
        <3> QED BY <1>1, <3>2, <3>3, <3>4
            DEF Secret!SaidIsStored, SelectionIsStored, CredentialsInv
    <2> QED BY <1>1, <2>1, <2>2
<1>4. SecretShaped'
    BY <1>1, <1>2, <1>3 DEF SecretShaped, CredentialsInv
<1>5. SavingInv' /\ SettingsInv'
    <2>1. /\ keys' = (IF FALSE THEN Secret!KeysSaved ELSE keys)
          /\ tokens' = (IF FALSE THEN Secret!TokensSaved ELSE tokens)
        BY <1>1
    <2> QED BY <1>1, <1>4, <2>1, SaveDone
<1> QED BY <1>2, <1>3, <1>4, <1>5 DEF CredentialsInv

(* A step that leaves the files, the save and the window alone.            *)
LEMMA StillKept ==
    ASSUME CredentialsInv, UNCHANGED <<keys, tokens, selection, settings, save, said>>
    PROVE  CredentialsInv'
<1>1. SettingsShaped' /\ SettingsInv'
    BY DEF CredentialsInv, SecretShaped, SettingsShaped, SettingsInv
<1>2. SavingInv'
    BY DEF CredentialsInv, SavingInv, Changes
<1> QED BY <1>1, <1>2, StillStored DEF CredentialsInv

LEMMA CredentialsStep ==
    ASSUME CredentialsInv, Secret!Next
    PROVE  CredentialsInv' /\ Secret!StartsAsLeft
<1>1. ASSUME NEW known \in SUBSET Vendors, DefaultVendor \in known, Secret!Start(known)
      PROVE  CredentialsInv' /\ Secret!StartsAsLeft
    BY <1>1, OpeningKeeps
<1>2. CASE Secret!Ends
    BY <1>2, ClosingKeeps
<1>3. CASE Secret!SetEffort
    <2>1. PICK p \in Vendors : TRUE
        BY <1>3 DEF Secret!SetEffort, CredentialsInv, SettingsInv
    <2> QED BY <1>3, <2>1, ChoiceKeeps DEF Secret!StartsAsLeft
<1>4. CASE Secret!Logout
    BY <1>4, ForgettingKeeps DEF Secret!StartsAsLeft
<1>5. CASE Secret!Replace
    BY <1>5, SavedKeeps DEF Secret!StartsAsLeft
<1>6. CASE Secret!Fails
    BY <1>6, FailingKeeps DEF Secret!StartsAsLeft
<1>7. CASE Secret!Expire
    BY <1>7, StillKept DEF Secret!Expire, Secret!StartsAsLeft
<1>8. ASSUME NEW p \in Vendors, Secret!TypeKey(p) \/ Secret!SignIn(p) \/ Secret!Choose(p)
      PROVE  CredentialsInv' /\ Secret!StartsAsLeft
    BY <1>8, ChoiceKeeps DEF Secret!StartsAsLeft
<1> QED BY <1>1, <1>2, <1>3, <1>4, <1>5, <1>6, <1>7, <1>8 DEF Secret!Next

(* Credentials: what the window said it saved is on disk, whatever failed  *)
(* or was cut short since, and the next window starts from it              *)
(* (store_key, store_token, save_selection, resolve_settings), while the   *)
(* files can be read.                                                      *)
THEOREM CredentialsAlwaysKept ==
     Secret!Spec => Secret!CredentialsAreKept
<1>1. ASSUME Secret!Init
      PROVE  CredentialsInv
    <2>1. DOMAIN keys = Secret!Names /\ DOMAIN tokens = Secret!Names
        BY <1>1 DEF Secret!Init, Secret!Nothing
    <2>2. SaidShaped
        BY <1>1 DEF Secret!Init, SaidShaped
    <2>3. SettingsShaped /\ settings.on = FALSE
        BY <1>1 DEF Secret!Init, SettingsShaped, Secret!NoWindow
    <2>4. SavingInv /\ SettingsInv
        BY <1>1, <2>3, SaveShapes DEF Secret!Init, SavingInv, SettingsInv
    <2>5. Secret!SaidIsStored /\ SelectionIsStored
        BY <1>1
        DEF Secret!Init, Secret!SaidIsStored, SelectionIsStored, Secret!Names
    <2> QED BY <2>1, <2>2, <2>3, <2>4, <2>5 DEF CredentialsInv, SecretShaped
<1>2. CredentialsInv /\ [Secret!Next]_(Secret!vars) => CredentialsInv'
    <2>1. CredentialsInv /\ UNCHANGED Secret!vars => CredentialsInv'
        BY StillKept DEF Secret!vars
    <2> QED BY <2>1, CredentialsStep
<1>3. CredentialsInv /\ [Secret!Next]_(Secret!vars) => [Secret!StartsAsLeft]_(Secret!vars)
    BY CredentialsStep
<1>4. CredentialsInv => Secret!SaidIsStored
    BY DEF CredentialsInv
<1> QED BY <1>1, <1>2, <1>3, <1>4, PTL DEF Secret!Spec, Secret!CredentialsAreKept

-----------------------------------------------------------------------------
(* The conversation: what is sent is the longest history that fits, and a  *)
(* turn that gets nowhere is seen, for any sizes and thresholds.           *)

SizesAreNat ==
    /\ Budget \in Nat /\ Ceiling \in Nat /\ Envelope \in Nat
    /\ System \in Nat /\ Summary \in Nat /\ Plan \in Nat
    /\ Texts \subseteq Nat /\ Results \subseteq Nat

(* Numbers have a least one, and so there is induction over a set of them. *)
LEMMA HasLeast ==
    ASSUME NEW T, T \subseteq Nat, T # {}
    PROVE  \E n \in T : \A m \in T : n <= m
<1> DEFINE R == {ss \in Nat \X Nat : ss[1] < ss[2]}
<1>1. OpToRel(<, Nat) = R
    BY DEF OpToRel
<1>2. IsWellFoundedOn(R, Nat)
    BY NatLessThanWellFounded, <1>1
<1>3. \E x \in T : \A y \in T : ~(<<y, x>> \in R)
    <2> HIDE DEF R
    <2> QED BY <1>2, WFMin, Zenon
<1>4. PICK x \in T : \A y \in T : ~(<<y, x>> \in R)
    BY <1>3
<1>5. ASSUME NEW m \in T PROVE x <= m
    <2>1. m \in Nat /\ x \in Nat /\ ~(<<m, x>> \in R)
        BY <1>4
    <2>2. ~(m < x)
        BY <2>1
    <2> QED BY <2>1, <2>2
<1> QED BY <1>4, <1>5

LEMMA InductionOverASet ==
    ASSUME NEW S, 0 \in S, \A n \in Nat : n \in S => n + 1 \in S
    PROVE  Nat \subseteq S
<1> SUFFICES ASSUME Nat \ S # {} PROVE FALSE
    OBVIOUS
<1>1. PICK n \in Nat \ S : \A m \in Nat \ S : n <= m
    <2> DEFINE T == Nat \ S
    <2>1. T \subseteq Nat /\ T # {}
        OBVIOUS
    <2> HIDE DEF T
    <2>2. \E n \in T : \A m \in T : n <= m
        BY <2>1, HasLeast
    <2> QED BY <2>2 DEF T
<1>2. n # 0
    OBVIOUS
<1>3. n - 1 \in Nat /\ ~(n <= n - 1)
    BY <1>2
<1>4. n - 1 \in S
    BY <1>1, <1>3
<1> QED BY <1>3, <1>4

(* What the bisection finds from low to high: the last that fits.          *)
Room == Ceiling - Envelope
LastFit(s) ==
    IF s.low > s.high \/ s.low > Room THEN s.best
    ELSE IF s.high <= Room THEN s.high ELSE Room
Narrows(p, s) ==
    LET middle == (s.low + s.high) \div 2 IN
    IF s.low > s.high THEN s.best
    ELSE IF Context!FitsIn(middle) THEN p[[s EXCEPT !.low = middle + 1, !.best = middle]]
    ELSE p[[s EXCEPT !.high = middle - 1]]
Bisects(p, size) == p = [s \in Context!Spans(size) |-> Narrows(p, s)]

LEMMA MiddleIsBetween ==
    ASSUME NEW low \in Nat, NEW high \in Int, low <= high
    PROVE  /\ (low + high) \div 2 \in Nat
           /\ low <= (low + high) \div 2 /\ (low + high) \div 2 <= high
OBVIOUS

(* A step of the search does not change what it will find.                 *)
LEMMA NarrowsRightly ==
    ASSUME SizesAreNat, NEW size \in Nat, NEW s \in Context!Spans(size),
           NEW p,
           \A t \in Context!Spans(size) :
                t.high - t.low < s.high - s.low => p[t] = LastFit(t)
    PROVE  Narrows(p, s) = LastFit(s)
<1>0. s.low \in 0..size + 1 /\ s.high \in -1..size /\ s.best \in 0..size
    BY DEF Context!Spans
<1>1. CASE s.low > s.high
    BY <1>1 DEF LastFit, Narrows
<1>2. CASE s.low <= s.high
    <2> DEFINE middle == (s.low + s.high) \div 2
               up == [s EXCEPT !.low = middle + 1, !.best = middle]
               down == [s EXCEPT !.high = middle - 1]
    <2>1. /\ middle \in 0..size /\ s.low <= middle /\ middle <= s.high
          /\ middle + 1 \in 0..size + 1 /\ middle - 1 \in -1..size
        BY <1>0, <1>2, MiddleIsBetween
    <2>2. Narrows(p, s) = IF Context!FitsIn(middle) THEN p[up] ELSE p[down]
        BY <1>0, <1>2 DEF Narrows
    <2> HIDE DEF middle
    <2>3. /\ up \in Context!Spans(size) /\ up.low = middle + 1 /\ up.high = s.high
          /\ up.best = middle
          /\ down \in Context!Spans(size) /\ down.low = s.low /\ down.high = middle - 1
          /\ down.best = s.best
        BY <2>1 DEF Context!Spans
    <2> HIDE DEF up, down
    <2>4. up.high - up.low < s.high - s.low /\ down.high - down.low < s.high - s.low
        BY <1>0, <2>1, <2>3
    <2>5. p[up] = LastFit(up) /\ p[down] = LastFit(down)
        BY <2>3, <2>4
    <2>6. Context!FitsIn(middle) <=> middle <= Room
        BY <2>1 DEF Context!FitsIn, Room, SizesAreNat
    <2>7. Room \in Int
        BY DEF Room, SizesAreNat
    <2>8. LastFit(up) = IF middle + 1 > s.high \/ middle + 1 > Room THEN middle
                        ELSE IF s.high <= Room THEN s.high ELSE Room
        BY <2>3 DEF LastFit
    <2>9. LastFit(down) = IF s.low > middle - 1 \/ s.low > Room THEN s.best
                          ELSE IF middle - 1 <= Room THEN middle - 1 ELSE Room
        BY <2>3 DEF LastFit
    <2>10. Context!FitsIn(middle) => LastFit(up) = LastFit(s)
        BY <1>0, <1>2, <2>1, <2>6, <2>7, <2>8 DEF LastFit
    <2>11. ~Context!FitsIn(middle) => LastFit(down) = LastFit(s)
        BY <1>0, <1>2, <2>1, <2>6, <2>7, <2>9 DEF LastFit
    <2> QED BY <2>2, <2>5, <2>10, <2>11
<1> QED BY <1>0, <1>1, <1>2

(* There is a function that searches so, and Probe is one.                 *)
LEMMA ProbeBisects ==
    ASSUME SizesAreNat, NEW size \in Nat
    PROVE  Bisects(Context!Probe(size), size)
<1> DEFINE g == [s \in Context!Spans(size) |-> LastFit(s)]
<1>1. \A s \in Context!Spans(size) : g[s] = LastFit(s)
    OBVIOUS
<1> HIDE DEF g
<1>2. \A s \in Context!Spans(size) : Narrows(g, s) = LastFit(s)
    BY <1>1, NarrowsRightly
<1>3. g = [s \in Context!Spans(size) |-> Narrows(g, s)]
    BY <1>2 DEF g
<1>4. Bisects(g, size)
    BY <1>3 DEF Bisects
<1>5. Context!Probe(size) = CHOOSE p : Bisects(p, size)
    BY DEF Context!Probe, Bisects, Narrows
<1> QED BY <1>4, <1>5, Zenon

(* The search finds the last text that fits, by induction on the span      *)
(* left.                                                                   *)
LEMMA ProbeFinds ==
    ASSUME SizesAreNat, NEW size \in Nat, NEW s \in Context!Spans(size)
    PROVE  Context!Probe(size)[s] = LastFit(s)
<1> DEFINE p == Context!Probe(size)
           S == {n \in Nat :
                    \A t \in Context!Spans(size) : t.high - t.low < n => p[t] = LastFit(t)}
<1>0. \A t \in Context!Spans(size) : t.low \in 0..size + 1 /\ t.high \in -1..size
    BY DEF Context!Spans
<1>1. \A t \in Context!Spans(size) : p[t] = Narrows(p, t)
    BY ProbeBisects DEF Bisects
<1> HIDE DEF p
<1>2. 0 \in S
    <2> SUFFICES ASSUME NEW t \in Context!Spans(size), t.high - t.low < 0
                 PROVE  p[t] = LastFit(t)
        OBVIOUS
    <2>1. t.low > t.high
        BY <1>0
    <2> QED BY <1>1, <2>1 DEF Narrows, LastFit
<1>3. ASSUME NEW n \in Nat, n \in S PROVE n + 1 \in S
    <2> SUFFICES ASSUME NEW t \in Context!Spans(size), t.high - t.low < n + 1
                 PROVE  p[t] = LastFit(t)
        OBVIOUS
    <2>1. ASSUME NEW u \in Context!Spans(size), u.high - u.low < t.high - t.low
          PROVE  p[u] = LastFit(u)
        <3>1. u.high - u.low < n
            BY <1>0, <2>1
        <3> QED BY <1>3, <3>1
    <2> QED BY <1>1, <2>1, NarrowsRightly
<1> HIDE DEF S
<1>4. Nat \subseteq S
    BY <1>2, <1>3, InductionOverASet
<1>5. s.high - s.low < size + 1 /\ size + 1 \in Nat
    BY <1>0
<1>6. size + 1 \in S
    BY <1>4, <1>5
<1> QED BY <1>5, <1>6 DEF S, p

(* What is kept of a result is the longest text that fits.                 *)
LEMMA FittedIsBest ==
    ASSUME SizesAreNat, NEW size \in Nat
    PROVE  Context!Fitted(size) = Context!BestFit(size) /\ Context!Fitted(size) \in Nat
<1> DEFINE z == [low |-> 0, high |-> size, best |-> 0]
           K == {0} \cup {k \in 0..size : Envelope + k <= Ceiling}
           k == LastFit(z)
<1>1. z \in Context!Spans(size)
    BY DEF Context!Spans
<1>2. Context!KeptOf(size) = k
    BY <1>1, ProbeFinds DEF Context!KeptOf
<1>3. z.low = 0 /\ z.high = size /\ z.best = 0
    OBVIOUS
<1> HIDE DEF z
<1>4. /\ Room \in Int /\ Room = Ceiling - Envelope
      /\ k = IF 0 > Room THEN 0 ELSE IF size <= Room THEN size ELSE Room
    BY <1>3 DEF Room, SizesAreNat, LastFit
<1> HIDE DEF k
<1>5. k \in K /\ k \in Nat /\ \A x \in K : k >= x
    BY <1>4 DEF SizesAreNat
<1>6. K \subseteq Nat
    OBVIOUS
<1> HIDE DEF K
<1>7. Context!Max(K) = k
    <2>1. \A x \in K : (\A y \in K : x >= y) => x = k
        BY <1>5, <1>6
    <2> QED BY <1>5, <2>1 DEF Context!Max
<1> QED BY <1>2, <1>5, <1>7 DEF Context!Fitted, Context!BestFit, K, SizesAreNat

(* Sums of the newest sizes.                                               *)
Adds(f, N, g) == f = [n \in 0..N |-> IF n = 0 THEN 0 ELSE f[n - 1] + g[n]]

(* Sums like Newest and Costs exist, grow and are determined by what they  *)
(* add.                                                                    *)
LEMMA SumsExist ==
    ASSUME NEW N \in Nat, NEW g, \A n \in 1..N : g[n] \in Nat
    PROVE  \E f : Adds(f, N, g)
<1> DEFINE Sums(f, k) ==
                /\ f \in [0..k -> Nat] /\ f[0] = 0
                /\ \A n \in 1..k : f[n] = f[n - 1] + g[n]
           S == {k \in Nat : k <= N => \E f : Sums(f, k)}
<1>1. 0 \in S
    <2>1. Sums([n \in 0..0 |-> 0], 0)
        OBVIOUS
    <2> HIDE DEF Sums
    <2> QED BY <2>1
<1>2. ASSUME NEW k \in Nat, k \in S PROVE k + 1 \in S
    <2> SUFFICES ASSUME k + 1 <= N PROVE \E f : Sums(f, k + 1)
        OBVIOUS
    <2>0. k <= N
        OBVIOUS
    <2>1. PICK f : Sums(f, k)
        <3> HIDE DEF Sums
        <3> QED BY <1>2, <2>0
    <2> DEFINE h == [n \in 0..k + 1 |-> IF n = k + 1 THEN f[k] + g[k + 1] ELSE f[n]]
    <2>2. f[k] + g[k + 1] \in Nat
        BY <2>1
    <2>3. h \in [0..k + 1 -> Nat] /\ h[0] = 0
        BY <2>1, <2>2
    <2>4. ASSUME NEW n \in 1..k + 1 PROVE h[n] = h[n - 1] + g[n]
        <3>1. CASE n = k + 1
            <4>1. n - 1 = k /\ k \in 0..k + 1 /\ k # k + 1
                BY <3>1
            <4> QED BY <3>1, <4>1
        <3>2. CASE n # k + 1
            <4>1. n \in 1..k /\ n - 1 \in 0..k + 1 /\ n - 1 # k + 1
                BY <3>2
            <4> QED BY <2>1, <3>2, <4>1
        <3> QED BY <3>1, <3>2
    <2>5. Sums(h, k + 1)
        BY <2>3, <2>4
    <2> HIDE DEF Sums, h
    <2> QED BY <2>5
<1> HIDE DEF S
<1>3. N \in S
    BY <1>1, <1>2, InductionOverASet
<1>4. PICK f : Sums(f, N)
    <2>1. N <= N
        OBVIOUS
    <2> HIDE DEF Sums
    <2> QED BY <1>3, <2>1 DEF S
<1>5. f = [n \in 0..N |-> IF n = 0 THEN 0 ELSE f[n - 1] + g[n]]
    BY <1>4
<1> QED BY <1>5 DEF Adds

LEMMA SumsGrow ==
    ASSUME NEW N \in Nat, NEW g, \A n \in 1..N : g[n] \in Nat, NEW f, Adds(f, N, g)
    PROVE  /\ \A n \in 0..N : f[n] \in Nat
           /\ \A m, n \in 0..N : m <= n => f[m] <= f[n]
<1>1. f[0] = 0 /\ \A n \in 1..N : f[n] = f[n - 1] + g[n]
    BY DEF Adds
<1> DEFINE S == {k \in Nat :
                    k <= N => f[k] \in Nat /\ \A m \in 0..k : f[m] \in Nat /\ f[m] <= f[k]}
<1>2. 0 \in S
    BY <1>1
<1>3. ASSUME NEW k \in Nat, k \in S PROVE k + 1 \in S
    <2> SUFFICES ASSUME k + 1 <= N
                 PROVE  /\ f[k + 1] \in Nat
                        /\ \A m \in 0..k + 1 : f[m] \in Nat /\ f[m] <= f[k + 1]
        OBVIOUS
    <2>1. f[k] \in Nat /\ g[k + 1] \in Nat /\ f[k + 1] = f[k] + g[k + 1]
        BY <1>1, <1>3
    <2>2. ASSUME NEW m \in 0..k + 1 PROVE f[m] \in Nat /\ f[m] <= f[k + 1]
        <3>1. CASE m = k + 1
            BY <2>1, <3>1
        <3>2. CASE m \in 0..k
            <4>1. f[m] \in Nat /\ f[m] <= f[k]
                BY <1>3, <3>2
            <4> QED BY <2>1, <4>1
        <3> QED BY <3>1, <3>2
    <2> QED BY <2>1, <2>2
<1> HIDE DEF S
<1>4. Nat \subseteq S
    BY <1>2, <1>3, InductionOverASet
<1> QED BY <1>4 DEF S

LEMMA SumsAreOne ==
    ASSUME NEW N \in Nat, NEW g, NEW f, NEW h, Adds(f, N, g), Adds(h, N, g)
    PROVE  f = h
<1>1. /\ f[0] = 0 /\ \A n \in 1..N : f[n] = f[n - 1] + g[n]
      /\ h[0] = 0 /\ \A n \in 1..N : h[n] = h[n - 1] + g[n]
    BY DEF Adds
<1> DEFINE S == {k \in Nat : k <= N => f[k] = h[k]}
<1>2. 0 \in S
    BY <1>1
<1>3. ASSUME NEW k \in Nat, k \in S PROVE k + 1 \in S
    <2> SUFFICES ASSUME k + 1 <= N PROVE f[k + 1] = h[k + 1]
        OBVIOUS
    <2>1. f[k] = h[k]
        BY <1>3
    <2>2. k + 1 \in 1..N /\ (k + 1) - 1 = k
        OBVIOUS
    <2> QED BY <1>1, <2>1, <2>2
<1> HIDE DEF S
<1>4. \A n \in 0..N : f[n] = h[n]
    <2>1. Nat \subseteq S
        BY <1>2, <1>3, InductionOverASet
    <2> QED BY <2>1 DEF S
<1> QED BY <1>4 DEF Adds

-----------------------------------------------------------------------------
(* Counting up while a condition holds.                                    *)
Climbs(f, N, C) == f = [n \in 0..N |-> IF n \in C THEN f[n + 1] ELSE n]
Stops(n, m, N, C) == m \in n..N /\ m \notin C /\ \A i \in n..m - 1 : i \in C

(* A climb stops at the first number that is not in C.                     *)
LEMMA StopsSomewhere ==
    ASSUME NEW N \in Nat, NEW C \in SUBSET (0..N - 1), NEW n \in 0..N
    PROVE  /\ \E m : Stops(n, m, N, C)
           /\ \A k, m : Stops(n, k, N, C) /\ Stops(n, m, N, C) => k = m
<1> DEFINE T == {m \in n..N : m \notin C}
<1>1. T \subseteq Nat /\ N \in T
    OBVIOUS
<1> HIDE DEF T
<1>2. PICK m \in T : \A k \in T : m <= k
    BY <1>1, HasLeast
<1>3. Stops(n, m, N, C)
    BY <1>2 DEF Stops, T
<1>4. ASSUME NEW k, NEW l, Stops(n, k, N, C), Stops(n, l, N, C) PROVE k = l
    <2>1. k \in n..N /\ l \in n..N
        BY <1>4 DEF Stops
    <2>2. ~(k < l) /\ ~(l < k)
        BY <1>4, <2>1 DEF Stops
    <2> QED BY <2>1, <2>2
<1> QED BY <1>3, <1>4

(* A function that climbs exists, and each such function stops there.      *)
LEMMA ClimbsExist ==
    ASSUME NEW N \in Nat, NEW C \in SUBSET (0..N - 1)
    PROVE  \E f : Climbs(f, N, C)
<1> DEFINE f == [n \in 0..N |-> CHOOSE m : Stops(n, m, N, C)]
<1>1. \A n \in 0..N : Stops(n, f[n], N, C)
    BY StopsSomewhere
<1>0. f = [n \in 0..N |-> f[n]]
    OBVIOUS
<1> HIDE DEF f
<1>2. ASSUME NEW n \in 0..N PROVE f[n] = IF n \in C THEN f[n + 1] ELSE n
    <2>1. CASE n \in C
        <3>1. n + 1 \in 0..N
            BY <2>1
        <3>2. Stops(n + 1, f[n + 1], N, C)
            BY <1>1, <3>1
        <3>3. Stops(n, f[n + 1], N, C)
            BY <2>1, <3>1, <3>2 DEF Stops
        <3> QED BY <1>1, <2>1, <3>3, StopsSomewhere
    <2>2. CASE n \notin C
        <3>1. Stops(n, n, N, C)
            BY <2>2 DEF Stops
        <3> QED BY <1>1, <2>2, <3>1, StopsSomewhere
    <2> QED BY <2>1, <2>2
<1>3. f = [n \in 0..N |-> IF n \in C THEN f[n + 1] ELSE n]
    BY <1>0, <1>2
<1> QED BY <1>3 DEF Climbs

LEMMA ClimbsStop ==
    ASSUME NEW N \in Nat, NEW C \in SUBSET (0..N - 1), NEW f, Climbs(f, N, C), NEW n \in 0..N
    PROVE  Stops(n, f[n], N, C)
<1> DEFINE S == {k \in Nat : \A i \in 0..N : N - i <= k => Stops(i, f[i], N, C)}
<1>1. \A i \in 0..N : f[i] = IF i \in C THEN f[i + 1] ELSE i
    BY DEF Climbs
<1>2. ASSUME NEW i \in 0..N, i \notin C PROVE Stops(i, f[i], N, C)
    BY <1>1, <1>2 DEF Stops
<1>3. 0 \in S
    <2> SUFFICES ASSUME NEW i \in 0..N, N - i <= 0 PROVE Stops(i, f[i], N, C)
        OBVIOUS
    <2>1. i = N /\ N \notin C
        OBVIOUS
    <2> QED BY <1>2, <2>1
<1>4. ASSUME NEW k \in Nat, k \in S PROVE k + 1 \in S
    <2> SUFFICES ASSUME NEW i \in 0..N, N - i <= k + 1, i \in C PROVE Stops(i, f[i], N, C)
        BY <1>2
    <2>1. i + 1 \in 0..N /\ N - (i + 1) <= k
        OBVIOUS
    <2>2. Stops(i + 1, f[i + 1], N, C)
        BY <1>4, <2>1
    <2> QED BY <1>1, <2>1, <2>2 DEF Stops
<1> HIDE DEF S
<1>5. Nat \subseteq S
    BY <1>3, <1>4, InductionOverASet
<1>6. N - n \in Nat
    OBVIOUS
<1> QED BY <1>5, <1>6 DEF S

-----------------------------------------------------------------------------
TurnRecords == [text : Nat, result : Nat]

TurnsTyped ==
    /\ turns \in Seq(TurnRecords) /\ covered \in 0..Len(turns)
    /\ composing \in TurnRecords /\ planned \in BOOLEAN

(* The monitor counts the last rounds that are the same.                   *)
LastSame(n, what, N) ==
    /\ n \in 1..N
    /\ \A i \in N - n + 1..N : what[i] = what[N]
    /\ n = N \/ what[N - n] # what[N]

Callings == [i \in 1..Len(rounds) |-> rounds[i][1]]

MonitorCounts ==
    /\ rounds \in Seq(Signatures \X Signatures)
    /\ monitor = [previous |-> monitor.previous, calls |-> monitor.calls,
                  results |-> monitor.results]
    /\ rounds = <<>> => monitor = Context!Unseen /\ stalled = FALSE
    /\ rounds # <<>> => /\ monitor.previous = rounds[Len(rounds)]
                        /\ LastSame(monitor.calls, Callings, Len(rounds))
                        /\ LastSame(monitor.results, rounds, Len(rounds))
                        /\ stalled = Context!Verdict(monitor)

ContextInv == TurnsTyped /\ MonitorCounts /\ Context!RequestIsBest

-----------------------------------------------------------------------------
Costing == [n \in 1..Len(turns) |-> Context!Cost(Context!Nth(n))]

(* A turn costs what it is sent as: the bisection finds the best fit.      *)
LEMMA SentIsCost ==
    ASSUME SizesAreNat, NEW t \in TurnRecords
    PROVE  Context!Sent(t) = Context!Cost(t) /\ Context!Cost(t) \in Nat
<1>1. t.text \in Nat /\ t.result \in Nat
    BY DEF TurnRecords
<1>2. /\ Context!Fitted(t.result) = Context!BestFit(t.result)
      /\ Context!BestFit(t.result) \in Nat
    BY <1>1, FittedIsBest
<1> QED BY <1>1, <1>2 DEF Context!Sent, Context!Cost

(* Newest sums what is sent, Costs what it costs, and these are the same.  *)
LEMMA SumsAreCosts ==
    ASSUME SizesAreNat, TurnsTyped
    PROVE  /\ Adds(Context!Newest, Len(turns), Costing)
           /\ Adds(Context!Costs, Len(turns), Costing)
           /\ \A n \in 1..Len(turns) : Costing[n] \in Nat
           /\ Len(turns) \in Nat
<1> DEFINE N == Len(turns)
           Sends(h) == [n \in 0..N |->
                            IF n = 0 THEN 0 ELSE h[n - 1] + Context!Sent(Context!Nth(n))]
           Pays(h) == [n \in 0..N |->
                            IF n = 0 THEN 0 ELSE h[n - 1] + Context!Cost(Context!Nth(n))]
<1>1. N \in Nat /\ \A n \in 1..N : Context!Nth(n) \in TurnRecords
    <2>1. turns \in Seq(TurnRecords)
        BY DEF TurnsTyped
    <2>2. N \in Nat /\ \A i \in 1..N : turns[i] \in TurnRecords
        BY <2>1
    <2>3. \A n \in 1..N : N - n + 1 \in 1..N
        BY <2>2
    <2> HIDE DEF N
    <2> QED BY <2>2, <2>3 DEF Context!Nth, N
<1>2. \A n \in 1..N : /\ Costing[n] \in Nat
                      /\ Costing[n] = Context!Sent(Context!Nth(n))
                      /\ Costing[n] = Context!Cost(Context!Nth(n))
    BY <1>1, SentIsCost DEF Costing
<1> HIDE DEF N
<1>3. PICK f : Adds(f, N, Costing)
    BY <1>1, <1>2, SumsExist
<1>4. ASSUME NEW n \in 0..N, n # 0 PROVE n \in 1..N
    BY <1>1, <1>4
<1>5. ASSUME NEW h
      PROVE  (Adds(h, N, Costing) <=> h = Sends(h)) /\ (Adds(h, N, Costing) <=> h = Pays(h))
    <2>1. [n \in 0..N |-> IF n = 0 THEN 0 ELSE h[n - 1] + Costing[n]] = Sends(h)
        BY <1>2, <1>4
    <2>2. [n \in 0..N |-> IF n = 0 THEN 0 ELSE h[n - 1] + Costing[n]] = Pays(h)
        BY <1>2, <1>4
    <2> QED BY <2>1, <2>2 DEF Adds
<1>6. Context!Newest = Sends(Context!Newest)
    <2>1. \E h : h = Sends(h)
        BY <1>3, <1>5
    <2> QED BY <2>1, Zenon DEF Context!Newest, N
<1>7. Context!Costs = Pays(Context!Costs)
    <2>1. \E h : h = Pays(h)
        BY <1>3, <1>5
    <2> QED BY <2>1, Zenon DEF Context!Costs, N
<1>8. Adds(Context!Newest, N, Costing) /\ Adds(Context!Costs, N, Costing)
    BY <1>5, <1>6, <1>7
<1> QED BY <1>1, <1>2, <1>8 DEF N

LEMMA CostsGrow ==
    ASSUME SizesAreNat, TurnsTyped
    PROVE  /\ Context!Newest = Context!Costs /\ Len(turns) \in Nat
           /\ \A n \in 0..Len(turns) : Context!Costs[n] \in Nat
           /\ \A m, n \in 0..Len(turns) : m <= n => Context!Costs[m] <= Context!Costs[n]
BY SumsAreCosts, SumsGrow, SumsAreOne

(* Take stops at the first turn that does not fit, and every turn before   *)
(* does.                                                                   *)
LEMMA TakeStops ==
    ASSUME SizesAreNat, TurnsTyped
    PROVE  /\ Context!Take[0] \in 0..Len(turns)
           /\ ~/\ Context!Take[0] < Len(turns) - covered
               /\ Context!Required + Context!Newest[Context!Take[0] + 1] <= Budget
           /\ \A i \in 0..Context!Take[0] - 1 :
                i < Len(turns) - covered /\ Context!Required + Context!Newest[i + 1] <= Budget
<1> DEFINE N == Len(turns)
           Fitting(n) == n < N - covered /\ Context!Required + Context!Newest[n + 1] <= Budget
           C == {n \in 0..N : Fitting(n)}
<1>1. N \in Nat /\ covered \in 0..N
    BY CostsGrow DEF TurnsTyped
<1> HIDE DEF N
<1>2. C \in SUBSET (0..N - 1)
    BY <1>1
<1>3. \A n \in 0..N : n \in C <=> Fitting(n)
    OBVIOUS
<1> HIDE DEF C
<1>4. \A f : Climbs(f, N, C) <=>
        f = [n \in 0..N |-> IF Fitting(n) THEN f[n + 1] ELSE n]
    BY <1>3 DEF Climbs
<1>5. Climbs(Context!Take, N, C)
    <2>1. \E f : f = [n \in 0..N |-> IF Fitting(n) THEN f[n + 1] ELSE n]
        BY <1>1, <1>2, <1>4, ClimbsExist
    <2>2. Context!Take = [n \in 0..N |-> IF Fitting(n) THEN Context!Take[n + 1] ELSE n]
        BY <2>1, Zenon DEF Context!Take, N
    <2> QED BY <1>4, <2>2
<1>6. 0 \in 0..N
    BY <1>1
<1>7. Stops(0, Context!Take[0], N, C)
    BY <1>1, <1>2, <1>5, <1>6, ClimbsStop
<1>8. Context!Take[0] \in 0..N /\ \A i \in 0..Context!Take[0] - 1 : i \in 0..N
    BY <1>1, <1>7 DEF Stops
<1> QED BY <1>3, <1>7, <1>8 DEF Stops, N

(* The request that is built is the longest history that fits.             *)
LEMMA BuildIsBest ==
    ASSUME SizesAreNat, TurnsTyped, Context!Build
    PROVE  Context!RequestIsBest'
<1> DEFINE N == Len(turns)
           n == Context!Chosen
<1>1. /\ N \in Nat /\ covered \in 0..N /\ Context!Newest = Context!Costs
      /\ \A k \in 0..N : Context!Costs[k] \in Nat
      /\ \A k, m \in 0..N : k <= m => Context!Costs[k] <= Context!Costs[m]
    BY CostsGrow DEF TurnsTyped
<1>2. /\ Context!Required \in Nat
      /\ Context!Required = System + (IF covered > 0 THEN Summary ELSE 0)
                                     + (IF planned THEN Plan ELSE 0) + Context!Cost(composing)
    <2>1. /\ Context!Sent(composing) = Context!Cost(composing)
          /\ Context!Cost(composing) \in Nat
        BY SentIsCost DEF TurnsTyped
    <2> QED BY <2>1 DEF Context!Required, SizesAreNat
<1>3. UNCHANGED <<turns, covered, composing, planned>> /\ request' = N - n + 1..N
    BY DEF Context!Build
<1>4. /\ n \in 0..N - covered
      /\ n > 0 => Context!Required + Context!Costs[n] <= Budget
      /\ \A m \in 0..N - covered : Context!Required + Context!Costs[m] <= Budget => m <= n
    <2> HIDE DEF N
    <2>0. Budget \in Nat
        BY DEF SizesAreNat
    <2>1. CASE Context!Required > Budget
        <3>1. n = 0
            BY <2>1 DEF Context!Chosen
        <3>2. \A m \in 0..N - covered : Context!Costs[m] \in Nat
            BY <1>1
        <3> QED BY <1>1, <1>2, <2>0, <2>1, <3>1, <3>2
    <2>2. CASE ~(Context!Required > Budget)
        <3>1. n = Context!Take[0]
            BY <2>2 DEF Context!Chosen
        <3>2. /\ n \in 0..N
              /\ ~(n < N - covered /\ Context!Required + Context!Costs[n + 1] <= Budget)
              /\ \A i \in 0..n - 1 :
                    i < N - covered /\ Context!Required + Context!Costs[i + 1] <= Budget
            BY <1>1, <3>1, TakeStops DEF N
        <3> HIDE DEF n
        <3>3. n > 0 => n - 1 \in 0..n - 1 /\ (n - 1) + 1 = n
            BY <3>2
        <3>4. /\ n \in 0..N - covered
              /\ (n > 0 => Context!Required + Context!Costs[n] <= Budget)
            BY <1>1, <3>2, <3>3
        <3>5. ASSUME NEW m \in 0..N - covered, Context!Required + Context!Costs[m] <= Budget, m > n
              PROVE  FALSE
            <4>1. n + 1 \in 0..N /\ m \in 0..N /\ n + 1 <= m /\ n < N - covered
                BY <1>1, <3>2, <3>5
            <4>2. /\ Context!Costs[n + 1] <= Context!Costs[m]
                  /\ Context!Costs[n + 1] \in Nat /\ Context!Costs[m] \in Nat
                BY <1>1, <4>1
            <4> QED BY <1>2, <2>0, <3>2, <3>5, <4>1, <4>2
        <3> QED BY <1>1, <3>2, <3>4, <3>5
    <2> QED BY <2>1, <2>2
<1>5. /\ Context!Costs' = Context!Costs
      /\ Context!Cost(composing)' = Context!Cost(composing)
    BY <1>3 DEF Context!Costs, Context!Nth, Context!Cost
<1> HIDE DEF n
<1> QED BY <1>2, <1>3, <1>4, <1>5 DEF Context!RequestIsBest, N
(* A round like the last one is counted with it; any other starts at one.  *)
LEMMA SameAgain ==
    ASSUME NEW N \in Nat, NEW n, NEW old, NEW new, LastSame(n, old, N),
           \A i \in 1..N : new[i] = old[i]
    PROVE  /\ new[N + 1] = new[N] => LastSame(n + 1, new, N + 1)
           /\ new[N + 1] # new[N] => LastSame(1, new, N + 1)
<1>1. n \in 1..N /\ N \in 1..N
    BY DEF LastSame
<1>2. ASSUME new[N + 1] = new[N] PROVE LastSame(n + 1, new, N + 1)
    <2>1. /\ n + 1 \in 1..N + 1 /\ (N + 1) - (n + 1) + 1 = N - n + 1
          /\ (N + 1) - (n + 1) = N - n
        BY <1>1
    <2>2. \A i \in N - n + 1..N + 1 : i = N + 1 \/ (i \in 1..N /\ i \in N - n + 1..N)
        BY <1>1
    <2>3. \A i \in N - n + 1..N : old[i] = old[N]
        BY DEF LastSame
    <2>4. \A i \in N - n + 1..N + 1 : new[i] = new[N + 1]
        BY <1>1, <1>2, <2>2, <2>3
    <2>5. n = N \/ (N - n \in 1..N /\ old[N - n] # old[N])
        BY <1>1 DEF LastSame
    <2>6. n + 1 = N + 1 \/ new[N - n] # new[N + 1]
        BY <1>1, <1>2, <2>5
    <2> QED BY <2>1, <2>4, <2>6 DEF LastSame
<1>3. ASSUME new[N + 1] # new[N] PROVE LastSame(1, new, N + 1)
    <2>1. /\ 1 \in 1..N + 1 /\ (N + 1) - 1 = N
          /\ \A i \in (N + 1) - 1 + 1..N + 1 : i = N + 1
        OBVIOUS
    <2> QED BY <1>3, <2>1 DEF LastSame
<1> QED BY <1>2, <1>3

(* At least k are counted exactly when the last k rounds are the same.     *)
Alike(k, what, N) == k <= N /\ \A i, j \in N - k + 1..N : what[i] = what[j]

LEMMA SameIsCounted ==
    ASSUME NEW N \in Nat, NEW n, NEW what, LastSame(n, what, N), NEW k \in Nat \ {0}
    PROVE  n >= k <=> Alike(k, what, N)
<1>1. n \in 1..N
    BY DEF LastSame
<1>2. ASSUME n >= k PROVE k <= N /\ \A i, j \in N - k + 1..N : what[i] = what[j]
    <2>1. \A i \in N - k + 1..N : i \in N - n + 1..N
        BY <1>1, <1>2
    <2> QED BY <1>1, <1>2, <2>1 DEF LastSame
<1>3. ASSUME ~(n >= k), k <= N PROVE \E i, j \in N - k + 1..N : what[i] # what[j]
    <2>1. n # N /\ N - n \in N - k + 1..N /\ N \in N - k + 1..N
        BY <1>1, <1>3
    <2> QED BY <2>1 DEF LastSame
<1> QED BY <1>2, <1>3 DEF Alike

-----------------------------------------------------------------------------
SizesGiven == /\ SizesAreNat /\ KeepRecent \in Nat
              /\ Identical \in Nat \ {0} /\ Changing \in Nat \ {0}

(* The counts decide what StallsAreSeen says by the rounds themselves.     *)
LEMMA CountedIsSeen ==
    ASSUME SizesGiven, MonitorCounts PROVE Context!StallsAreSeen
<1> DEFINE N == Len(rounds)
<1>1. /\ N \in Nat /\ (rounds = <<>> <=> N = 0)
      /\ \A i \in 1..N : Callings[i] = rounds[i][1]
    BY DEF MonitorCounts, Callings
<1>2. Identical \in Nat \ {0} /\ Changing \in Nat \ {0}
    BY DEF SizesGiven
<1>3. CASE rounds = <<>>
    <2>1. /\ ~stalled /\ Len(rounds) = 0 /\ ~(Identical <= Len(rounds))
          /\ ~(Changing <= Len(rounds))
        BY <1>1, <1>2, <1>3 DEF MonitorCounts
    <2> QED BY <2>1, Zenon DEF Context!StallsAreSeen
<1>4. CASE rounds # <<>>
    <2>1. stalled <=> monitor.results >= Identical \/ monitor.calls >= Changing
        BY <1>4 DEF MonitorCounts, Context!Verdict
    <2>2. LastSame(monitor.calls, Callings, N) /\ LastSame(monitor.results, rounds, N)
        BY <1>4 DEF MonitorCounts
    <2>3. monitor.results >= Identical
            <=> Identical <= N /\ \A i, j \in N - Identical + 1..N : rounds[i] = rounds[j]
        <3> HIDE DEF N
        <3>1. monitor.results >= Identical <=> Alike(Identical, rounds, N)
            BY <1>1, <1>2, <2>2, SameIsCounted
        <3> QED BY <3>1, Zenon DEF Alike
    <2>4. monitor.calls >= Changing
            <=> Changing <= N /\ \A i, j \in N - Changing + 1..N : Callings[i] = Callings[j]
        <3> HIDE DEF N
        <3>1. monitor.calls >= Changing <=> Alike(Changing, Callings, N)
            BY <1>1, <1>2, <2>2, SameIsCounted
        <3> QED BY <3>1, Zenon DEF Alike
    <2>5. ASSUME Changing <= N, NEW i \in N - Changing + 1..N
          PROVE  Callings[i] = rounds[i][1]
        BY <1>1, <1>2, <2>5
    <2>6. Changing <= N => ((\A i, j \in N - Changing + 1..N : Callings[i] = Callings[j])
            <=> \A i, j \in N - Changing + 1..N : rounds[i][1] = rounds[j][1])
        BY <2>5
    <2>7. stalled <=> \/ Identical <= N /\ \A i, j \in N - Identical + 1..N : rounds[i] = rounds[j]
                      \/ Changing <= N /\ \A i, j \in N - Changing + 1..N : rounds[i][1] = rounds[j][1]
        BY <2>1, <2>3, <2>4, <2>6
    <2> QED BY <2>7, Zenon DEF Context!StallsAreSeen
<1> QED BY <1>3, <1>4

LEMMA RoundIsCounted ==
    ASSUME MonitorCounts, Context!Round PROVE MonitorCounts'
<1> DEFINE N == Len(rounds)
<1>1. PICK calls \in Signatures, results \in Signatures :
        /\ rounds' = Append(rounds, <<calls, results>>)
        /\ monitor' = Context!Watched(calls, results)
    BY DEF Context!Round
<1>2. stalled' = Context!Verdict(monitor')
    BY DEF Context!Round
<1>3. /\ rounds \in Seq(Signatures \X Signatures)
      /\ rounds' \in Seq(Signatures \X Signatures)
      /\ N \in Nat /\ Len(rounds') = N + 1 /\ rounds' # <<>>
      /\ rounds'[N + 1] = <<calls, results>> /\ \A i \in 1..N : rounds'[i] = rounds[i]
      /\ rounds # <<>> <=> N # 0
    BY <1>1 DEF MonitorCounts
<1>4. Callings'[N + 1] = calls /\ \A i \in 1..N : Callings'[i] = Callings[i]
    <2>1. \A i \in 1..N + 1 : Callings'[i] = rounds'[i][1]
        BY <1>3 DEF Callings
    <2>2. \A i \in 1..N : Callings[i] = rounds[i][1] /\ i \in 1..N + 1
        BY <1>3 DEF Callings
    <2>3. N + 1 \in 1..N + 1
        BY <1>3
    <2> QED BY <1>3, <2>1, <2>2, <2>3
<1>5. monitor'.previous = <<calls, results>>
      /\ monitor' = [previous |-> monitor'.previous, calls |-> monitor'.calls,
                      results |-> monitor'.results]
    BY <1>1 DEF Context!Watched
<1>6. /\ LastSame(monitor'.calls, Callings', N + 1)
      /\ LastSame(monitor'.results, rounds', N + 1)
    <2>1. CASE rounds = <<>>
        <3>1. N = 0 /\ monitor'.calls = 1 /\ monitor'.results = 1
            BY <1>1, <1>3, <2>1 DEF Context!Watched, MonitorCounts, Context!Unseen
        <3> HIDE DEF N
        <3> QED BY <3>1 DEF LastSame
    <2>2. CASE rounds # <<>>
        <3>1. /\ monitor.previous = rounds[N] /\ N \in 1..N
              /\ LastSame(monitor.calls, Callings, N)
              /\ LastSame(monitor.results, rounds, N)
            BY <1>3, <2>2 DEF MonitorCounts
        <3>2. rounds[N] \in Signatures \X Signatures /\ Callings[N] = rounds[N][1]
            BY <1>3, <3>1 DEF Callings
        <3>3. monitor.previous # <<>> /\ rounds[N] = <<rounds[N][1], rounds[N][2]>>
            BY <3>1, <3>2
        <3> HIDE DEF N
        <3>4. monitor'.calls = IF rounds[N][1] = calls THEN monitor.calls + 1 ELSE 1
            BY <1>1, <3>1, <3>3 DEF Context!Watched
        <3>5. monitor'.results = IF rounds[N] = <<calls, results>> THEN monitor.results + 1 ELSE 1
            BY <1>1, <3>1, <3>3 DEF Context!Watched
        <3>6. /\ rounds'[N + 1] = rounds'[N] <=> rounds[N] = <<calls, results>>
              /\ Callings'[N + 1] = Callings'[N] <=> rounds[N][1] = calls
            BY <1>3, <1>4, <3>1, <3>2
        <3>7. LastSame(monitor'.calls, Callings', N + 1)
            BY <1>3, <1>4, <3>1, <3>4, <3>6, SameAgain
        <3>8. LastSame(monitor'.results, rounds', N + 1)
            BY <1>3, <3>1, <3>5, <3>6, SameAgain
        <3> QED BY <3>7, <3>8
    <2> QED BY <2>1, <2>2
<1> HIDE DEF N
<1>7. /\ monitor'.previous = rounds'[Len(rounds')]
      /\ LastSame(monitor'.calls, Callings', Len(rounds'))
      /\ LastSame(monitor'.results, rounds', Len(rounds'))
    BY <1>3, <1>5, <1>6
<1> QED BY <1>2, <1>3, <1>5, <1>7 DEF MonitorCounts

(* No turn is summarised that is not stored.                               *)
LEMMA EligibleFits ==
    ASSUME SizesGiven, TurnsTyped
    PROVE  Context!Eligible \in Nat /\ covered + Context!Eligible \in 0..Len(turns)
<1>1. covered \in 0..Len(turns) /\ Len(turns) \in Nat /\ KeepRecent \in Nat
    BY DEF TurnsTyped, SizesGiven
<1>2. Cardinality(covered + 1..Len(turns)) = Len(turns) - covered
    <2>1. covered + 1 \in Int /\ Len(turns) \in Int
        BY <1>1
    <2>2. Cardinality(covered + 1..Len(turns))
            = IF covered + 1 > Len(turns) THEN 0 ELSE Len(turns) - (covered + 1) + 1
        BY <2>1, FS_Interval
    <2> QED BY <1>1, <2>2
<1>3. \/ Context!Eligible = 0
      \/ Context!Cardinality(covered + 1..Len(turns)) > KeepRecent
         /\ Context!Eligible = Context!Cardinality(covered + 1..Len(turns)) - KeepRecent
    BY Zenon DEF Context!Eligible
<1>4. Context!Cardinality(covered + 1..Len(turns)) = Cardinality(covered + 1..Len(turns))
    BY Zenon DEF Context!Cardinality, Cardinality
<1> QED BY <1>1, <1>2, <1>3, <1>4

LEMMA ContextTyped ==
    ASSUME SizesGiven, TurnsTyped, [Context!Next]_(Context!vars)
    PROVE  TurnsTyped'
<1>0. Texts \subseteq Nat /\ Results \subseteq Nat
    BY DEF SizesGiven, SizesAreNat
<1> USE DEF TurnsTyped, TurnRecords
<1>1. CASE Context!Begin
    BY <1>0, <1>1 DEF Context!Begin
<1>2. CASE Context!Summarise
    BY <1>2, EligibleFits DEF Context!Summarise
<1>3. CASE Context!Build
    BY <1>3 DEF Context!Build
<1>4. CASE Context!Round
    BY <1>0, <1>4 DEF Context!Round
<1>5. CASE Context!End
    <2>1. /\ Append(turns, composing) \in Seq(TurnRecords)
          /\ Len(Append(turns, composing)) = Len(turns) + 1
        OBVIOUS
    <2>2. turns' \in Seq(TurnRecords) /\ covered' \in 0..Len(turns')
        <3>1. turns' = turns \/ turns' = Append(turns, composing)
            BY <1>5 DEF Context!End
        <3>2. covered' = covered /\ Len(turns) \in Nat /\ covered \in 0..Len(turns)
            BY <1>5 DEF Context!End
        <3>3. CASE turns' = turns
            BY <3>2, <3>3
        <3>4. CASE turns' = Append(turns, composing)
            <4>1. Len(turns') = Len(turns) + 1 /\ turns' \in Seq(TurnRecords)
                BY <2>1, <3>4
            <4> QED BY <3>2, <4>1
        <3> QED BY <3>1, <3>3, <3>4
    <2> QED BY <1>5, <2>2 DEF Context!End, Context!NoTurn
<1>6. CASE Context!Replace
    <2>1. <<>> \in Seq(TurnRecords) /\ Len(<<>>) = 0 /\ 0 \in 0..0
        OBVIOUS
    <2> QED BY <1>6, <2>1 DEF Context!Replace
<1>7. CASE UNCHANGED Context!vars
    BY <1>7 DEF Context!vars
<1> QED BY <1>1, <1>2, <1>3, <1>4, <1>5, <1>6, <1>7 DEF Context!Next

LEMMA MonitorKept ==
    ASSUME MonitorCounts, [Context!Next]_(Context!vars) PROVE MonitorCounts'
<1>1. CASE Context!Begin
    <2>1. rounds' = <<>> /\ monitor' = Context!Unseen /\ stalled' = FALSE
        BY <1>1 DEF Context!Begin
    <2>2. rounds' \in Seq(Signatures \X Signatures)
        BY <2>1
    <2> QED BY <2>1, <2>2 DEF MonitorCounts, Context!Unseen
<1>2. CASE Context!Round
    BY <1>2, RoundIsCounted
<1>3. CASE UNCHANGED <<rounds, monitor, stalled>>
    BY <1>3 DEF MonitorCounts, Callings, LastSame, Context!Verdict
<1> QED
    BY <1>1, <1>2, <1>3
    DEF Context!Next, Context!vars, Context!Summarise, Context!Build, Context!End,
        Context!Replace

LEMMA ContextStays ==
    ASSUME SizesGiven
    PROVE  /\ Context!Init => ContextInv
           /\ ContextInv /\ [Context!Next]_(Context!vars) => ContextInv'
           /\ ContextInv => Context!RequestIsBest /\ Context!StallsAreSeen
<1>1. Context!Init => ContextInv
    <2> SUFFICES ASSUME Context!Init PROVE ContextInv
        OBVIOUS
    <2>1. TurnsTyped
        <3>1. <<>> \in Seq(TurnRecords) /\ Len(<<>>) = 0 /\ 0 \in 0..0
            OBVIOUS
        <3> QED BY <3>1 DEF Context!Init, TurnsTyped, TurnRecords, Context!NoTurn
    <2>3. MonitorCounts
        <3>1. <<>> \in Seq(Signatures \X Signatures)
            OBVIOUS
        <3> QED BY <3>1 DEF Context!Init, MonitorCounts, Context!Unseen
    <2>2. Context!RequestIsBest
        BY DEF Context!Init, Context!RequestIsBest
    <2> QED BY <2>1, <2>2, <2>3 DEF ContextInv
<1>2. ASSUME ContextInv, [Context!Next]_(Context!vars) PROVE ContextInv'
    <2>1. TurnsTyped' /\ MonitorCounts'
        BY <1>2, ContextTyped, MonitorKept DEF ContextInv
    <2>2. Context!RequestIsBest'
        <3>1. CASE Context!Build
            BY <1>2, <3>1, BuildIsBest DEF ContextInv, SizesGiven
        <3>2. CASE UNCHANGED Context!vars
            <4>1. Context!RequestIsBest' = Context!RequestIsBest
                BY <3>2
                DEF Context!vars, Context!RequestIsBest, Context!Costs, Context!Nth,
                    Context!Cost
            <4> QED BY <1>2, <4>1 DEF ContextInv
        <3>3. CASE phase' # "rounds"
            BY <3>3, Zenon DEF Context!RequestIsBest
        <3>4. \/ Context!Build \/ UNCHANGED Context!vars \/ phase' # "rounds"
            BY <1>2
            DEF Context!Next, Context!Begin, Context!Summarise, Context!Round,
                Context!End, Context!Replace
        <3> QED BY <3>1, <3>2, <3>3, <3>4
    <2> QED BY <2>1, <2>2 DEF ContextInv
<1>3. ContextInv => Context!RequestIsBest /\ Context!StallsAreSeen
    BY CountedIsSeen DEF ContextInv
<1> QED BY <1>1, <1>2, <1>3

(* RequestIsBest, StallsAreSeen: build sends the longest history that      *)
(* fits, and a turn that repeats itself is told so and no other is.        *)
THEOREM ContextAlwaysSound ==
    ASSUME SizesGiven
    PROVE  Context!Spec => [](Context!RequestIsBest /\ Context!StallsAreSeen)
<1>1. Context!Init => ContextInv
    BY ContextStays
<1>2. ContextInv /\ [Context!Next]_(Context!vars) => ContextInv'
    BY ContextStays
<1>3. ContextInv => Context!RequestIsBest /\ Context!StallsAreSeen
    BY ContextStays
<1> QED BY <1>1, <1>2, <1>3, PTL DEF Context!Spec

-----------------------------------------------------------------------------
(* The agent: for any number of turns, requests and chats, any scopes and  *)
(* hooks, and any calls a response makes, turns do not mix, a tool runs    *)
(* only when it is allowed to, and the history is made of whole turns.     *)

(* A response that calls tools calls at least one.                         *)
CallsAreBatches == Batches \subseteq Seq(Agent!Tools) \ {<<>>}

(* Where a turn runs hooks, and where it has its messages.                 *)
HookPcs == {"hook", "gate", "hook_asking", "hook_running"}
TalkPcs == {"request", "call", "asking", "running", "stopping"}

(* A turn that is left only runs its last hooks; the others are the worker's. *)
TurnsInv ==
    /\ \A t \in Agent!Turns : Agent!Live(t) => t = consumer \/ run[t].ending
    /\ \A t \in Agent!Turns : run[t].ending => Agent!At(t, HookPcs)
    /\ \A t \in Agent!Turns : Agent!At(t, TalkPcs) => messages # <<>>
    /\ messages # <<>> => consumer # 0 /\ Agent!At(consumer, TalkPcs)
    /\ asking # 0 => Agent!At(asking, {"asking", "hook_asking"})
    /\ \A t \in Agent!Turns : Agent!At(t, {"request"}) => owed = <<>>
    /\ \A t \in Agent!Turns : Agent!At(t, {"call", "asking", "running", "stopping"}) => owed # <<>>
    /\ effect # Agent!NoEffect => consumer # 0 /\ Agent!At(consumer, {"running", "stopping"})

(* The call that waits for an answer is one the mode of its turn allows.   *)
AskAllowed(t) == Agent!ModeAllows(run[t].mode, Head(owed))

(* A turn that has never overlapped with another has everything for itself:*)
(* the active mode, its hook's authorisation and the approval slot.        *)
AloneInv == \A t \in Agent!Turns : run[t].alone /\ Agent!Live(t) =>
    /\ \A s \in Agent!Turns : Agent!Live(s) => s = t
    /\ active = run[t].mode
    /\ Agent!At(t, {"gate"}) => Agent!HookOf(t) \in preauth
    /\ ~Agent!At(t, {"hook_asking"})
    /\ Agent!At(t, {"asking"}) => asking = t /\ AskAllowed(t)

(* A turn starts with its prompt, and has no other.                        *)
Opens(m, left) ==
    /\ m[1] = Agent!User
    /\ Len(m) = 1 => left = 0
    /\ Len(m) >= 2 => m[2] # Agent!Result
    /\ \A i \in 2..Len(m) : m[i] # Agent!User

(* The calls of message i have their results up to message last, which are *)
(* followed by something else; `left' of them may still be missing.        *)
Answered(m, i, last, left) ==
    /\ \A j \in i + 1..Len(m) : j <= last => m[j] = Agent!Result
    /\ last < Len(m) => m[last + 1] # Agent!Result
    /\ last > Len(m) => last = Len(m) + left
    /\ last = Len(m) => left = 0

(* A turn whose last batch waits for the results of `left' of its calls. *)
Waits(m, left) ==
    /\ Opens(m, left)
    /\ \A i \in 1..Len(m) : m[i].role = "calls" => Answered(m, i, i + m[i].calls, left)

PendingInv == messages # <<>> => Waits(messages, Len(owed))
(* The messages of a turn that has not been completed, and the runs.       *)
Messages == {Agent!User, Agent!Result} \cup {Agent!Calls(k) : k \in Nat \ {0}}
RunRecords == [pc : Agent!Pcs, mode : Agent!Modes, iter : Nat, stalled : BOOLEAN, ending : BOOLEAN,
               alone : BOOLEAN]
Typed == run \in [Agent!Turns -> RunRecords]
(* What a step does to the runs: only that of t changes, which moves on or *)
(* is over.                                                                *)
Others(t) == \A s \in Agent!Turns \ {t} : run'[s] = run[s]
Moves(t, pcs) ==
    /\ Typed' /\ Others(t)
    /\ run'[t].pc \in pcs /\ run'[t].mode = run[t].mode
    /\ run'[t].ending = run[t].ending /\ run'[t].alone = run[t].alone
Halts(t) == Typed' /\ Others(t) /\ run'[t] = Agent!Over

(* What a finished and a new run are.                                      *)
LEMMA OverTyped == Agent!Over \in RunRecords /\ Agent!NewRun \in RunRecords
                   /\ Agent!Over.pc = "over" /\ Agent!Over.mode = "build" /\ ~Agent!Over.ending /\ Agent!Over.alone
                   /\ Agent!NewRun.pc = "idle" /\ ~Agent!NewRun.ending
BY DEF Agent!Over, Agent!NewRun, RunRecords, Agent!Pcs, Agent!Modes

LEMMA Moved ==
    ASSUME Typed, NEW t \in Agent!Turns, NEW pc \in Agent!Pcs, Agent!To(t, pc)
    PROVE  Moves(t, {pc})
BY DEF Agent!To, Typed, Moves, Others, RunRecords

LEMMA Stopped ==
    ASSUME Typed, NEW t \in Agent!Turns, run' = [run EXCEPT ![t] = Agent!Over]
    PROVE  Halts(t)
BY OverTyped DEF Typed, Halts, Others

LEMMA HookBegun ==
    ASSUME Typed, NEW t \in Agent!Turns, run' = [run EXCEPT ![t].pc = "hook", ![t].ending = TRUE]
    PROVE  Typed' /\ Others(t) /\ run'[t].pc = "hook" /\ run'[t].ending
           /\ run'[t].mode = run[t].mode /\ run'[t].alone = run[t].alone
BY DEF Typed, Others, RunRecords, Agent!Pcs

LEMMA Begun ==
    ASSUME Typed, NEW t \in Agent!Turns, run' = [run EXCEPT ![t].pc = "request", ![t].iter = 1]
    PROVE  Moves(t, {"request"})
BY DEF Typed, Moves, Others, RunRecords, Agent!Pcs

LEMMA Stepped ==
    ASSUME Typed, NEW t \in Agent!Turns, Agent!NextStep(t)
    PROVE  IF Len(owed) > 1 THEN Moves(t, {"call"}) ELSE Moves(t, {"request"})
<1>1. CASE Len(owed) > 1
    BY <1>1, Moved DEF Agent!NextStep, Agent!Pcs
<1>2. CASE ~(Len(owed) > 1)
    <2>1. PICK notice \in BOOLEAN :
            run' = [run EXCEPT ![t].pc = "request", ![t].iter = @ + 1, ![t].stalled = notice]
        BY <1>2 DEF Agent!NextStep
    <2> QED BY <1>2, <2>1 DEF Typed, Moves, Others, RunRecords, Agent!Pcs
<1> QED BY <1>1, <1>2

(* A turn is left: its messages go, and it either runs its last hooks or   *)
(* is over.                                                                *)
Left(t) ==
    /\ messages' = <<>> /\ owed' = <<>> /\ completed' = completed
    /\ \/ /\ Typed' /\ Others(t) /\ run'[t].pc = "hook" /\ run'[t].ending
          /\ run'[t].mode = run[t].mode /\ run'[t].alone = run[t].alone /\ active' = active
       \/ Halts(t) /\ active' = "none"

LEMMA TurnLeft ==
    ASSUME Typed, NEW t \in Agent!Turns, Agent!EndTurn(t)
    PROVE  Left(t)
<1>1. CASE run[t].mode # "plan" /\ "turn_end" \in Hooked
    BY <1>1, HookBegun DEF Agent!EndTurn, Agent!Aborted, Left
<1>2. CASE ~(run[t].mode # "plan" /\ "turn_end" \in Hooked)
    BY <1>2, Stopped DEF Agent!EndTurn, Agent!Aborted, Left
<1> QED BY <1>1, <1>2

(* The inductive invariant.                                                *)
AgentInv ==
    /\ CallsAreBatches
    /\ selected \in Agent!Modes /\ active \in Agent!Modes \cup {"none"} /\ Typed
    /\ messages \in Seq(Messages) /\ owed \in Seq(Agent!Tools) /\ completed \in Nat
    /\ consumer \in Agent!Turns \cup {0} /\ asking \in Agent!Turns \cup {0} /\ chat \in Nat
    /\ TurnsInv /\ AloneInv /\ Agent!EffectsAreAllowed

(* The calls that are left after a result.                                 *)
LEMMA OwedTail ==
    ASSUME NEW s \in Seq(Agent!Tools), s # <<>>
    PROVE  /\ Tail(s) \in Seq(Agent!Tools) /\ Len(s) \in Nat \ {0}
           /\ Len(s) > 1 => Tail(s) # <<>>
           /\ ~(Len(s) > 1) => Tail(s) = <<>>
<1>1. Len(s) \in Nat /\ Len(s) # 0 /\ Tail(s) \in Seq(Agent!Tools) /\ Len(Tail(s)) = Len(s) - 1
    BY EmptySeq, HeadTailProperties
<1>2. PICK tail \in Seq(Agent!Tools) : tail = Tail(s)
    BY <1>1
<1>3. tail = <<>> <=> Len(tail) = 0
    BY EmptySeq
<1> QED BY <1>1, <1>2, <1>3

LEMMA Longer ==
    ASSUME NEW s \in Seq(Messages), NEW m \in Messages
    PROVE  Append(s, m) \in Seq(Messages) /\ Append(s, m) # <<>>
BY AppendProperties

LEMMA NoTalk ==
    /\ <<>> \in Seq(Agent!Tools) /\ <<>> \in Seq(Messages)
    /\ <<Agent!User>> # <<>> /\ <<Agent!User>> \in Seq(Messages)
    /\ 0 \notin Agent!Turns
BY DEF Messages, Agent!Turns

(* A hook that is through ends the turn or begins it.                      *)
LEMMA HookLeft ==
    ASSUME Typed, NEW t \in Agent!Turns, Agent!HookLeaves(t)
    PROVE  /\ preauth' = preauth \ {Agent!HookOf(t)}
           /\ \/ run[t].ending /\ Halts(t) /\ active' = "none" /\ Agent!Free(t)
              \/ ~run[t].ending /\ Moves(t, {"begin"}) /\ UNCHANGED <<active, consumer>>
BY Stopped, Moved DEF Agent!HookLeaves, Agent!Finish, Agent!Pcs

LEMMA StartsWell ==
    ASSUME CallsAreBatches, Agent!Init PROVE AgentInv /\ PendingInv
<1>1. run = [t \in Agent!Turns |-> Agent!NewRun] /\ Typed
    BY OverTyped DEF Agent!Init, Typed
<1>2. \A t \in Agent!Turns : ~Agent!Live(t) /\ ~run[t].ending /\ run[t].pc = "idle"
    BY <1>1, OverTyped DEF Agent!Live, Agent!At
<1>3. TurnsInv
    BY <1>2 DEF Agent!Init, TurnsInv, Agent!At, TalkPcs
<1>4. AloneInv
    BY <1>2 DEF AloneInv
<1>5. Agent!EffectsAreAllowed /\ PendingInv
    BY DEF Agent!EffectsAreAllowed, PendingInv, Agent!Init
<1> QED BY <1>1, <1>3, <1>4, <1>5, NoTalk DEF Agent!Init, AgentInv, Agent!Modes

(* Every step keeps the invariant: what the turn does, then what becomes   *)
(* of its approval when it is left, then what the user does.               *)
LEMMA PrepareKeeps ==
    ASSUME AgentInv, NEW t \in Agent!Turns, Agent!Prepare(t) PROVE AgentInv'
<1>1. Moves(t, {"hook", "begin"})
    BY Moved DEF Agent!Prepare, Agent!Pcs, AgentInv, Moves
<1>2. TurnsInv'
    BY <1>1
    DEF Agent!Prepare, AgentInv, TurnsInv, Moves, Others, Agent!At, Agent!Live, HookPcs, TalkPcs,
        Agent!modes, Agent!talk, Agent!rights, Agent!face
<1>3. AloneInv'
    BY <1>1
    DEF Agent!Prepare, AgentInv, TurnsInv, AloneInv, Moves, Others, Agent!At, Agent!Live, HookPcs,
        TalkPcs, Agent!HookOf, Agent!modes, Agent!talk, Agent!rights, Agent!face
<1>4. Agent!EffectsAreAllowed'
    BY <1>1
    DEF Agent!Prepare, AgentInv, TurnsInv, Agent!EffectsAreAllowed, Agent!modes, Agent!talk, Agent!rights, Agent!face,
        Agent!At, TalkPcs
<1> QED
    BY <1>1, <1>2, <1>3, <1>4
    DEF Agent!Prepare, AgentInv, Moves, Agent!modes, Agent!talk, Agent!rights, Agent!face

LEMMA HookStartsKeeps ==
    ASSUME AgentInv, NEW t \in Agent!Turns, Agent!HookStarts(t) PROVE AgentInv'
<1>1. Moves(t, {"gate"})
    BY Moved DEF Agent!HookStarts, Agent!Pcs, AgentInv, Moves
<1>2. TurnsInv'
    BY <1>1
    DEF Agent!HookStarts, AgentInv, TurnsInv, Moves, Others, Agent!At, Agent!Live, HookPcs, TalkPcs,
        Agent!modes, Agent!talk, Agent!rights, Agent!face
<1>3. AloneInv'
    BY <1>1
    DEF Agent!HookStarts, AgentInv, TurnsInv, AloneInv, Moves, Others, Agent!At, Agent!Live, HookPcs,
        TalkPcs, Agent!HookOf, Agent!modes, Agent!talk, Agent!rights, Agent!face
<1>4. Agent!EffectsAreAllowed'
    BY <1>1
    DEF Agent!HookStarts, AgentInv, TurnsInv, Agent!EffectsAreAllowed, Agent!modes, Agent!talk, Agent!rights,
        Agent!face, Agent!At, TalkPcs
<1> QED
    BY <1>1, <1>2, <1>3, <1>4
    DEF Agent!HookStarts, AgentInv, Moves, Agent!modes, Agent!talk, Agent!rights, Agent!face

LEMMA HookGateKeeps ==
    ASSUME AgentInv, NEW t \in Agent!Turns, Agent!HookGate(t) PROVE AgentInv'
<1>1. \/ Moves(t, {"hook_running"}) /\ UNCHANGED asking
      \/ ~Agent!HookAuthorised(t) /\ Moves(t, {"hook_asking"}) /\ asking' = t
    BY Moved DEF Agent!HookGate, Agent!Pcs, AgentInv, Moves
<1>2. TurnsInv'
    BY <1>1
    DEF Agent!HookGate, Agent!HookAuthorised, AgentInv, TurnsInv, Moves, Others, Agent!At, Agent!Live,
        HookPcs, TalkPcs, Agent!modes, Agent!talk, Agent!rights, Agent!face
<1>3. AloneInv'
    BY <1>1
    DEF Agent!HookGate, Agent!HookAuthorised, AgentInv, TurnsInv, AloneInv, Moves, Others, Agent!At,
        Agent!Live, HookPcs, TalkPcs, Agent!HookOf, Agent!modes, Agent!talk, Agent!rights, Agent!face
<1>4. Agent!EffectsAreAllowed'
    BY <1>1
    DEF Agent!HookGate, Agent!HookAuthorised, AgentInv, TurnsInv, Agent!EffectsAreAllowed, Agent!modes,
        Agent!talk, Agent!rights, Agent!face, Agent!At, TalkPcs
<1> QED
    BY <1>1, <1>2, <1>3, <1>4
    DEF Agent!HookGate, Agent!HookAuthorised, AgentInv, Moves, Agent!modes, Agent!talk, Agent!rights, Agent!face

LEMMA HookEndsKeeps ==
    ASSUME AgentInv, NEW t \in Agent!Turns, Agent!At(t, {"hook_running", "hook_asking"}), Agent!HookLeaves(t),
           UNCHANGED <<selected, Agent!talk, grants, chat, effect>>, asking' \in {0, asking}, asking' # t
    PROVE  AgentInv'
<1>1. TurnsInv'
    BY HookLeft, OverTyped
    DEF Halts, Agent!Free, AgentInv, TurnsInv, Moves, Others, Agent!At, Agent!Live, HookPcs, TalkPcs,
        Agent!modes, Agent!talk, Agent!rights, Agent!face
<1>2. AloneInv'
    BY HookLeft, OverTyped
    DEF Halts, Agent!Free, AgentInv, TurnsInv, AloneInv, Moves, Others, Agent!At, Agent!Live, HookPcs,
        TalkPcs, Agent!HookOf, Agent!modes, Agent!talk, Agent!rights, Agent!face
<1>3. Agent!EffectsAreAllowed'
    BY HookLeft, OverTyped
    DEF Halts, Agent!Free, AgentInv, TurnsInv, Agent!EffectsAreAllowed, Agent!modes, Agent!talk, Agent!rights,
        Agent!face, Agent!At, TalkPcs
<1> QED
    BY HookLeft, OverTyped, <1>1, <1>2, <1>3
    DEF Halts, Agent!Free, AgentInv, Moves, Agent!modes, Agent!talk, Agent!rights, Agent!face

LEMMA BeginsKeeps ==
    ASSUME AgentInv, NEW t \in Agent!Turns, Agent!Begin(t) PROVE AgentInv'
<1>1. consumer = t /\ messages = <<>>
    BY DEF Agent!Begin, AgentInv, TurnsInv, Agent!At, Agent!Live, HookPcs, TalkPcs
<1>2. /\ Moves(t, {"request"}) /\ messages' = <<Agent!User>> /\ owed' = <<>>
      /\ UNCHANGED <<active, consumer, completed>>
    BY <1>1, Begun DEF Agent!Begin, AgentInv
<1>3. messages' # <<>> /\ effect = Agent!NoEffect
      /\ \A s \in Agent!Turns : s # t => ~Agent!Live(s) \/ run[s].ending
    BY <1>1, <1>2, NoTalk DEF Agent!Begin, AgentInv, TurnsInv, Agent!At, Agent!Live
<1>4. TurnsInv'
    BY <1>1, <1>2, <1>3, NoTalk
    DEF Agent!Begin, AgentInv, TurnsInv, Moves, Others, Agent!At, Agent!Live, HookPcs, TalkPcs, Agent!modes,
        Agent!talk, Agent!rights, Agent!face
<1>5. AloneInv'
    BY <1>1, <1>2, <1>3, NoTalk
    DEF Agent!Begin, AgentInv, TurnsInv, AloneInv, Moves, Others, Agent!At, Agent!Live, HookPcs,
        TalkPcs, Agent!HookOf, Agent!modes, Agent!talk, Agent!rights, Agent!face
<1>6. Agent!EffectsAreAllowed'
    BY <1>1, <1>2, <1>3, NoTalk
    DEF Agent!Begin, AgentInv, TurnsInv, Agent!EffectsAreAllowed, Agent!modes, Agent!talk, Agent!rights, Agent!face, Agent!At,
        TalkPcs
<1> QED
    BY <1>1, <1>2, <1>3, NoTalk, <1>4, <1>5, <1>6
    DEF Agent!Begin, AgentInv, Moves, Agent!modes, Agent!talk, Agent!rights, Agent!face

LEMMA DetachesKeeps ==
    ASSUME AgentInv, NEW t \in Agent!Turns, Agent!At(t, TalkPcs \cup {"answered"}),
           UNCHANGED <<selected, Agent!rights, chat>>,
           effect' = Agent!NoEffect \/ (UNCHANGED effect /\ ~Agent!At(t, {"running", "stopping"})),
           Agent!Detach(t), asking' \in {0, asking}, asking' # t
    PROVE  AgentInv'
<1>1. TurnsInv'
    BY TurnLeft, OverTyped, NoTalk
    DEF Agent!Detach, Left, Halts, AgentInv, TurnsInv, Moves, Others, Agent!At, Agent!Live, HookPcs,
        TalkPcs, Agent!modes, Agent!talk, Agent!rights, Agent!face
<1>2. AloneInv'
    BY TurnLeft, OverTyped, NoTalk
    DEF Agent!Detach, Left, Halts, AgentInv, TurnsInv, AloneInv, Moves, Others, Agent!At, Agent!Live,
        HookPcs, TalkPcs, Agent!HookOf, Agent!modes, Agent!talk, Agent!rights, Agent!face
<1>3. Agent!EffectsAreAllowed'
    BY TurnLeft, OverTyped, NoTalk
    DEF Agent!Detach, Left, Halts, AgentInv, TurnsInv, Agent!EffectsAreAllowed, Agent!modes, Agent!talk,
        Agent!rights, Agent!face, Agent!At, TalkPcs
<1> QED
    BY TurnLeft, OverTyped, NoTalk, <1>1, <1>2, <1>3
    DEF Agent!Detach, Left, Halts, AgentInv, Moves, Agent!modes, Agent!talk, Agent!rights, Agent!face

LEMMA LeavesKeeps ==
    ASSUME AgentInv, NEW t \in Agent!Turns, Agent!At(t, TalkPcs \cup {"answered"}),
           UNCHANGED <<selected, Agent!rights, chat>>,
           effect' = Agent!NoEffect \/ (UNCHANGED effect /\ ~Agent!At(t, {"running", "stopping"})),
           Agent!Leave(t), asking' \in {0, asking}, asking' # t
    PROVE  AgentInv'
<1>1. Left(t) /\ consumer' = (IF run'[t].pc = "over" /\ consumer = t THEN 0 ELSE consumer)
    BY TurnLeft DEF Agent!Leave, AgentInv
<1>2. TurnsInv'
    BY <1>1, OverTyped, NoTalk
    DEF Left, Halts, AgentInv, TurnsInv, Moves, Others, Agent!At, Agent!Live, HookPcs, TalkPcs,
        Agent!modes, Agent!talk, Agent!rights, Agent!face
<1>3. AloneInv'
    BY <1>1, OverTyped, NoTalk
    DEF Left, Halts, AgentInv, TurnsInv, AloneInv, Moves, Others, Agent!At, Agent!Live, HookPcs,
        TalkPcs, Agent!HookOf, Agent!modes, Agent!talk, Agent!rights, Agent!face
<1>4. Agent!EffectsAreAllowed'
    BY <1>1, OverTyped, NoTalk
    DEF Left, Halts, AgentInv, TurnsInv, Agent!EffectsAreAllowed, Agent!modes, Agent!talk, Agent!rights,
        Agent!face, Agent!At, TalkPcs
<1> QED
    BY <1>1, OverTyped, NoTalk, <1>2, <1>3, <1>4
    DEF Left, Halts, AgentInv, Moves, Agent!modes, Agent!talk, Agent!rights, Agent!face

LEMMA FinishesKeeps ==
    ASSUME AgentInv, NEW t \in Agent!Turns, ~Agent!At(t, TalkPcs), Agent!Live(t), Agent!Finish(t),
           UNCHANGED <<selected, Agent!talk, grants, chat, effect>>,
           preauth' \in {preauth, preauth \ {Agent!HookOf(t)}}, asking' \in {0, asking}, asking' # t
    PROVE  AgentInv'
<1>1. Halts(t)
    BY Stopped DEF Agent!Finish, AgentInv
<1>2. TurnsInv'
    BY <1>1, OverTyped
    DEF Agent!Finish, Agent!Free, Halts, AgentInv, TurnsInv, Moves, Others, Agent!At, Agent!Live, HookPcs,
        TalkPcs, Agent!modes, Agent!talk, Agent!rights, Agent!face
<1>3. AloneInv'
    BY <1>1, OverTyped
    DEF Agent!Finish, Agent!Free, Halts, AgentInv, TurnsInv, AloneInv, Moves, Others, Agent!At, Agent!Live,
        HookPcs, TalkPcs, Agent!HookOf, Agent!modes, Agent!talk, Agent!rights, Agent!face
<1>4. Agent!EffectsAreAllowed'
    BY <1>1, OverTyped
    DEF Agent!Finish, Agent!Free, Halts, AgentInv, TurnsInv, Agent!EffectsAreAllowed, Agent!modes, Agent!talk,
        Agent!rights, Agent!face, Agent!At, TalkPcs
<1> QED
    BY <1>1, OverTyped, <1>2, <1>3, <1>4
    DEF Agent!Finish, Agent!Free, Halts, AgentInv, Moves, Agent!modes, Agent!talk, Agent!rights, Agent!face

LEMMA AnswersKeeps ==
    ASSUME AgentInv, NEW t \in Agent!Turns, Agent!Answers(t) PROVE AgentInv'
<1>1. Moves(t, {"answered"})
    BY Moved DEF Agent!Answers, Agent!Pcs, AgentInv, Moves
<1>2. TurnsInv'
    BY <1>1, NoTalk
    DEF Agent!Answers, Agent!Completed, AgentInv, TurnsInv, Moves, Others, Agent!At, Agent!Live, HookPcs,
        TalkPcs, Agent!modes, Agent!talk, Agent!rights, Agent!face
<1>3. AloneInv'
    BY <1>1, NoTalk
    DEF Agent!Answers, Agent!Completed, AgentInv, TurnsInv, AloneInv, Moves, Others, Agent!At, Agent!Live,
        HookPcs, TalkPcs, Agent!HookOf, Agent!modes, Agent!talk, Agent!rights, Agent!face
<1>4. Agent!EffectsAreAllowed'
    BY <1>1, NoTalk
    DEF Agent!Answers, Agent!Completed, AgentInv, TurnsInv, Agent!EffectsAreAllowed, Agent!modes, Agent!talk,
        Agent!rights, Agent!face, Agent!At, TalkPcs
<1> QED
    BY <1>1, NoTalk, <1>2, <1>3, <1>4
    DEF Agent!Answers, Agent!Completed, AgentInv, Moves, Agent!modes, Agent!talk, Agent!rights, Agent!face

LEMMA CallsKeeps ==
    ASSUME AgentInv, NEW t \in Agent!Turns, Agent!CallsTools(t) PROVE AgentInv'
<1>1. Moves(t, {"call"})
    BY Moved DEF Agent!CallsTools, Agent!Pcs, AgentInv, Moves
<1>2. /\ messages' # <<>> /\ messages' \in Seq(Messages)
      /\ owed' \in Seq(Agent!Tools) \ {<<>>}
    <2>1. PICK batch \in Batches : messages' = Append(messages, Agent!Calls(Len(batch))) /\ owed' = batch
        BY DEF Agent!CallsTools
    <2>2. Len(batch) \in Nat \ {0}
        BY OwedTail DEF AgentInv, CallsAreBatches
    <2>3. Agent!Calls(Len(batch)) \in Messages
        BY <2>2 DEF Messages
    <2> QED BY <2>1, <2>3, Longer DEF AgentInv, CallsAreBatches
<1>3. \A s \in Agent!Turns : run'[s].alone /\ Agent!Live(s)' => s = t
    BY <1>1 DEF AgentInv, AloneInv, Moves, Others, Agent!Live, Agent!At, Agent!CallsTools, Agent!Recorded
<1>4. Moves(t, {"call", "request"})
    BY <1>1 DEF Moves
<1>5. TurnsInv'
    BY <1>1, <1>2, <1>3, NoTalk
    DEF Agent!CallsTools, AgentInv, TurnsInv, Moves, Others, Agent!At, Agent!Live, HookPcs, TalkPcs,
        Agent!modes, Agent!talk, Agent!rights, Agent!face
<1>6. AloneInv'
    <2>1. run[t].alone => \A s \in Agent!Turns : Agent!Live(s)' => s = t
        BY <1>4
        DEF Agent!CallsTools, Agent!Recorded, AgentInv, AloneInv, Moves, Others, Agent!Live, Agent!At
    <2>2. run'[t].alone => run[t].alone /\ active' = run'[t].mode
        BY <1>4 DEF Agent!CallsTools, Agent!Recorded, AgentInv, AloneInv, Moves, Agent!Live, Agent!At, Agent!modes
    <2>3. run'[t].pc \notin {"gate", "hook_asking", "asking"}
        BY <1>4 DEF Moves
    <2> QED BY <1>3, <2>1, <2>2, <2>3 DEF AloneInv, Agent!At
<1>7. Agent!EffectsAreAllowed'
    BY <1>1, <1>2, <1>3, NoTalk
    DEF Agent!CallsTools, AgentInv, TurnsInv, Agent!EffectsAreAllowed, Agent!modes, Agent!talk, Agent!rights,
        Agent!face, Agent!At, TalkPcs
<1> QED
    BY <1>1, <1>2, <1>3, NoTalk, <1>5, <1>6, <1>7
    DEF Agent!CallsTools, AgentInv, Moves, Agent!modes, Agent!talk, Agent!rights, Agent!face

LEMMA RecordsKeeps ==
    ASSUME AgentInv, NEW t \in Agent!Turns, Agent!At(t, {"call", "asking", "running"}), Agent!Recorded, Agent!NextStep(t),
           UNCHANGED <<Agent!modes, Agent!rights, consumer, chat>>,
           effect' = Agent!NoEffect \/ (UNCHANGED effect /\ ~Agent!At(t, {"running", "stopping"})),
           asking' \in {0, asking}, asking' # t
    PROVE  AgentInv'
<1>1. \/ Len(owed) > 1 /\ Moves(t, {"call"})
      \/ ~(Len(owed) > 1) /\ Moves(t, {"request"})
    BY Stepped DEF AgentInv
<1>2. /\ owed' \in Seq(Agent!Tools) /\ messages' # <<>>
      /\ Len(owed) > 1 => owed' # <<>>
      /\ ~(Len(owed) > 1) => owed' = <<>>
      /\ messages' \in Seq(Messages)
    <2>1. owed # <<>> /\ Agent!Result \in Messages
        BY DEF TurnsInv, Messages, Agent!At, AgentInv
    <2> QED BY <2>1, OwedTail, Longer DEF Agent!Recorded, AgentInv
<1>3. Moves(t, {"call", "request"})
    BY <1>1 DEF Moves
<1>4. \A s \in Agent!Turns : run'[s].alone /\ Agent!Live(s)' => s = t
    BY <1>3 DEF AgentInv, AloneInv, Moves, Others, Agent!Live, Agent!At, Agent!CallsTools, Agent!Recorded
<1>5. TurnsInv'
    BY <1>1, <1>2
    DEF Agent!Recorded, AgentInv, TurnsInv, Moves, Others, Agent!At, Agent!Live, HookPcs, TalkPcs,
        Agent!modes, Agent!talk, Agent!rights, Agent!face
<1>6. AloneInv'
    <2>1. run[t].alone => \A s \in Agent!Turns : Agent!Live(s)' => s = t
        BY <1>3
        DEF Agent!CallsTools, Agent!Recorded, AgentInv, AloneInv, Moves, Others, Agent!Live, Agent!At
    <2>2. run'[t].alone => run[t].alone /\ active' = run'[t].mode
        BY <1>3 DEF Agent!CallsTools, Agent!Recorded, AgentInv, AloneInv, Moves, Agent!Live, Agent!At, Agent!modes
    <2>3. run'[t].pc \notin {"gate", "hook_asking", "asking"}
        BY <1>3 DEF Moves
    <2> QED BY <1>4, <2>1, <2>2, <2>3 DEF AloneInv, Agent!At
<1>7. Agent!EffectsAreAllowed'
    BY <1>1, <1>2
    DEF Agent!Recorded, AgentInv, TurnsInv, Agent!EffectsAreAllowed, Agent!modes, Agent!talk, Agent!rights, Agent!face,
        Agent!At, TalkPcs
<1> QED
    BY <1>2, <1>3, <1>5, <1>6, <1>7
    DEF Agent!Recorded, AgentInv, Moves, Agent!modes, Agent!talk, Agent!rights, Agent!face

LEMMA RunsFreelyKeeps ==
    ASSUME AgentInv, NEW t \in Agent!Turns, Agent!RunsFreely(t) PROVE AgentInv'
<1>1. Moves(t, {"running"})
    BY Moved DEF Agent!RunsFreely, Agent!Pcs, AgentInv, Moves
<1>2. run[t].alone => Agent!ToolMode = run[t].mode
    BY
    DEF Agent!RunsFreely, AgentInv, AloneInv, Agent!Live, Agent!At, Agent!ToolMode, Typed, RunRecords, Agent!Modes
<1>3. TurnsInv'
    BY <1>1, <1>2
    DEF Agent!RunsFreely, Agent!Runs, AgentInv, TurnsInv, Moves, Others, Agent!At, Agent!Live, HookPcs,
        TalkPcs, Agent!modes, Agent!talk, Agent!rights, Agent!face
<1>4. AloneInv'
    BY <1>1, <1>2
    DEF Agent!RunsFreely, Agent!Runs, AgentInv, TurnsInv, AloneInv, Moves, Others, Agent!At, Agent!Live,
        HookPcs, TalkPcs, Agent!HookOf, Agent!modes, Agent!talk, Agent!rights, Agent!face
<1>5. Agent!EffectsAreAllowed'
    BY <1>1, <1>2
    DEF Agent!RunsFreely, Agent!Runs, AgentInv, TurnsInv, Agent!EffectsAreAllowed, Agent!modes, Agent!talk,
        Agent!rights, Agent!face, Agent!At, TalkPcs, Agent!Granted, Agent!Asks
<1> QED
    BY <1>1, <1>2, <1>3, <1>4, <1>5
    DEF Agent!RunsFreely, Agent!Runs, AgentInv, Moves, Agent!modes, Agent!talk, Agent!rights, Agent!face

LEMMA AsksUserKeeps ==
    ASSUME AgentInv, NEW t \in Agent!Turns, Agent!AsksUser(t) PROVE AgentInv'
<1>1. Moves(t, {"asking"})
    BY Moved DEF Agent!AsksUser, Agent!Pcs, AgentInv, Moves
<1>2. run[t].alone => Agent!ToolMode = run[t].mode
    BY
    DEF Agent!AsksUser, AgentInv, AloneInv, Agent!Live, Agent!At, Agent!ToolMode, Typed, RunRecords, Agent!Modes
<1>3. TurnsInv'
    BY <1>1, <1>2
    DEF Agent!AsksUser, AgentInv, TurnsInv, Moves, Others, Agent!At, Agent!Live, HookPcs, TalkPcs,
        Agent!modes, Agent!talk, Agent!rights, Agent!face
<1>4. AloneInv'
    BY <1>1, <1>2
    DEF Agent!AsksUser, AgentInv, TurnsInv, AloneInv, Moves, Others, Agent!At, Agent!Live, HookPcs,
        TalkPcs, Agent!HookOf, Agent!modes, Agent!talk, Agent!rights, Agent!face, AskAllowed
<1>5. Agent!EffectsAreAllowed'
    BY <1>1, <1>2
    DEF Agent!AsksUser, AgentInv, TurnsInv, Agent!EffectsAreAllowed, Agent!modes, Agent!talk, Agent!rights, Agent!face,
        Agent!At, TalkPcs
<1> QED
    BY <1>1, <1>2, <1>3, <1>4, <1>5
    DEF Agent!AsksUser, AgentInv, Moves, Agent!modes, Agent!talk, Agent!rights, Agent!face

LEMMA ShellAllowedKeeps ==
    ASSUME AgentInv, NEW t \in Agent!Turns, Agent!ShellAllowed(t) PROVE AgentInv'
<1>1. Moves(t, {"running"})
    BY Moved DEF Agent!ShellAllowed, Agent!Pcs, AgentInv, Moves
<1>2. run[t].alone => Agent!ToolMode = run[t].mode
    BY
    DEF Agent!ShellAllowed, AgentInv, AloneInv, Agent!Live, Agent!At, Agent!ToolMode, Typed, RunRecords,
        Agent!Modes
<1>3. TurnsInv'
    BY <1>1, <1>2
    DEF Agent!ShellAllowed, Agent!Runs, AgentInv, TurnsInv, Moves, Others, Agent!At, Agent!Live, HookPcs,
        TalkPcs, Agent!modes, Agent!talk, Agent!rights, Agent!face
<1>4. AloneInv'
    BY <1>1, <1>2
    DEF Agent!ShellAllowed, Agent!Runs, AgentInv, TurnsInv, AloneInv, Moves, Others, Agent!At, Agent!Live,
        HookPcs, TalkPcs, Agent!HookOf, Agent!modes, Agent!talk, Agent!rights, Agent!face
<1>5. Agent!EffectsAreAllowed'
    BY <1>1, <1>2
    DEF Agent!ShellAllowed, Agent!Runs, AgentInv, TurnsInv, Agent!EffectsAreAllowed, Agent!modes, Agent!talk,
        Agent!rights, Agent!face, Agent!At, TalkPcs
<1> QED
    BY <1>1, <1>2, <1>3, <1>4, <1>5
    DEF Agent!ShellAllowed, Agent!Runs, AgentInv, Moves, Agent!modes, Agent!talk, Agent!rights, Agent!face

LEMMA StoppingKeeps ==
    ASSUME AgentInv, NEW t \in Agent!Turns, Agent!At(t, {"running"}), Agent!To(t, "stopping"),
           UNCHANGED <<selected, active, Agent!talk, grants, preauth, consumer, asking, chat, effect>>
    PROVE  AgentInv'
<1>1. Moves(t, {"stopping"})
    BY Moved DEF Agent!Pcs, AgentInv, Moves
<1>2. TurnsInv'
    BY <1>1
    DEF Agent!EffectsAreAllowed, AgentInv, TurnsInv, Moves, Others, Agent!At, Agent!Live, HookPcs,
        TalkPcs, Agent!modes, Agent!talk, Agent!rights, Agent!face
<1>3. AloneInv'
    BY <1>1
    DEF Agent!EffectsAreAllowed, AgentInv, TurnsInv, AloneInv, Moves, Others, Agent!At, Agent!Live,
        HookPcs, TalkPcs, Agent!HookOf, Agent!modes, Agent!talk, Agent!rights, Agent!face
<1>4. Agent!EffectsAreAllowed'
    BY <1>1
    DEF Agent!EffectsAreAllowed, AgentInv, TurnsInv, Agent!EffectsAreAllowed, Agent!modes, Agent!talk,
        Agent!rights, Agent!face, Agent!At, TalkPcs
<1> QED
    BY <1>1, <1>2, <1>3, <1>4
    DEF Agent!EffectsAreAllowed, AgentInv, Moves, Agent!modes, Agent!talk, Agent!rights, Agent!face

LEMMA SubmitKeeps ==
    ASSUME AgentInv, NEW t \in Agent!Turns, Agent!Submit(t) PROVE AgentInv'
<1>1. /\ Typed' /\ run'[t].pc \in {"begin", "prepare"} /\ run'[t].mode = selected
      /\ ~run'[t].ending /\ ~run[t].ending /\ ~Agent!Live(t)
      /\ run'[t].alone <=> \A s \in Agent!Turns : ~Agent!Live(s)
      /\ \A s \in Agent!Turns : s # t => /\ run'[s].pc = run[s].pc /\ run'[s].ending = run[s].ending
                                         /\ Agent!Live(s) => ~run'[s].alone
    <2> DEFINE first == IF selected = "plan" THEN "begin" ELSE "prepare"
    <2> DEFINE company == \E s \in Agent!Turns : Agent!Live(s)
    <2>1. t \in Agent!Turns /\ Typed /\ selected \in Agent!Modes /\ run[t].pc = "idle"
        BY DEF Agent!Submit, AgentInv, Agent!At
    <2>2. \A s \in Agent!Turns : run'[s] =
            IF s = t THEN [Agent!NewRun EXCEPT !.mode = selected, !.alone = ~company, !.pc = first]
            ELSE IF Agent!Live(s) THEN [run[s] EXCEPT !.alone = FALSE] ELSE run[s]
        BY DEF Agent!Submit
    <2>3. DOMAIN run' = Agent!Turns
        BY DEF Agent!Submit
    <2>4. first \in {"begin", "prepare"} /\ company \in BOOLEAN
        OBVIOUS
    <2> HIDE DEF first, company
    <2>5. /\ run'[t] \in RunRecords /\ run'[t].pc = first /\ run'[t].mode = selected
          /\ run'[t].alone = ~company /\ ~run'[t].ending
        <3>1. run'[t] = [Agent!NewRun EXCEPT !.mode = selected, !.alone = ~company, !.pc = first]
            BY <2>1, <2>2
        <3>2. Agent!NewRun \in RunRecords /\ first \in Agent!Pcs /\ (~company) \in BOOLEAN
            BY <2>4, OverTyped DEF Agent!Pcs
        <3> QED BY <2>1, <3>1, <3>2, OverTyped DEF RunRecords
    <2>6. \A s \in Agent!Turns \ {t} :
            /\ run'[s] \in RunRecords /\ run'[s].pc = run[s].pc /\ run'[s].ending = run[s].ending
            /\ Agent!Live(s) => ~run'[s].alone
        BY <2>1, <2>2 DEF RunRecords, Typed
    <2>7. run' = [s \in Agent!Turns |-> run'[s]]
        BY DEF Agent!Submit
    <2>8. Typed'
        BY <2>5, <2>6, <2>7 DEF Typed
    <2>9. ~run[t].ending /\ ~Agent!Live(t)
        BY <2>1 DEF AgentInv, TurnsInv, Agent!At, HookPcs, Agent!Live
    <2>10. company <=> \E s \in Agent!Turns : Agent!Live(s)
        BY DEF company
    <2> QED BY <2>4, <2>5, <2>6, <2>8, <2>9, <2>10
<1>2. /\ messages = <<>> /\ effect = Agent!NoEffect /\ asking # t
      /\ \A s \in Agent!Turns : Agent!Live(s) => run[s].ending /\ ~Agent!At(s, TalkPcs)
    BY NoTalk DEF Agent!Submit, AgentInv, TurnsInv, Agent!At, Agent!Live, HookPcs, TalkPcs
<1>3. consumer' = t /\ active' = selected /\ UNCHANGED <<messages, owed, effect, asking, chat, grants>>
    BY DEF Agent!Submit, Agent!talk, Agent!rights
<1>4. TurnsInv'
    BY <1>1, <1>2, <1>3, NoTalk DEF AgentInv, TurnsInv, Agent!At, Agent!Live, HookPcs, TalkPcs
<1>5. AloneInv'
    <2>1. \A s \in Agent!Turns : Agent!Live(s)' /\ run'[s].alone => s = t
        BY <1>1 DEF Agent!Live, Agent!At
    <2>2. run'[t].alone => \A s \in Agent!Turns : Agent!Live(s)' => s = t
        BY <1>1 DEF Agent!Live, Agent!At
    <2>3. active' = run'[t].mode /\ run'[t].pc \notin {"gate", "hook_asking", "asking"}
        BY <1>1, <1>3
    <2> QED BY <2>1, <2>2, <2>3 DEF AloneInv, Agent!At
<1>6. Agent!EffectsAreAllowed'
    BY <1>2, <1>3
    DEF Agent!Submit, AgentInv, TurnsInv, Agent!EffectsAreAllowed, Agent!modes, Agent!talk, Agent!rights, Agent!face,
        Agent!At, TalkPcs
<1> QED
    BY <1>1, NoTalk, <1>4, <1>5, <1>6
    DEF Agent!Submit, AgentInv, Moves, Agent!modes, Agent!talk, Agent!rights, Agent!face

LEMMA ApproveKeeps ==
    ASSUME AgentInv, NEW t \in Agent!Turns, Agent!Approve(t) PROVE AgentInv'
<1>1. \/ Agent!At(t, {"hook_asking"}) /\ Moves(t, {"hook_running"}) /\ UNCHANGED <<grants, effect>>
      \/ /\ Agent!At(t, {"asking"}) /\ Moves(t, {"running"}) /\ grants \subseteq grants'
         /\ Agent!Runs(t, Head(owed), TRUE)
    <2>1. Agent!At(t, {"asking", "hook_asking"}) /\ Typed
        BY NoTalk DEF Agent!Approve, AgentInv, TurnsInv
    <2>2. CASE Agent!At(t, {"hook_asking"})
        BY <2>1, <2>2, Moved DEF Agent!Approve, Agent!Pcs
    <2>3. CASE ~Agent!At(t, {"hook_asking"})
        <3>1. Agent!To(t, "running") /\ Agent!Runs(t, Head(owed), TRUE)
              /\ \E scope \in Agent!AllowedScopes(Head(owed)) : grants' = Agent!Remembered(scope, Head(owed))
            BY <2>3 DEF Agent!Approve
        <3> QED BY <2>1, <2>3, <3>1, Moved DEF Agent!Remembered, Agent!At, Agent!Pcs
    <2> QED BY <2>2, <2>3
<1>2. Moves(t, {"hook_running", "running"}) /\ (run[t].alone => ~Agent!At(t, {"hook_asking"}))
    BY <1>1 DEF Moves, AgentInv, AloneInv, Agent!Live, Agent!At
<1>3. \A s \in Agent!Turns : run'[s].alone /\ Agent!Live(s)' => s = t
    BY <1>2, NoTalk
    DEF AgentInv, TurnsInv, AloneInv, Moves, Others, Agent!Live, Agent!At, Agent!Approve
<1>4. Agent!Live(t)
    BY <1>1 DEF Agent!At, Agent!Live
<1>5. run[t].alone /\ Agent!At(t, {"asking"}) => AskAllowed(t)
    BY DEF AgentInv, AloneInv, Agent!Live, Agent!At
<1>6. TurnsInv'
    BY <1>1, NoTalk
    DEF Agent!Approve, Agent!Runs, AskAllowed, AgentInv, TurnsInv, Moves, Others, Agent!At, Agent!Live,
        HookPcs, TalkPcs, Agent!modes, Agent!talk, Agent!rights, Agent!face
<1>7. AloneInv'
    <2>1. run[t].alone => \A s \in Agent!Turns : Agent!Live(s)' => s = t
        BY <1>2, <1>4 DEF Agent!Approve, AgentInv, AloneInv, Moves, Others, Agent!Live, Agent!At
    <2>2. run'[t].alone => run[t].alone /\ active' = run'[t].mode
        BY <1>2, <1>4 DEF Agent!Approve, AgentInv, AloneInv, Moves, Agent!Live, Agent!At, Agent!modes
    <2>3. run'[t].pc \notin {"gate", "hook_asking", "asking"}
        BY <1>2 DEF Moves
    <2> QED BY <1>3, <2>1, <2>2, <2>3 DEF AloneInv, Agent!At
<1>8. Agent!EffectsAreAllowed'
    BY <1>1, <1>5
    DEF Agent!Approve, Agent!Runs, AskAllowed, AgentInv, TurnsInv, Agent!EffectsAreAllowed, Agent!modes,
        Agent!talk, Agent!rights, Agent!face, Agent!At, TalkPcs
<1> QED
    BY <1>1, NoTalk, <1>6, <1>7, <1>8
    DEF Agent!Approve, Agent!Runs, AskAllowed, AgentInv, Moves, Agent!modes, Agent!talk, Agent!rights, Agent!face

(* An approval that is refused, and an interrupted turn, wherever they     *)
(* come from.                                                              *)
LEMMA RejectedKeeps ==
    ASSUME AgentInv, NEW t \in Agent!Turns, asking = t, asking' = 0, Agent!Rejected(t),
           UNCHANGED <<selected, grants, chat, effect>>
    PROVE  AgentInv'
<1>1. Agent!At(t, {"asking", "hook_asking"}) /\ 0 # t
    BY NoTalk DEF AgentInv, TurnsInv
<1>2. CASE Agent!At(t, {"hook_asking"})
    BY <1>1, <1>2, HookEndsKeeps DEF Agent!Rejected, Agent!At
<1>3. CASE ~Agent!At(t, {"hook_asking"})
    <2>1. Agent!At(t, {"call", "asking", "running"}) /\ ~Agent!At(t, {"running", "stopping"})
        BY <1>1, <1>3 DEF Agent!At
    <2> QED BY <1>1, <1>3, <2>1, RecordsKeeps DEF Agent!Rejected, Agent!modes, Agent!rights
<1> QED BY <1>2, <1>3

LEMMA InterruptKeeps ==
    ASSUME AgentInv, NEW t \in Agent!Turns, consumer = t, Agent!Interrupt(t), UNCHANGED <<selected, grants, chat>>
    PROVE  AgentInv'
<1> USE DEF Agent!talk, Agent!rights
<1>1. asking # 0 => Agent!At(asking, {"asking", "hook_asking"})
    BY DEF AgentInv, TurnsInv
<1>2. 0 # t
    BY NoTalk
<1>3. CASE Agent!At(t, {"stopping"})
    BY <1>1, <1>2, <1>3, LeavesKeeps DEF Agent!Interrupt, Agent!At, TalkPcs
<1>4. CASE Agent!At(t, {"prepare", "begin"}) /\ Agent!Interrupt(t)
    BY <1>1, <1>2, <1>4, FinishesKeeps
    DEF Agent!Interrupt, Agent!InterruptWait, Agent!At, TalkPcs, Agent!Live
<1>5. CASE Agent!At(t, {"hook", "gate", "hook_asking", "hook_running"})
    BY <1>1, <1>2, <1>5, FinishesKeeps
    DEF Agent!Interrupt, Agent!InterruptWait, Agent!At, TalkPcs, Agent!Live
<1>6. CASE Agent!At(t, {"request", "asking"}) /\ Agent!Leave(t)
           /\ asking' = (IF Agent!At(t, {"asking"}) THEN 0 ELSE asking) /\ UNCHANGED <<preauth, effect>>
    BY <1>1, <1>2, <1>6, LeavesKeeps DEF Agent!At, TalkPcs
<1>7. CASE Agent!At(t, {"running"}) /\ Agent!To(t, "stopping")
           /\ UNCHANGED <<active, Agent!talk, consumer, asking, preauth, effect>>
    BY <1>7, StoppingKeeps
<1>8. CASE Agent!At(t, {"request", "call", "answered"}) /\ Agent!Detach(t) /\ UNCHANGED <<asking, preauth, effect>>
    BY <1>1, <1>2, <1>8, DetachesKeeps DEF Agent!At, TalkPcs
<1> QED BY <1>3, <1>4, <1>5, <1>6, <1>7, <1>8 DEF Agent!Interrupt, Agent!InterruptWait

LEMMA AgentStepKeeps ==
    ASSUME AgentInv, NEW t \in Agent!Turns, Agent!AgentStep(t) PROVE AgentInv'
<1> USE DEF Agent!talk, Agent!rights, Agent!face, Agent!modes
<1>1. asking # 0 => Agent!At(asking, {"asking", "hook_asking"})
    BY DEF AgentInv, TurnsInv
<1>2. 0 # t
    BY NoTalk
<1>3. CASE Agent!HookEnds(t)
    BY <1>1, <1>2, <1>3, HookEndsKeeps DEF Agent!HookEnds, Agent!At
<1>4. CASE Agent!Fails(t) \/ Agent!Exhausted(t)
    BY <1>1, <1>2, <1>4, DetachesKeeps DEF Agent!Fails, Agent!Exhausted, Agent!At, TalkPcs
<1>5. CASE Agent!Refused(t) \/ Agent!ToolEnds(t)
    BY <1>1, <1>2, <1>5, RecordsKeeps DEF Agent!Refused, Agent!ToolEnds, Agent!At
<1>6. CASE Agent!ToolStops(t) \/ Agent!Announced(t)
    BY <1>1, <1>2, <1>6, LeavesKeeps DEF Agent!ToolStops, Agent!Announced, Agent!At, TalkPcs
<1> QED
    BY <1>3, <1>4, <1>5, <1>6, PrepareKeeps, HookStartsKeeps, HookGateKeeps,
       BeginsKeeps, AnswersKeeps,
       CallsKeeps, RunsFreelyKeeps, AsksUserKeeps, ShellAllowedKeeps
    DEF Agent!AgentStep

LEMMA AgentKeeps == AgentInv /\ [Agent!Next]_(Agent!vars) => AgentInv'
<1> SUFFICES ASSUME AgentInv, [Agent!Next]_(Agent!vars) PROVE AgentInv'
    OBVIOUS
<1>1. ASSUME NEW t \in Agent!Turns, Agent!Reject(t) PROVE AgentInv'
    BY <1>1, RejectedKeeps DEF Agent!Reject
<1>2. ASSUME NEW t \in Agent!Turns, Agent!CancelResponse(t) PROVE AgentInv'
    BY <1>2, InterruptKeeps DEF Agent!CancelResponse
<1>3. CASE Agent!Quit /\ asking # 0
    BY <1>3, RejectedKeeps DEF Agent!Quit, AgentInv
<1>4. CASE (Agent!NewChat \/ Agent!Drain) /\ consumer # 0
    BY <1>4, InterruptKeeps DEF Agent!NewChat, Agent!Drain, AgentInv
<1>5. CASE Agent!Cleared
    BY <1>5, NoTalk
    DEF Agent!Cleared, AgentInv, TurnsInv, AloneInv, Agent!EffectsAreAllowed, Agent!At, Agent!Live, TalkPcs,
        Agent!modes,
       Agent!rights, AskAllowed, Agent!HookOf, Typed
<1>6. CASE Agent!CycleMode \/ Agent!Gone \/ UNCHANGED Agent!vars \/ (Agent!Quit /\ asking = 0) \/ ((Agent!NewChat \/ Agent!Drain) /\ consumer = 0)
    <2>1. /\ UNCHANGED <<active, run, Agent!talk, Agent!rights, consumer, asking, chat, effect>> /\ selected' \in Agent!Modes
        BY <1>6
        DEF Agent!CycleMode, Agent!Gone, Agent!vars, Agent!Quit, Agent!NewChat, Agent!Drain, Agent!modes, Agent!face, Agent!NextMode,
            Agent!Modes, AgentInv, Agent!rights
    <2> QED
        BY <2>1
        DEF AgentInv, TurnsInv, AloneInv, Agent!EffectsAreAllowed, Agent!At, Agent!Live, Agent!talk, Agent!rights,
            AskAllowed, Agent!HookOf, Typed
<1>7. CASE Agent!Next
    BY <1>1, <1>2, <1>3, <1>4, <1>5, <1>6, <1>7, AgentStepKeeps, SubmitKeeps,
       ApproveKeeps
    DEF Agent!Next
<1> QED BY <1>6, <1>7

(* What any step does to the messages of the turn.                         *)
TalkMoves ==
    \/ UNCHANGED <<messages, owed, completed>>
    \/ messages' = <<>> /\ owed' = <<>> /\ (completed' > completed => owed = <<>> /\ messages # <<>>)
    \/ messages' = <<Agent!User>> /\ owed' = <<>> /\ UNCHANGED completed
    \/ /\ messages # <<>> /\ owed = <<>> /\ owed' \in Seq(Agent!Tools) \ {<<>>} /\ UNCHANGED completed
       /\ messages' = Append(messages, Agent!Calls(Len(owed')))
    \/ messages # <<>> /\ owed # <<>> /\ Agent!Recorded

LEMMA LeftTalks == ASSUME AgentInv, NEW t \in Agent!Turns, Agent!EndTurn(t) PROVE TalkMoves
BY DEF Agent!EndTurn, Agent!Aborted, TalkMoves, AgentInv

LEMMA RejectedTalks == ASSUME AgentInv, NEW t \in Agent!Turns, asking = t, Agent!Rejected(t) PROVE TalkMoves
<1>1. CASE Agent!At(t, {"hook_asking"})
    BY <1>1 DEF Agent!Rejected, TalkMoves, Agent!talk
<1>2. CASE ~Agent!At(t, {"hook_asking"})
    BY <1>2, NoTalk DEF Agent!Rejected, TalkMoves, AgentInv, TurnsInv, Agent!At, TalkPcs
<1> QED BY <1>1, <1>2

LEMMA InterruptTalks == ASSUME AgentInv, NEW t \in Agent!Turns, Agent!Interrupt(t) PROVE TalkMoves
<1>1. Agent!EndTurn(t) \/ UNCHANGED Agent!talk
    BY DEF Agent!Interrupt, Agent!InterruptWait, Agent!Detach, Agent!Leave
<1> QED BY <1>1, LeftTalks DEF TalkMoves, Agent!talk

LEMMA NextTalks == AgentInv /\ [Agent!Next]_(Agent!vars) => TalkMoves
<1> SUFFICES ASSUME AgentInv, [Agent!Next]_(Agent!vars) PROVE TalkMoves
    OBVIOUS
<1>1. ASSUME NEW t \in Agent!Turns, Agent!AgentStep(t) PROVE TalkMoves
    <2>1. CASE Agent!Begin(t)
        BY <2>1 DEF Agent!Begin, TalkMoves, Agent!talk
    <2>2. CASE Agent!Fails(t) \/ Agent!Exhausted(t) \/ Agent!ToolStops(t) \/ Agent!Announced(t)
        BY <2>2, LeftTalks DEF Agent!Fails, Agent!Exhausted, Agent!ToolStops, Agent!Announced, Agent!Detach, Agent!Leave
    <2>3. CASE Agent!Answers(t)
        BY <2>3 DEF Agent!Answers, Agent!Completed, TalkMoves
    <2>4. CASE Agent!CallsTools(t)
        <3>1. messages # <<>> /\ owed = <<>>
            BY <2>4 DEF Agent!CallsTools, AgentInv, TurnsInv, Agent!At, TalkPcs
        <3> QED BY <2>4, <3>1 DEF Agent!CallsTools, TalkMoves, AgentInv, CallsAreBatches
    <2>5. CASE Agent!Refused(t) \/ Agent!ToolEnds(t)
        BY <2>5 DEF Agent!Refused, Agent!ToolEnds, AgentInv, TurnsInv, Agent!At, TalkPcs, TalkMoves
    <2>6. CASE \/ Agent!Prepare(t) \/ Agent!HookStarts(t) \/ Agent!HookGate(t) \/ Agent!HookEnds(t)
               \/ Agent!RunsFreely(t) \/ Agent!AsksUser(t) \/ Agent!ShellAllowed(t)
        BY <2>6
        DEF Agent!Prepare, Agent!HookStarts, Agent!HookGate, Agent!HookEnds, Agent!RunsFreely, Agent!AsksUser, Agent!ShellAllowed, TalkMoves, Agent!talk
    <2> QED BY <1>1, <2>1, <2>2, <2>3, <2>4, <2>5, <2>6 DEF Agent!AgentStep
<1>2. ASSUME NEW t \in Agent!Turns, Agent!Submit(t) \/ Agent!Approve(t) PROVE TalkMoves
    BY <1>2 DEF Agent!Submit, Agent!Approve, TalkMoves, Agent!talk
<1>3. ASSUME NEW t \in Agent!Turns, Agent!Reject(t) \/ Agent!CancelResponse(t) PROVE TalkMoves
    BY <1>3, RejectedTalks, InterruptTalks DEF Agent!Reject, Agent!CancelResponse
<1>4. CASE Agent!NewChat \/ Agent!Drain \/ Agent!Quit
    BY <1>4, RejectedTalks, InterruptTalks
    DEF Agent!NewChat, Agent!Drain, Agent!Quit, TalkMoves, Agent!talk, AgentInv
<1>5. CASE Agent!Cleared
    BY <1>5 DEF Agent!Cleared, TalkMoves, AgentInv
<1>6. CASE Agent!CycleMode \/ Agent!Gone \/ UNCHANGED Agent!vars
    BY <1>6 DEF Agent!CycleMode, Agent!Gone, Agent!vars, TalkMoves, Agent!talk
<1> QED BY <1>1, <1>2, <1>3, <1>4, <1>5, <1>6 DEF Agent!Next

(* What is appended to the messages leaves the others alone; a batch waits *)
(* for its results, a result fills it, and a text closes the turn.         *)
LEMMA Added ==
    ASSUME NEW m \in Seq(Messages), m # <<>>, NEW x \in Messages
    PROVE  LET n == Len(m) IN
           /\ n \in Nat \ {0} /\ Len(Append(m, x)) = n + 1 /\ Append(m, x)[n + 1] = x
           /\ Append(m, x) # <<>>
           /\ \A i \in 1..n : Append(m, x)[i] = m[i] /\ m[i] \in Messages
           /\ \A i \in 1..n : m[i].role = "calls" => m[i].calls \in Nat \ {0}
<1>1. Len(m) \in Nat \ {0}
    BY EmptySeq
<1>2. \A y \in Messages : y.role = "calls" => y.calls \in Nat \ {0}
    BY DEF Messages, Agent!User, Agent!Result, Agent!Calls
<1> QED BY <1>1, <1>2, AppendProperties

LEMMA OpensOn ==
    ASSUME NEW m, NEW new, NEW n \in Nat \ {0}, Len(m) = n, Len(new) = n + 1,
           \A i \in 1..n : new[i] = m[i], new[n + 1] # Agent!User, n = 1 => new[n + 1] # Agent!Result,
           NEW a, NEW b, Opens(m, a)
    PROVE  Opens(new, b)
BY DEF Opens

LEMMA AnsweredOn ==
    ASSUME NEW m, NEW new, NEW n \in Nat \ {0}, Len(m) = n, Len(new) = n + 1,
           \A i \in 1..n : new[i] = m[i],
           NEW a \in Nat, NEW b \in Nat, NEW i \in 1..n, NEW last \in Nat, Answered(m, i, last, a),
           IF a = 0 THEN new[n + 1] # Agent!Result ELSE b = a - 1 /\ new[n + 1] = Agent!Result
    PROVE  Answered(new, i, last, b)
BY DEF Answered

LEMMA Batched ==
    ASSUME NEW m, NEW new, NEW n \in Nat \ {0}, Len(m) = n, Len(new) = n + 1,
           \A i \in 1..n : new[i] = m[i],
           \A i \in 1..n : m[i].role = "calls" => m[i].calls \in Nat \ {0},
           NEW k \in Nat \ {0}, new[n + 1] = Agent!Calls(k), Waits(m, 0)
    PROVE  Waits(new, k)
<1>1. Agent!Calls(k) # Agent!User /\ Agent!Calls(k) # Agent!Result /\ Agent!Calls(k).calls = k
    BY DEF Agent!Calls, Agent!User, Agent!Result
<1>2. Opens(new, k)
    BY <1>1, OpensOn DEF Waits
<1>3. ASSUME NEW i \in 1..Len(new), new[i].role = "calls"
      PROVE  Answered(new, i, i + new[i].calls, k)
    <2>1. CASE i = n + 1
        BY <1>1, <2>1 DEF Answered
    <2>2. CASE i \in 1..n
        <3>1. PICK last \in Nat : last = i + m[i].calls /\ last = i + new[i].calls
            BY <1>3, <2>2
        <3>2. Answered(m, i, last, 0)
            BY <1>3, <2>2, <3>1 DEF Waits
        <3>3. Answered(new, i, last, k)
            BY <1>1, <2>2, <3>2, AnsweredOn
        <3> QED BY <3>1, <3>3
    <2> QED BY <2>1, <2>2
<1> QED BY <1>2, <1>3 DEF Waits

LEMMA Filled ==
    ASSUME NEW m, NEW new, NEW n \in Nat \ {0}, Len(m) = n, Len(new) = n + 1,
           \A i \in 1..n : new[i] = m[i],
           \A i \in 1..n : m[i].role = "calls" => m[i].calls \in Nat \ {0},
           NEW k \in Nat \ {0}, new[n + 1] = Agent!Result, Waits(m, k)
    PROVE  Waits(new, k - 1)
<1>1. Agent!Result # Agent!User /\ Agent!Result.role # "calls"
    BY DEF Agent!User, Agent!Result
<1>2. n # 1
    BY DEF Waits, Opens
<1>3. Opens(new, k - 1)
    BY <1>1, <1>2, OpensOn DEF Waits
<1>4. ASSUME NEW i \in 1..Len(new), new[i].role = "calls"
      PROVE  Answered(new, i, i + new[i].calls, k - 1)
    <2>1. i \in 1..n /\ m[i].role = "calls"
        BY <1>1, <1>4
    <2>2. PICK last \in Nat : last = i + m[i].calls /\ last = i + new[i].calls
        BY <2>1
    <2>3. Answered(m, i, last, k)
        BY <2>1, <2>2 DEF Waits
    <2>4. Answered(new, i, last, k - 1)
        BY <2>1, <2>3, AnsweredOn
    <2> QED BY <2>2, <2>4
<1> QED BY <1>3, <1>4 DEF Waits

LEMMA Closed ==
    ASSUME NEW m, NEW new, NEW n \in Nat \ {0}, Len(m) = n, Len(new) = n + 1,
           \A i \in 1..n : new[i] = m[i] /\ (m[i] # Agent!User => m[i].role \in {"calls", "tool"}),
           \A i \in 1..n : m[i].role = "calls" => m[i].calls \in Nat \ {0},
           new[n + 1] = Agent!Text, Waits(m, 0)
    PROVE  Agent!WellFormed(new)
<1>1. Agent!Text # Agent!Result /\ Agent!Text.role # "calls" /\ Agent!Last(new) = Agent!Text
    BY DEF Agent!Text, Agent!Result, Agent!Last
<1>2. new[1] = Agent!User /\ new[2] # Agent!Result /\ \A i \in 2..n : new[i].role \in {"calls", "tool"}
    BY <1>1 DEF Waits, Opens
<1>3. ASSUME NEW i \in 1..n + 1, new[i].role = "calls"
      PROVE  /\ i + new[i].calls < Len(new)
             /\ \A j \in i + 1..i + new[i].calls : new[j] = Agent!Result
             /\ new[i + new[i].calls + 1] # Agent!Result
    <2>1. i \in 1..n /\ m[i].role = "calls"
        BY <1>1, <1>3
    <2>2. PICK c \in Nat \ {0} : c = m[i].calls /\ new[i].calls = c
        BY <2>1
    <2>3. Answered(m, i, i + c, 0)
        BY <2>1, <2>2 DEF Waits
    <2> QED BY <1>1, <2>1, <2>2, <2>3 DEF Answered
<1> QED BY <1>1, <1>2, <1>3 DEF Agent!WellFormed

(* The messages of a turn wait for exactly the results that are owed.      *)
LEMMA PendingKeeps == AgentInv /\ PendingInv /\ [Agent!Next]_(Agent!vars) => PendingInv'
<1> SUFFICES ASSUME AgentInv, PendingInv, TalkMoves PROVE PendingInv'
    BY NextTalks
<1>1. CASE messages' = <<>> \/ UNCHANGED <<messages, owed, completed>>
    BY <1>1 DEF PendingInv
<1>2. CASE messages' = <<Agent!User>> /\ owed' = <<>>
    BY <1>2 DEF PendingInv, Agent!User, Waits, Opens
<1>3. CASE /\ messages # <<>> /\ owed = <<>> /\ owed' \in Seq(Agent!Tools) \ {<<>>}
           /\ messages' = Append(messages, Agent!Calls(Len(owed')))
    <2>1. PICK k \in Nat \ {0} : k = Len(owed') /\ messages' = Append(messages, Agent!Calls(k))
        BY <1>3, OwedTail
    <2>2. Waits(messages, 0) /\ messages \in Seq(Messages) /\ Agent!Calls(k) \in Messages
        BY <1>3 DEF PendingInv, AgentInv, Messages
    <2>3. LET n == Len(messages) IN
          /\ n \in Nat \ {0} /\ Len(messages') = n + 1 /\ messages'[n + 1] = Agent!Calls(k)
          /\ \A i \in 1..n : messages'[i] = messages[i]
          /\ \A i \in 1..n : messages[i].role = "calls" => messages[i].calls \in Nat \ {0}
        BY <1>3, <2>1, <2>2, Added
    <2>4. Waits(messages', k)
        BY <2>2, <2>3, Batched
    <2> QED BY <2>1, <2>4 DEF PendingInv
<1>4. CASE messages # <<>> /\ owed # <<>> /\ Agent!Recorded
    <2>1. owed \in Seq(Agent!Tools) /\ Len(owed) \in Nat \ {0} /\ Len(Tail(owed)) = Len(owed) - 1
        BY <1>4, EmptySeq, HeadTailProperties DEF AgentInv
    <2>2. Waits(messages, Len(owed)) /\ messages \in Seq(Messages)
        BY <1>4 DEF PendingInv, AgentInv
    <2>3. Agent!Result \in Messages
        BY DEF Messages
    <2>4. messages' = Append(messages, Agent!Result) /\ owed' = Tail(owed)
        BY <1>4 DEF Agent!Recorded
    <2>5. Waits(messages', Len(owed) - 1)
        BY <1>4, <2>1, <2>2, <2>3, <2>4, Added, Filled
    <2> QED BY <2>1, <2>4, <2>5 DEF PendingInv
<1> QED BY <1>1, <1>2, <1>3, <1>4 DEF TalkMoves

(* A turn that is completed is a well-formed one.                          *)
LEMMA TurnsEndWhole ==
    AgentInv /\ PendingInv /\ [Agent!Next]_(Agent!vars)
    => (completed' > completed => Agent!WellFormed(Append(messages, Agent!Text)))
<1> SUFFICES ASSUME AgentInv, PendingInv, TalkMoves, completed' > completed
             PROVE  Agent!WellFormed(Append(messages, Agent!Text))
    BY NextTalks
<1>1. messages # <<>> /\ owed = <<>> /\ Len(owed) = 0
    BY DEF TalkMoves, AgentInv, Agent!Recorded
<1>2. messages \in Seq(Messages) /\ Waits(messages, 0)
    BY <1>1 DEF PendingInv, AgentInv
<1>3. \A x \in Messages : /\ x.role = "calls" => x.calls \in Nat \ {0}
                          /\ x # Agent!User => x.role \in {"calls", "tool"}
    BY DEF Messages, Agent!User, Agent!Result, Agent!Calls
<1>4. LET n == Len(messages) IN
      /\ n \in Nat \ {0} /\ Len(Append(messages, Agent!Text)) = n + 1 /\ Append(messages, Agent!Text)[n + 1] = Agent!Text
      /\ \A i \in 1..n : Append(messages, Agent!Text)[i] = messages[i] /\ messages[i] \in Messages
    <2>1. messages \in Seq(Messages \cup {Agent!Text})
        BY <1>2
    <2> QED BY <1>1, <1>2, <2>1, EmptySeq, AppendProperties
<1> QED BY <1>2, <1>3, <1>4, Closed

(* run, _submit_prompt, the approval slot: the turns of one chat do not    *)
(* overlap in the history or at the slot, whatever is cancelled or left.   *)
THEOREM OneTurnAlways ==
    ASSUME CallsAreBatches PROVE Agent!Spec => []Agent!OneTurnAtATime
<1>1. Agent!Init => AgentInv
    BY StartsWell
<1>2. AgentInv => Agent!OneTurnAtATime
    <2>1. AgentInv => Agent!PendingHasOwner
        BY DEF AgentInv, TurnsInv, Agent!PendingHasOwner, TalkPcs
    <2>2. AgentInv => Agent!WaitersHoldTheSlot
        BY NoTalk DEF AgentInv, TurnsInv, AloneInv, Agent!WaitersHoldTheSlot, Agent!Live, Agent!At
    <2> QED BY <2>1, <2>2 DEF Agent!OneTurnAtATime
<1> QED BY <1>1, <1>2, AgentKeeps, PTL DEF Agent!Spec

(* _execute_tool_call, _authorize_tool, the mode's policy: a tool runs     *)
(* only in a mode that allows it and with an approval that covers it.      *)
THEOREM EffectsAlwaysAllowed ==
    ASSUME CallsAreBatches PROVE Agent!Spec => []Agent!EffectsAreAllowed
<1>1. Agent!Init => AgentInv
    BY StartsWell
<1>2. AgentInv => Agent!EffectsAreAllowed
    BY DEF AgentInv
<1> QED BY <1>1, <1>2, AgentKeeps, PTL DEF Agent!Spec

(* AgentState.complete_turn: a turn enters the history only with a result  *)
(* for every call its model has made, in order, and a text at its end.     *)
THEOREM HistoryAlwaysWhole ==
    ASSUME CallsAreBatches PROVE Agent!Spec => Agent!HistoryIsWhole
<1>1. Agent!Init => AgentInv /\ PendingInv
    BY StartsWell
<1>2. AgentInv /\ PendingInv /\ [Agent!Next]_(Agent!vars)
      => [completed' > completed => Agent!WellFormed(Append(messages, Agent!Text))]_(Agent!vars)
    BY TurnsEndWhole
<1> QED BY <1>1, <1>2, AgentKeeps, PendingKeeps, PTL DEF Agent!Spec, Agent!HistoryIsWhole

-----------------------------------------------------------------------------
(* A world moves its component and leaves the others alone: to each of     *)
(* them, a behaviour of all is one of its own.                             *)
LEMMA WorldsStart ==
    MCInit => Agent!Init /\ Stored!Init /\ Saved!Init /\ Files!Init /\ Account!Init
              /\ Noted!Init /\ Secret!Init /\ Context!Init
BY DEF MCInit

LEMMA WorldsMove ==
    ASSUME [MCNext]_allVars
    PROVE  /\ [Agent!Next]_(Agent!vars) /\ [Stored!Next]_(Stored!vars)
           /\ [Saved!Next]_(Saved!vars) /\ [Files!Next]_(Files!vars)
           /\ [Account!Next]_(Account!vars) /\ [Noted!Next]_(Noted!vars)
           /\ [Secret!Next]_(Secret!vars) /\ [Context!Next]_(Context!vars)
<1>1. /\ UNCHANGED agentVars => UNCHANGED Agent!vars
      /\ UNCHANGED storedVars => UNCHANGED Stored!vars
      /\ UNCHANGED savedVars => UNCHANGED Saved!vars
      /\ UNCHANGED fileVars => UNCHANGED Files!vars
      /\ UNCHANGED accountVars => UNCHANGED Account!vars
      /\ UNCHANGED notedVars => UNCHANGED Noted!vars
      /\ UNCHANGED secretVars => UNCHANGED Secret!vars
      /\ UNCHANGED contextVars => UNCHANGED Context!vars
    BY DEF agentVars, storedVars, savedVars, fileVars, accountVars, notedVars,
       secretVars, contextVars, Noted!vars, Secret!vars, Context!vars, Agent!vars,
       Agent!modes, Agent!talk, Agent!rights, Agent!face, Stored!vars, Saved!vars,
       Files!vars, Account!vars, Account!picker
<1>2. CASE UNCHANGED allVars
    BY <1>1, <1>2 DEF allVars
<1>3. CASE MCNext
    BY <1>1, <1>3, Zenon DEF MCNext
<1> QED BY <1>2, <1>3

LEMMA WorldsAreTheirs ==
    MCSpec => Agent!Spec /\ Stored!Spec /\ Saved!Spec /\ Files!Spec /\ Account!Spec
              /\ Noted!Spec /\ Secret!Spec /\ Context!Spec
<1>1. [MCNext]_allVars =>
        /\ [Agent!Next]_(Agent!vars) /\ [Stored!Next]_(Stored!vars)
        /\ [Saved!Next]_(Saved!vars) /\ [Files!Next]_(Files!vars)
        /\ [Account!Next]_(Account!vars) /\ [Noted!Next]_(Noted!vars)
        /\ [Secret!Next]_(Secret!vars) /\ [Context!Next]_(Context!vars)
    BY WorldsMove
<1> QED
    BY <1>1, WorldsStart, PTL
    DEF MCSpec, Agent!Spec, Stored!Spec, Saved!Spec, Files!Spec, Account!Spec,
        Noted!Spec, Secret!Spec, Context!Spec

-----------------------------------------------------------------------------
(* What MCInteraction checks of them.                                      *)

LEMMA AgentCalls == CallsAreBatches
BY InteractionAssumption DEF CallsAreBatches

(* OneTurnAtATime of MCInteraction: no message, no question and no turn    *)
(* slot of one turn is another's, whatever is cancelled.                   *)
THEOREM TurnsNeverOverlap == MCSpec => []OneTurnAtATime
BY AgentCalls, OneTurnAlways, WorldsAreTheirs, PTL DEF OneTurnAtATime

(* EffectsAreAllowed of MCInteraction: a tool runs only in a mode that     *)
(* allows it and with an approval that covers it.                          *)
THEOREM EffectsAlwaysCovered == MCSpec => []EffectsAreAllowed
BY AgentCalls, EffectsAlwaysAllowed, WorldsAreTheirs, PTL DEF EffectsAreAllowed

(* HistoryIsWhole of MCInteraction: a turn enters the history with a       *)
(* result for every call, in order.                                        *)
THEOREM HistoryStaysWhole == MCSpec => HistoryIsWhole
BY AgentCalls, HistoryAlwaysWhole, WorldsAreTheirs, PTL DEF HistoryIsWhole

(* StoredIsConversation of MCInteraction: what is stored of a session is a *)
(* prefix of what its window shows.                                        *)
THEOREM StoredStaysConversation == MCSpec => []StoredIsConversation
BY StoredAlwaysConversation, WorldsAreTheirs, PTL DEF StoredIsConversation

(* SignInIsHonest of MCInteraction: no token without the user's approval,  *)
(* no listener that is left, no poll that comes too early.                 *)
THEOREM SignInStaysHonest == MCSpec => SignInIsHonest
BY SignInAlwaysHonest, WorldsAreTheirs, PTL DEF SignInIsHonest

(* WorkIsKept of MCInteraction: a restore can be undone, half a restore    *)
(* too, and an edit loses nothing it could have seen.                      *)
THEOREM WorkAlwaysKept == MCSpec => WorkIsKept
BY RestoresAlwaysUndoable, EditsAlwaysLoseNothing, WorldsAreTheirs, PTL
DEF WorkIsKept

(* StoresAreKept of MCInteraction: a correction of a note takes nothing    *)
(* else, and what was said to be stored is, and is found again.            *)
THEOREM StoresAlwaysKept == MCSpec => StoresAreKept
<1>1. Noted!Spec => Noted!MemoryIsKept
    BY InteractionAssumption, MemoryAlwaysKept
<1> QED
    BY <1>1, CredentialsAlwaysKept, WorldsAreTheirs, PTL DEF StoresAreKept

(* ContextIsSound of MCInteraction: the request is the longest history     *)
(* that fits, and a turn that gets nowhere is told so, and no other.       *)
THEOREM ContextStaysSound == MCSpec => []ContextIsSound
<1>1. SizesGiven
    BY InteractionAssumption DEF SizesGiven, SizesAreNat
<1>2. Context!Spec => [](Context!RequestIsBest /\ Context!StallsAreSeen)
    BY <1>1, ContextAlwaysSound
<1> QED
    BY <1>2, WorldsAreTheirs, PTL DEF ContextIsSound
=============================================================================
