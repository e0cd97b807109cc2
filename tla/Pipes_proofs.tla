----------------------------- MODULE Pipes_proofs -----------------------------
(***************************************************************************)
(* What crosses the border of a process arrives whole, for any messages    *)
(* and framings, programs and arguments, and any output and values to      *)
(* redact.                                                                 *)
(***************************************************************************)
EXTENDS Pipes, SequenceTheorems, WellFoundedInduction, TLAPS

-----------------------------------------------------------------------------
(* Sequences and numbers.                                                  *)
LEMMA Joining ==
    ASSUME NEW S, NEW r \in Seq(S), NEW s \in Seq(S), NEW t \in Seq(S)
    PROVE  (r \o s) \o t = r \o (s \o t) /\ r \o s \in Seq(S)
BY ConcatAssociative

LEMMA HasLeast ==
    ASSUME NEW T, T \subseteq Nat, T # {}
    PROVE  \E n \in T : \A m \in T : n <= m
<1> DEFINE R == {ss \in Nat \X Nat : ss[1] < ss[2]}
<1>1. OpToRel(<, Nat) = R
    BY DEF OpToRel
<1>2. IsWellFoundedOn(R, Nat)
    BY NatLessThanWellFounded, <1>1
<1>3. \E x \in T : \A y \in T : ~(<<y, x>> \in R)
    <2> HIDE DEF R
    <2> QED BY <1>2, WFMin, Zenon
<1>4. PICK x \in T : \A y \in T : ~(<<y, x>> \in R)
    BY <1>3
<1>5. ASSUME NEW m \in T PROVE x <= m
    <2>1. m \in Nat /\ x \in Nat /\ ~(<<m, x>> \in R)
        BY <1>4
    <2>2. ~(m < x)
        BY <2>1
    <2> QED BY <2>1, <2>2
<1> QED BY <1>4, <1>5

LEMMA InductionOverASet ==
    ASSUME NEW S, 0 \in S, \A n \in Nat : n \in S => n + 1 \in S
    PROVE  Nat \subseteq S
<1> SUFFICES ASSUME Nat \ S # {} PROVE FALSE
    OBVIOUS
<1>1. PICK n \in Nat \ S : \A m \in Nat \ S : n <= m
    <2> DEFINE T == Nat \ S
    <2>1. T \subseteq Nat /\ T # {}
        OBVIOUS
    <2> HIDE DEF T
    <2>2. \E n \in T : \A m \in T : n <= m
        BY <2>1, HasLeast
    <2> QED BY <2>2 DEF T
<1>2. n # 0
    OBVIOUS
<1>3. n - 1 \in Nat /\ ~(n <= n - 1)
    BY <1>2
<1>4. n - 1 \in S
    BY <1>1, <1>3
<1> QED BY <1>3, <1>4

-----------------------------------------------------------------------------
(* The framing of messages: what is still on the wire is, in order, the    *)
(* rest of what was said, with noise only where the framing allows it.     *)
Bytes == {"nl", " ", "t"} \cup {Frames!Digits[i] : i \in 1..10} \cup
         UNION {{message[i] : i \in DOMAIN message} : message \in Bodies}

LEMMA FrameGiven ==
    /\ framing \in Framings => framing \in {"line", "header", "frame"}
    /\ FrameBytes \in Nat /\ 2 <= FrameBytes /\ FrameBytes <= 9
<1>1. framing \in Framings => framing \in {"line", "header", "frame"}
    BY FramesAssumption
<1>2. FrameBytes \in 2..9
    BY Zenon, FramesAssumption
<1> QED BY <1>1, <1>2

LEMMA Marks == {"nl", " ", "t"} \subseteq Bytes
BY Zenon DEF Bytes

LEMMA BodyBytes ==
    ASSUME NEW message \in Bodies
    PROVE  message \in Seq(Bytes) /\ Len(message) > 0
<1>1. message \in Seq(STRING) /\ message # <<>>
    BY FramesAssumption
<1>2. ASSUME NEW i \in 1..Len(message) PROVE message[i] \in Bytes
    <2>1. message[i] \in {message[j] : j \in DOMAIN message}
        BY <1>1
    <2> QED BY <2>1 DEF Bytes
<1> QED BY <1>1, <1>2, IsASeq, LenProperties, EmptySeq

LEMMA NoiseBytes ==
    ASSUME NEW noise \in Noise
    PROVE  noise \in Seq(Bytes) /\ \A i \in 1..Len(noise) : noise[i] \in {"nl", " "}
<1>1. noise \in Seq({"nl", " "})
    BY FramesAssumption
<1>2. \A i \in 1..Len(noise) : noise[i] \in {"nl", " "}
    BY <1>1, ElementOfSeq
<1>5. noise \in Seq(Bytes)
    <2>1. {"nl", " "} \subseteq Bytes
        BY Marks
    <2> QED BY <1>1, <2>1, SeqMonotonic
<1> QED BY <1>2, <1>5

LEMMA NoiseFits ==
    ASSUME framing = "line", framing \in Framings, NEW noise \in Noise
    PROVE  /\ Len(noise) <= FrameBytes
           /\ \A message \in Bodies : Len(message) <= FrameBytes => Len(noise) + Len(message) <= FrameBytes
BY FramesAssumption, Zenon

LEMMA DigitFacts ==
    ASSUME NEW n \in 0..9
    PROVE  Frames!Digit(n) \in Bytes /\ Frames!Number(Frames!Digit(n)) = n /\ Frames!Digit(n) # "t"
<1>1. n + 1 \in 1..10
    OBVIOUS
<1>2. Frames!Digit(n) \in Bytes
    BY <1>1 DEF Frames!Digit, Bytes
<1>3. \A m \in 0..9 : Frames!Digit(m) = Frames!Digit(n) => m = n
    BY DEF Frames!Digit, Frames!Digits
<1>4. Frames!Digit(n) # "t"
    BY DEF Frames!Digit, Frames!Digits
<1> QED BY <1>2, <1>3, <1>4 DEF Frames!Number

LEMMA EncodedBytes ==
    ASSUME NEW message \in Bodies, Len(message) <= FrameBytes, framing \in Framings
    PROVE  /\ Frames!Encoded(message) \in Seq(Bytes)
           /\ framing = "line" =>
                /\ Len(Frames!Encoded(message)) = Len(message) + 1
                /\ \A i \in 1..Len(message) : Frames!Encoded(message)[i] = message[i]
                /\ Frames!Encoded(message)[Len(message) + 1] = "nl"
           /\ framing = "header" =>
                /\ Len(Frames!Encoded(message)) = Len(message) + 3
                /\ Frames!Encoded(message)[1] = Frames!Digit(Len(message))
                /\ Frames!Encoded(message)[2] = "t" /\ Frames!Encoded(message)[3] = "t"
                /\ \A i \in 1..Len(message) : Frames!Encoded(message)[i + 3] = message[i]
           /\ framing = "frame" =>
                /\ Len(Frames!Encoded(message)) = Len(message) + 1
                /\ Frames!Encoded(message)[1] = Frames!Digit(Len(message))
                /\ \A i \in 1..Len(message) : Frames!Encoded(message)[i + 1] = message[i]
           /\ framing \in {"line", "header", "frame"}
           /\ Len(message) \in 1..9
<1>0. message \in Seq(Bytes)
    BY BodyBytes
<1>1. Len(message) \in 1..9 /\ framing \in {"line", "header", "frame"}
    <2>1. Len(message) \in Nat /\ Len(message) > 0
        BY BodyBytes, LenProperties
    <2>2. FrameBytes \in Nat /\ 2 <= FrameBytes /\ FrameBytes <= 9
        BY FrameGiven
    <2>3. Len(message) \in 1..9
        <3> DEFINE n == Len(message)
        <3>1. n \in Nat /\ n > 0 /\ n <= FrameBytes
            BY <2>1
        <3> HIDE DEF n
        <3>2. n \in 1..9
            BY <2>2, <3>1
        <3> QED BY <3>2 DEF n
    <2>4. framing \in {"line", "header", "frame"}
        BY FrameGiven
    <2> QED BY <2>3, <2>4
<1>2. Frames!Digit(Len(message)) \in Bytes /\ "nl" \in Bytes /\ "t" \in Bytes
    <2>1. "nl" \in Bytes /\ "t" \in Bytes
        BY Marks
    <2>2. Frames!Digit(Len(message)) \in Bytes
        <3> DEFINE n == Len(message)
        <3>1. n \in 0..9
            BY <1>1
        <3> HIDE DEF n
        <3>2. Frames!Digit(n) \in Bytes
            BY <3>1, DigitFacts
        <3> QED BY <3>2 DEF n
    <2> QED BY <2>1, <2>2
<1> HIDE DEF Bytes
<1>3. /\ <<"nl">> \in Seq(Bytes)
      /\ <<Frames!Digit(Len(message)), "t", "t">> \in Seq(Bytes) /\ <<Frames!Digit(Len(message))>> \in Seq(Bytes)
    BY <1>2
<1> QED BY <1>0, <1>1, <1>3 DEF Frames!Encoded

(* What is in the buffer: noise, and then a message as far as it has come.   *)
Begins(a, message) ==
    /\ a \in Nat /\ message \in Bodies /\ Len(message) <= FrameBytes
    /\ framing = "line" => a + Len(message) <= FrameBytes
    /\ framing # "line" => a = 0
    /\ \A i \in 1..Len(unread) :
          /\ i <= a => unread[i] \in {"nl", " "}
          /\ a < i /\ i <= a + Len(Frames!Encoded(message)) => unread[i] = Frames!Encoded(message)[i - a]

Whole(a, message) == a + Len(Frames!Encoded(message))

TakesRight(a, message) ==
    /\ Frames!Taken.bad => ~Frames!Valid(message)
    /\ ~Frames!Taken.bad /\ Frames!Taken.found =>
          /\ Frames!Taken.body = message /\ Frames!Taken.used = Whole(a, message)
          /\ Whole(a, message) <= Len(unread)
    /\ ~Frames!Taken.bad /\ ~Frames!Taken.found =>
          /\ Frames!Taken.used \in Nat /\ Frames!Taken.used <= a
          /\ Frames!Taken.used <= Len(unread)
          /\ Frames!Taken.used = 0 => Len(unread) < Whole(a, message)

LEMMA FoundFacts ==
    ASSUME NEW message, NEW used
    PROVE  IF Frames!Valid(message) THEN /\ Frames!Found(message, used).found = TRUE /\ Frames!Found(message, used).bad = FALSE
                                         /\ Frames!Found(message, used).body = message
                                         /\ Frames!Found(message, used).used = used
                          ELSE Frames!Found(message, used).bad = TRUE /\ Frames!Found(message, used).found = FALSE
BY DEF Frames!Found, Frames!Bad, Frames!Nothing

LEMMA OtherFacts ==
    /\ Frames!Nothing.bad = FALSE /\ Frames!Nothing.found = FALSE
    /\ Frames!Nothing.used = 0
    /\ Frames!Bad.bad = TRUE /\ Frames!Bad.found = FALSE
    /\ \A n : LET r == [Frames!Nothing EXCEPT !.used = n]
              IN  r.bad = FALSE /\ r.found = FALSE /\ r.used = n
BY DEF Frames!Bad, Frames!Nothing

LEMMA FrameTakes ==
    ASSUME framing = "frame", framing \in Framings, unread \in Seq(Bytes),
           NEW a, NEW message, Begins(a, message)
    PROVE  TakesRight(a, message)
<1>1. Frames!Taken = Frames!NextFrame
    BY DEF Frames!Taken
<1>2. PICK n \in 1..9 : n = Len(message) /\ Len(Frames!Encoded(message)) = n + 1 /\ Frames!Encoded(message)[1] = Frames!Digit(n)
        /\ \A i \in 1..n : Frames!Encoded(message)[i + 1] = message[i]
    BY EncodedBytes DEF Begins
<1>3. /\ a = 0 /\ n <= FrameBytes /\ FrameBytes \in Nat /\ message \in Seq(Bytes)
      /\ Whole(a, message) = n + 1
    <2>1. a = 0 /\ message \in Bodies /\ n <= FrameBytes
        BY <1>2 DEF Begins
    <2>2. Whole(a, message) = n + 1
        BY <1>2, <2>1 DEF Whole
    <2> QED BY <2>1, <2>2, FrameGiven, BodyBytes
<1>4. PICK b \in Nat : b = Len(unread)
    BY LenProperties
<1>5. CASE unread = <<>>
    <2>1. b = 0
        BY <1>4, <1>5
    <2>2. Frames!NextFrame = Frames!Nothing
        BY <1>5 DEF Frames!NextFrame
    <2> QED BY <1>1, <1>3, <1>4, <2>1, <2>2, OtherFacts DEF TakesRight
<1>6. CASE unread # <<>>
    <2>1. b > 0
        BY <1>4, <1>6, EmptySeq
    <2>2. \A i \in 1..b : i <= n + 1 => unread[i] = Frames!Encoded(message)[i]
        <3> TAKE i \in 1..b
        <3>1. a < i /\ i <= a + Len(Frames!Encoded(message)) => unread[i] = Frames!Encoded(message)[i - a]
            BY <1>4 DEF Begins
        <3>2. i - 0 = i /\ a < i /\ (i <= n + 1 => i <= a + (n + 1))
            BY <1>3
        <3> QED BY <1>2, <1>3, <3>1, <3>2
    <2>3. unread[1] = Frames!Digit(n)
        BY <2>1, <2>2, <1>2
    <2>4. Frames!Number(unread[1]) = n
        BY <2>3, DigitFacts
    <2>5. n \in 1..FrameBytes
        BY <1>3
    <2>6. CASE b < 1 + n
        <3>1. Frames!NextFrame = Frames!Nothing
            BY <1>4, <1>6, <2>4, <2>5, <2>6 DEF Frames!NextFrame
        <3> QED BY <1>1, <1>3, <1>4, <2>6, <3>1, OtherFacts DEF TakesRight
    <2>7. CASE 1 + n <= b
        <3>1. Frames!NextFrame = Frames!Found(SubSeq(unread, 2, 1 + n), 1 + n)
            BY <1>4, <1>6, <2>4, <2>5, <2>7 DEF Frames!NextFrame
        <3>2. /\ SubSeq(unread, 2, 1 + n) \in Seq(Bytes)
              /\ Len(SubSeq(unread, 2, 1 + n)) = n
              /\ \A i \in 1..n : SubSeq(unread, 2, 1 + n)[i] = unread[i + 1]
            BY <1>4, <2>7
        <3>3. SubSeq(unread, 2, 1 + n) = message
            <4>1. \A i \in 1..n : SubSeq(unread, 2, 1 + n)[i] = message[i]
                BY <1>2, <2>2, <2>7, <3>2
            <4> QED BY <1>2, <1>3, <3>2, <4>1, SeqEqual
        <3>4. Frames!NextFrame = Frames!Found(message, 1 + n)
            BY <3>1, <3>3
        <3>5. IF Frames!Valid(message) THEN Frames!Taken.found /\ ~Frames!Taken.bad /\ Frames!Taken.body = message /\ Frames!Taken.used = 1 + n
                             ELSE Frames!Taken.bad
            BY <1>1, <3>4, FoundFacts, Zenon
        <3> QED BY <1>3, <1>4, <2>7, <3>5 DEF TakesRight
    <2> QED BY <2>6, <2>7
<1> QED BY <1>5, <1>6

LEMMA LeastIs ==
    ASSUME NEW T, NEW n \in T, T \subseteq Nat, \A j \in T : n <= j
    PROVE  (CHOOSE i \in T : \A j \in T : i <= j) = n
<1> DEFINE m == CHOOSE i \in T : \A j \in T : i <= j
<1>1. m \in T /\ \A j \in T : m <= j
    OBVIOUS
<1> HIDE DEF m
<1>2. m <= n /\ n <= m /\ m \in Nat /\ n \in Nat
    BY <1>1
<1>3. m = n
    BY <1>2
<1> QED BY <1>3 DEF m

LEMMA GreatestIs ==
    ASSUME NEW T, NEW n \in T, T \subseteq Nat, \A j \in T : j <= n
    PROVE  (CHOOSE i \in T : \A j \in T : j <= i) = n
<1> DEFINE m == CHOOSE i \in T : \A j \in T : j <= i
<1>1. m \in T /\ \A j \in T : j <= m
    OBVIOUS
<1> HIDE DEF m
<1>2. m <= n /\ n <= m /\ m \in Nat /\ n \in Nat
    BY <1>1
<1>3. m = n
    BY <1>2
<1> QED BY <1>3 DEF m

LEMMA HeadedTakes ==
    ASSUME framing = "header", framing \in Framings, unread \in Seq(Bytes),
           NEW a, NEW message, Begins(a, message)
    PROVE  TakesRight(a, message)
<1>1. Frames!Taken = Frames!NextHeaded
    BY DEF Frames!Taken
<1>2. PICK n \in 1..9 : /\ n = Len(message) /\ Len(Frames!Encoded(message)) = n + 3
                        /\ Frames!Encoded(message)[1] = Frames!Digit(n)
                        /\ Frames!Encoded(message)[2] = "t"
                        /\ Frames!Encoded(message)[3] = "t"
                        /\ \A i \in 1..n : Frames!Encoded(message)[i + 3] = message[i]
    BY EncodedBytes DEF Begins
<1>3. /\ a = 0 /\ n <= FrameBytes /\ FrameBytes \in Nat /\ 2 <= FrameBytes
      /\ message \in Seq(Bytes) /\ Whole(a, message) = n + 3
    <2>1. a = 0 /\ message \in Bodies /\ n <= FrameBytes
        BY <1>2 DEF Begins
    <2>2. Whole(a, message) = n + 3
        BY <1>2, <2>1 DEF Whole
    <2> QED BY <2>1, <2>2, FrameGiven, BodyBytes
<1>4. PICK b \in Nat : b = Len(unread)
    BY LenProperties
<1>5. \A i \in 1..b : i <= n + 3 => unread[i] = Frames!Encoded(message)[i]
    <2> TAKE i \in 1..b
    <2>1. a < i /\ i <= a + Len(Frames!Encoded(message)) => unread[i] = Frames!Encoded(message)[i - a]
        BY <1>4 DEF Begins
    <2>2. i - 0 = i /\ a < i /\ (i <= n + 3 => i <= a + (n + 3))
        BY <1>3
    <2> QED BY <1>2, <1>3, <2>1, <2>2
<1>6. b >= 1 => unread[1] = Frames!Digit(n)
    BY <1>2, <1>5
<1>7. Frames!Ends \subseteq Nat /\ \A j \in Frames!Ends : 3 <= j
    <2>1. ASSUME NEW j \in Frames!Ends PROVE j \in Nat /\ 3 <= j
        <3>1. j \in 2..b /\ unread[j - 1] = "t"
            BY <1>4 DEF Frames!Ends
        <3>2. j # 2
            BY <1>6, <3>1, DigitFacts
        <3> QED BY <3>1, <3>2
    <2> QED BY <2>1
<1>8. CASE b < 3
    <2>1. Frames!Ends = {}
        <3> SUFFICES ASSUME NEW j \in Frames!Ends PROVE FALSE
            OBVIOUS
        <3>1. j \in 2..b /\ 3 <= j
            BY <1>4, <1>7 DEF Frames!Ends
        <3> QED BY <1>8, <3>1
    <2>2. ~(b > FrameBytes)
        BY <1>3, <1>8
    <2>3. Frames!NextHeaded = Frames!Nothing
        BY <1>4, <2>1, <2>2 DEF Frames!NextHeaded
    <2> QED BY <1>1, <1>3, <1>4, <1>8, <2>3, OtherFacts DEF TakesRight
<1>9. CASE 3 <= b
    <2>1. 3 \in Frames!Ends
        <3>1. unread[2] = "t" /\ unread[3] = "t"
            BY <1>2, <1>5, <1>9
        <3>2. 3 \in 2..Len(unread) /\ 3 - 1 = 2
            BY <1>4, <1>9
        <3> QED BY <3>1, <3>2 DEF Frames!Ends
    <2>2. (CHOOSE i \in Frames!Ends : \A j \in Frames!Ends : i <= j) = 3
        BY <1>7, <2>1, LeastIs
    <2>3. Frames!Number(unread[1]) = n
        BY <1>6, <1>9, DigitFacts
    <2>4. ~(n > FrameBytes) /\ Frames!Ends # {}
        BY <1>3, <2>1
    <2>5. Frames!NextHeaded = IF b < 3 + n THEN Frames!Nothing
                       ELSE Frames!Found(SubSeq(unread, 4, 3 + n), 3 + n)
        <3>1. Frames!NextHeaded = IF Len(unread) < 3 + n THEN Frames!Nothing
                           ELSE Frames!Found(SubSeq(unread, 3 + 1, 3 + n), 3 + n)
            <4> DEFINE end == CHOOSE i \in Frames!Ends : \A j \in Frames!Ends : i <= j
            <4>1. Frames!NextHeaded =
                    IF Frames!Ends = {} THEN IF Len(unread) > FrameBytes THEN Frames!Bad ELSE Frames!Nothing
                    ELSE IF Frames!Number(unread[1]) > FrameBytes THEN Frames!Bad
                    ELSE IF Len(unread) < end + Frames!Number(unread[1]) THEN Frames!Nothing
                    ELSE Frames!Found(SubSeq(unread, end + 1, end + Frames!Number(unread[1])), end + Frames!Number(unread[1]))
                BY Zenon DEF Frames!NextHeaded
            <4>2. end = 3
                BY <2>2
            <4> HIDE DEF end
            <4> QED BY <2>3, <2>4, <4>1, <4>2
        <3> QED BY <1>4, <3>1
    <2>6. CASE b < 3 + n
        BY <1>1, <1>3, <1>4, <2>5, <2>6, OtherFacts DEF TakesRight
    <2>7. CASE 3 + n <= b
        <3>1. Frames!NextHeaded = Frames!Found(SubSeq(unread, 4, 3 + n), 3 + n)
            BY <2>5, <2>7
        <3>2. /\ SubSeq(unread, 4, 3 + n) \in Seq(Bytes)
              /\ Len(SubSeq(unread, 4, 3 + n)) = n
              /\ \A i \in 1..n : SubSeq(unread, 4, 3 + n)[i] = unread[i + 3]
            BY <1>4, <2>7
        <3>3. SubSeq(unread, 4, 3 + n) = message
            <4>1. \A i \in 1..n : SubSeq(unread, 4, 3 + n)[i] = message[i]
                BY <1>2, <1>5, <2>7, <3>2
            <4> QED BY <1>2, <1>3, <3>2, <4>1, SeqEqual
        <3>4. Frames!NextHeaded = Frames!Found(message, 3 + n)
            BY <3>1, <3>3
        <3>5. IF Frames!Valid(message) THEN Frames!Taken.found /\ ~Frames!Taken.bad /\ Frames!Taken.body = message /\ Frames!Taken.used = 3 + n
                             ELSE Frames!Taken.bad
            BY <1>1, <3>4, FoundFacts, Zenon
        <3> QED BY <1>3, <1>4, <2>7, <3>5 DEF TakesRight
    <2> QED BY <2>6, <2>7
<1> QED BY <1>8, <1>9

LEMMA StripBlank ==
    ASSUME NEW row, \A i \in DOMAIN row : row[i] = " "
    PROVE  Frames!Stripped(row) = <<>>
BY DEF Frames!Stripped

LEMMA Within ==
    ASSUME NEW a \in Nat, NEW n \in Nat, n > 0
    PROVE  /\ \A j \in 1..(a + n) : j \notin 1..a => j \in Nat /\ a + 1 <= j /\ j <= a + n
           /\ a + 1 \in 1..(a + n) /\ a + n \in 1..(a + n) /\ 1 \in 1..n /\ n \in 1..n
           /\ \A i \in 1..n : a + i = (a + 1) + i - 1
           /\ (a + n) - (a + 1) + 1 = n /\ a + 1 <= a + n + 1 /\ a + n <= a + n
           /\ a + n \in Nat
OBVIOUS

LEMMA Piece ==
    ASSUME NEW S, NEW s \in Seq(S), NEW a \in Nat, NEW n \in Nat, a + n <= Len(s)
    PROVE  /\ SubSeq(s, a + 1, a + n) \in Seq(S) /\ Len(SubSeq(s, a + 1, a + n)) = n
           /\ \A i \in 1..n : SubSeq(s, a + 1, a + n)[i] = s[a + i]
OBVIOUS

LEMMA PieceIs ==
    ASSUME NEW S, NEW s \in Seq(S), NEW t \in Seq(S), NEW a \in Nat, NEW n \in Nat, a + n <= Len(s),
           Len(t) = n, \A i \in 1..n : t[i] = s[a + i]
    PROVE  SubSeq(s, a + 1, a + n) = t
BY Piece, SeqEqual

Padded(row, a, n, message) ==
    /\ n > 0 /\ n = Len(message) /\ Len(row) = a + n
    /\ message[1] # " " /\ message[n] # " "
    /\ \A i \in 1..a : row[i] = " "
    /\ \A i \in 1..n : message[i] = row[a + i]

LEMMA StripLine ==
    ASSUME NEW row \in Seq(Bytes), NEW message \in Seq(Bytes), NEW a \in Nat, NEW n \in Nat,
           Padded(row, a, n, message)
    PROVE  Frames!Stripped(row) = message
<1> DEFINE kept == {i \in DOMAIN row : row[i] # " "}
<1>1. DOMAIN row = 1..(a + n) /\ n > 0
    BY LenProperties DEF Padded
<1>2. a + 1 \in kept /\ a + n \in kept
    BY <1>1, Within DEF Padded
<1>3. kept \subseteq Nat /\ \A j \in kept : a + 1 <= j /\ j <= a + n
    <2>1. ASSUME NEW j \in kept PROVE j \in Nat /\ a + 1 <= j /\ j <= a + n
        <3>1. j \in 1..(a + n) /\ j \notin 1..a
            BY <1>1 DEF Padded
        <3> QED BY <1>1, <3>1, Within
    <2> QED BY <2>1
<1>4. Frames!Stripped(row) = SubSeq(row, CHOOSE i \in kept : \A j \in kept : i <= j,
                                    CHOOSE i \in kept : \A j \in kept : j <= i)
    BY <1>2 DEF Frames!Stripped
<1> HIDE DEF kept
<1>5. Frames!Stripped(row) = SubSeq(row, a + 1, a + n)
    BY <1>2, <1>3, <1>4, LeastIs, GreatestIs
<1>6. a + n <= Len(row)
    <2>1. Len(row) = a + n
        BY DEF Padded
    <2> QED BY <1>1, <2>1, Within
<1>7. SubSeq(row, a + 1, a + n) = message
    BY <1>6, PieceIs DEF Padded
<1> QED BY <1>5, <1>7

LEMMA LineBodies ==
    ASSUME framing = "line", framing \in Framings, NEW message \in Bodies
    PROVE  /\ message[1] # " " /\ message[Len(message)] # " "
           /\ \A i \in 1..Len(message) : message[i] # "nl"
<1>1. message \in Seq(Bytes)
    BY BodyBytes
<1>2. DOMAIN message = 1..Len(message)
    BY <1>1, LenProperties
<1>3. /\ message[1] # " " /\ message[Len(message)] # " "
      /\ \A i \in DOMAIN message : message[i] # "nl"
    BY FramesAssumption, Zenon
<1> QED BY <1>2, <1>3

Newlines == {i \in DOMAIN unread : unread[i] = "nl"}
FirstEnd == CHOOSE i \in Newlines : \A j \in Newlines : i <= j

LEMMA NextLineIs ==
    Frames!NextLine =
        IF Newlines = {} THEN IF Len(unread) > FrameBytes THEN Frames!Bad ELSE Frames!Nothing
        ELSE IF Frames!Stripped(SubSeq(unread, 1, FirstEnd - 1)) = <<>> THEN [Frames!Nothing EXCEPT !.used = FirstEnd]
        ELSE IF Len(Frames!Stripped(SubSeq(unread, 1, FirstEnd - 1))) > FrameBytes THEN Frames!Bad
        ELSE Frames!Found(Frames!Stripped(SubSeq(unread, 1, FirstEnd - 1)), FirstEnd)
BY Zenon DEF Frames!NextLine, Newlines, FirstEnd

NoiseTo(a) == \A i \in DOMAIN unread : i <= a => unread[i] \in {"nl", " "}

(* A blank line is passed over.                                            *)
LEMMA BlankLine ==
    ASSUME framing = "line", unread \in Seq(Bytes), NEW a \in Nat,
           NEW n \in Newlines, n <= a, NoiseTo(a)
    PROVE  /\ Frames!Taken.bad = FALSE /\ Frames!Taken.found = FALSE
           /\ Frames!Taken.used \in 1..a /\ Frames!Taken.used <= Len(unread)
<1>1. Frames!Taken = Frames!NextLine
    BY DEF Frames!Taken
<1>2. PICK b \in Nat : b = Len(unread) /\ DOMAIN unread = 1..b
    BY LenProperties
<1>3. Newlines \subseteq 1..b /\ Newlines # {}
    BY <1>2 DEF Newlines
<1>4. FirstEnd \in Newlines /\ \A j \in Newlines : FirstEnd <= j
    <2>1. Newlines \subseteq Nat
        BY <1>2, <1>3
    <2>2. \E i \in Newlines : \A j \in Newlines : i <= j
        BY <1>3, <2>1, HasLeast
    <2> QED BY <2>2 DEF FirstEnd
<1>5. PICK m \in Nat : FirstEnd = m + 1 /\ m + 1 <= a /\ m + 1 <= b
    <2>1. PICK e \in 1..b : e = FirstEnd
        BY <1>3, <1>4
    <2>2. n \in 1..b /\ e <= n
        BY <1>3, <1>4, <2>1
    <2>3. e - 1 \in Nat /\ e = (e - 1) + 1 /\ e <= a
        BY <1>2, <2>2
    <2> QED BY <2>1, <2>3
<1>6. Frames!Stripped(SubSeq(unread, 1, m)) = <<>>
    <2>1. /\ DOMAIN SubSeq(unread, 1, m) = 1..m
          /\ \A i \in 1..m : SubSeq(unread, 1, m)[i] = unread[i]
        BY <1>2, <1>5
    <2>2. ASSUME NEW i \in 1..m PROVE unread[i] = " "
        <3>1. i \in 1..b /\ i <= a /\ ~(m + 1 <= i)
            BY <1>2, <1>5
        <3>2. i \notin Newlines
            BY <1>4, <1>5, <3>1
        <3> QED BY <1>2, <3>1, <3>2 DEF Newlines, NoiseTo
    <2> QED BY <2>1, <2>2, StripBlank
<1>7. FirstEnd - 1 = m /\ m + 1 \in 1..a
    BY <1>5
<1>8. Frames!Taken = [Frames!Nothing EXCEPT !.used = m + 1]
    BY <1>1, <1>3, <1>5, <1>6, <1>7, NextLineIs
<1>9. /\ Frames!Taken.bad = FALSE /\ Frames!Taken.found = FALSE
      /\ Frames!Taken.used = m + 1
    BY <1>8, OtherFacts
<1> QED BY <1>2, <1>5, <1>7, <1>9

LEMMA LineTakes ==
    ASSUME framing = "line", framing \in Framings, unread \in Seq(Bytes),
           NEW a, NEW message, Begins(a, message)
    PROVE  TakesRight(a, message)
<1>1. Frames!Taken = Frames!NextLine
    BY DEF Frames!Taken
<1>2. PICK n \in 1..9 : /\ n = Len(message) /\ Len(Frames!Encoded(message)) = n + 1
                        /\ Frames!Encoded(message)[n + 1] = "nl"
                        /\ \A i \in 1..n : Frames!Encoded(message)[i] = message[i]
    BY EncodedBytes DEF Begins
<1>3. /\ a \in Nat /\ message \in Bodies /\ message \in Seq(Bytes)
      /\ Whole(a, message) = a + (n + 1)
    BY <1>2, BodyBytes DEF Begins, Whole
<1>4. a + n <= FrameBytes /\ n <= FrameBytes /\ FrameBytes \in Nat
    BY <1>2, FrameGiven DEF Begins
<1>5. PICK b \in Nat : b = Len(unread) /\ DOMAIN unread = 1..b
    BY LenProperties
<1>6. \A i \in 1..b : i <= a => unread[i] \in {"nl", " "}
    BY <1>5 DEF Begins
<1>7. \A j \in 1..(n + 1) : a + j <= b => unread[a + j] = Frames!Encoded(message)[j]
    <2> TAKE j \in 1..(n + 1)
    <2> HAVE a + j <= b
    <2>1. a + j \in 1..b /\ a < a + j /\ a + j <= a + (n + 1) /\ (a + j) - a = j
        BY <1>3
    <2> QED BY <1>2, <1>5, <2>1 DEF Begins
<1>8. CASE \E i \in Newlines : i <= a
    <2>1. /\ Frames!Taken.bad = FALSE /\ Frames!Taken.found = FALSE
          /\ Frames!Taken.used \in 1..a /\ Frames!Taken.used <= Len(unread)
        <3>1. NoiseTo(a)
            BY <1>5, <1>6 DEF NoiseTo
        <3> QED BY <1>3, <1>8, <3>1, BlankLine
    <2> QED BY <1>3, <2>1 DEF TakesRight
<1>9. CASE ~\E i \in Newlines : i <= a
    <2>1. ASSUME NEW i \in Newlines PROVE i \in Nat /\ a + (n + 1) <= i /\ i <= b
        <3>1. i \in 1..b /\ unread[i] = "nl" /\ ~(i <= a)
            BY <1>5, <1>9 DEF Newlines
        <3>2. SUFFICES ASSUME ~(a + (n + 1) <= i) PROVE FALSE
            BY <3>1
        <3>3. i - a \in 1..n /\ i - a \in 1..(n + 1) /\ a + (i - a) = i
            BY <1>3, <3>1, <3>2
        <3>4. a + (i - a) <= b
            BY <3>1, <3>3
        <3>5. unread[i] = message[i - a]
            BY <1>2, <1>7, <3>3, <3>4
        <3> QED BY <1>2, <1>3, <3>1, <3>3, <3>5, LineBodies
    <2>2. CASE b < a + (n + 1)
        <3>1. Newlines = {}
            <4> SUFFICES ASSUME NEW i \in Newlines PROVE FALSE
                OBVIOUS
            <4> QED BY <1>3, <2>1, <2>2
        <3>2. ~(b > FrameBytes)
            BY <1>3, <1>4, <2>2
        <3>3. Frames!Taken = Frames!Nothing
            BY <1>1, <1>5, <3>1, <3>2, NextLineIs
        <3> QED BY <1>3, <1>5, <2>2, <3>3, OtherFacts DEF TakesRight
    <2>3. CASE a + (n + 1) <= b
        <3>1. a + (n + 1) \in Newlines
            BY <1>2, <1>3, <1>5, <1>7, <2>3 DEF Newlines
        <3>2. FirstEnd = a + (n + 1) /\ Newlines # {}
            <4>1. Newlines \subseteq Nat /\ \A i \in Newlines : a + (n + 1) <= i
                BY <2>1
            <4> QED BY <3>1, <4>1, LeastIs DEF FirstEnd
        <3>3. FirstEnd - 1 = a + n
            BY <1>3, <3>2
        <3>4. Frames!Stripped(SubSeq(unread, 1, a + n)) = message
            <4> DEFINE front == SubSeq(unread, 1, a + n)
            <4>1. /\ front \in Seq(Bytes) /\ Len(front) = a + n
                  /\ \A i \in 1..(a + n) : front[i] = unread[i]
                BY <1>3, <1>5, <2>3
            <4> HIDE DEF front
            <4>2. \A i \in 1..a : front[i] = " "
                <5> TAKE i \in 1..a
                <5>1. i \in 1..b /\ i <= a /\ i \in 1..(a + n)
                    BY <1>3, <2>3
                <5>2. i \notin Newlines
                    BY <1>9, <5>1
                <5>3. unread[i] # "nl" /\ unread[i] \in {"nl", " "}
                    BY <1>5, <1>6, <5>1, <5>2 DEF Newlines
                <5> QED BY <4>1, <5>1, <5>3
            <4>3. \A i \in 1..n : message[i] = front[a + i]
                <5> TAKE i \in 1..n
                <5>1. a + i \in 1..(a + n) /\ a + i <= b /\ i \in 1..(n + 1)
                    BY <1>3, <2>3
                <5> QED BY <1>2, <1>7, <4>1, <5>1
            <4>4. Padded(front, a, n, message)
                <5>1. message[1] # " " /\ message[n] # " "
                    BY <1>2, <1>3, LineBodies
                <5>2. n > 0
                    OBVIOUS
                <5> QED BY <1>2, <4>1, <4>2, <4>3, <5>1, <5>2, Zenon DEF Padded
            <4>5. Frames!Stripped(front) = message
                BY <1>3, <4>1, <4>4, StripLine
            <4> QED BY <4>5 DEF front
        <3>5. message # <<>> /\ ~(Len(message) > FrameBytes)
            BY <1>2, <1>3, <1>4, BodyBytes
        <3>6. Frames!Taken = Frames!Found(message, a + (n + 1))
            BY <1>1, <3>2, <3>3, <3>4, <3>5, NextLineIs
        <3>7. IF Frames!Valid(message) THEN Frames!Taken.found /\ ~Frames!Taken.bad /\ Frames!Taken.body = message /\ Frames!Taken.used = a + (n + 1)
                             ELSE Frames!Taken.bad
            BY <3>6, FoundFacts, Zenon
        <3> QED BY <1>3, <1>5, <2>3, <3>7 DEF TakesRight
    <2> QED BY <1>3, <2>2, <2>3
<1> QED BY <1>8, <1>9

LEMMA NoiseTakes ==
    ASSUME framing = "line", unread \in Seq(Bytes), NEW a \in Nat, NoiseTo(a),
           Len(unread) <= a, Len(unread) <= FrameBytes
    PROVE  /\ Frames!Taken.bad = FALSE /\ Frames!Taken.found = FALSE
           /\ Frames!Taken.used \in Nat /\ Frames!Taken.used <= a
           /\ Frames!Taken.used <= Len(unread)
<1>1. PICK b \in Nat : b = Len(unread) /\ DOMAIN unread = 1..b
    BY LenProperties
<1>2. CASE Newlines = {}
    <2>1. Frames!Taken = Frames!Nothing
        <3>1. ~(b > FrameBytes)
            BY <1>1, FrameGiven
        <3> QED BY <1>1, <1>2, <3>1, NextLineIs DEF Frames!Taken
    <2> QED BY <1>1, <2>1, OtherFacts
<1>3. CASE Newlines # {}
    <2>1. PICK n \in Newlines : n \in 1..b
        BY <1>1, <1>3 DEF Newlines
    <2>2. n <= a
        BY <1>1, <2>1
    <2>3. /\ Frames!Taken.bad = FALSE /\ Frames!Taken.found = FALSE
          /\ Frames!Taken.used \in 1..a /\ Frames!Taken.used <= Len(unread)
        BY <2>1, <2>2, BlankLine
    <2> QED BY <2>3
<1> QED BY <1>2, <1>3

LEMMA EmptyTakes ==
    ASSUME framing \in {"header", "frame"}, unread = <<>>
    PROVE  Frames!Taken = Frames!Nothing
<1>1. Frames!Ends = {} /\ Len(unread) = 0
    BY DEF Frames!Ends
<1>2. ~(0 > FrameBytes)
    BY FrameGiven
<1> QED BY <1>1, <1>2 DEF Frames!Taken, Frames!NextHeaded, Frames!NextFrame

-----------------------------------------------------------------------------
(* Where on the wire each message ends that has not been taken yet.        *)
Ordered(p, n) == p \in [0..n -> Nat] /\ \A i, j \in 0..n : i <= j => p[i] <= p[j]

Holds(w, f, t, message) ==
    t = f + Len(Frames!Encoded(message)) /\ \A i \in 1..Len(Frames!Encoded(message)) : w[f + i] = Frames!Encoded(message)[i]

Noisy(w, a) ==
    /\ a = 0 \/ (framing = "line" /\ \E noise \in Noise : a <= Len(noise))
    /\ \A i \in 1..a : w[i] \in {"nl", " "}

Cuts(p, n, w, s, k) ==
    /\ k \in Nat /\ n \in Nat /\ Len(s) = k + n
    /\ Ordered(p, n) /\ p[n] = Len(w)
    /\ \A j \in 1..n : Holds(w, p[j - 1], p[j], s[k + j])
    /\ Noisy(w, p[0])

Messages == {s \in Seq(Bodies) : \A i \in 1..Len(s) : Len(s[i]) <= FrameBytes}

LEMMA RestIs ==
    ASSUME NEW w \in Seq(Bytes), NEW u \in Nat, NEW b \in Nat, b = Len(w), u <= b
    PROVE  /\ Frames!Rest(w, u) \in Seq(Bytes) /\ Len(Frames!Rest(w, u)) = b - u
           /\ \A i \in 1..(b - u) : Frames!Rest(w, u)[i] = w[u + i]
BY DEF Frames!Rest

LEMMA HoldsShift ==
    ASSUME NEW w \in Seq(Bytes), NEW u \in Nat, NEW f \in Nat, NEW t \in Nat, NEW b \in Nat,
           b = Len(w), u <= f, f <= t, t <= b, NEW message, Len(Frames!Encoded(message)) \in Nat,
           Holds(w, f, t, message)
    PROVE  Holds(Frames!Rest(w, u), f - u, t - u, message)
<1>1. PICK e \in Nat : e = Len(Frames!Encoded(message))
    OBVIOUS
<1>2. t = f + e /\ \A i \in 1..e : w[f + i] = Frames!Encoded(message)[i]
    BY <1>1 DEF Holds
<1>3. u <= b
    OBVIOUS
<1>4. \A i \in 1..(b - u) : Frames!Rest(w, u)[i] = w[u + i]
    BY <1>3, RestIs
<1>5. ASSUME NEW i \in 1..e PROVE Frames!Rest(w, u)[(f - u) + i] = Frames!Encoded(message)[i]
    <2>1. (f - u) + i \in 1..(b - u) /\ u + ((f - u) + i) = f + i
        BY <1>2
    <2>2. Frames!Rest(w, u)[(f - u) + i] = w[f + i]
        BY <1>4, <2>1
    <2> QED BY <1>2, <2>2
<1>6. t - u = (f - u) + e
    BY <1>2
<1> QED BY <1>1, <1>5, <1>6 DEF Holds

LEMMA EncodedLength ==
    ASSUME framing \in Framings, NEW s \in Messages, NEW j \in 1..Len(s)
    PROVE  /\ s[j] \in Bodies /\ Len(s[j]) <= FrameBytes
           /\ Frames!Encoded(s[j]) \in Seq(Bytes) /\ Len(Frames!Encoded(s[j])) \in Nat
           /\ Len(Frames!Encoded(s[j])) > 0
<1>1. s[j] \in Bodies /\ Len(s[j]) <= FrameBytes
    BY DEF Messages
<1>2. PICK n \in 1..9 : n = Len(s[j])
    BY <1>1, EncodedBytes
<1>3. /\ Frames!Encoded(s[j]) \in Seq(Bytes)
      /\ Len(Frames!Encoded(s[j])) \in {n + 1, n + 3}
    BY <1>1, <1>2, EncodedBytes
<1> QED BY <1>1, <1>3

(* The bytes before u are taken: all of them noise.                        *)
LEMMA CutsDrop ==
    ASSUME framing \in Framings, NEW p, NEW n, NEW w \in Seq(Bytes), NEW s \in Messages, NEW k,
           Cuts(p, n, w, s, k), NEW u \in Nat, u <= p[0]
    PROVE  \E q : Cuts(q, n, Frames!Rest(w, u), s, k)
<1>1. k \in Nat /\ n \in Nat /\ Len(s) = k + n /\ p \in [0..n -> Nat]
    BY DEF Cuts, Ordered
<1>2. PICK b \in Nat : b = Len(w) /\ b = p[n]
    BY <1>1, LenProperties DEF Cuts
<1>3. \A j \in 0..n : u <= p[j] /\ p[j] <= b /\ p[j] \in Nat
    BY <1>1, <1>2 DEF Cuts, Ordered
<1> DEFINE q == [j \in 0..n |-> p[j] - u]
<1>4. Ordered(q, n) /\ q[n] = b - u /\ q[0] = p[0] - u
    BY <1>1, <1>2, <1>3 DEF Cuts, Ordered
<1>5. /\ Len(Frames!Rest(w, u)) = b - u
      /\ \A i \in 1..(b - u) : Frames!Rest(w, u)[i] = w[u + i]
    <2>1. u <= b
        BY <1>1, <1>3
    <2> QED BY <1>2, <2>1, RestIs
<1>6. ASSUME NEW j \in 1..n
      PROVE  Holds(Frames!Rest(w, u), q[j - 1], q[j], s[k + j])
    <2>1. j - 1 \in 0..n /\ j \in 0..n /\ j - 1 <= j /\ k + j \in 1..(k + n)
        BY <1>1
    <2>2. p[j - 1] <= p[j] /\ Holds(w, p[j - 1], p[j], s[k + j])
        BY <2>1 DEF Cuts, Ordered
    <2>3. Len(Frames!Encoded(s[k + j])) \in Nat
        BY <1>1, <2>1, EncodedLength
    <2>4. Holds(Frames!Rest(w, u), p[j - 1] - u, p[j] - u, s[k + j])
        BY <1>2, <1>3, <2>1, <2>2, <2>3, HoldsShift
    <2> QED BY <2>1, <2>4
<1>7. Noisy(Frames!Rest(w, u), q[0])
    <2>1. p[0] \in Nat /\ p[0] <= b
        BY <1>1, <1>3
    <2>2. ASSUME NEW i \in 1..(p[0] - u) PROVE Frames!Rest(w, u)[i] \in {"nl", " "}
        <3>1. i \in 1..(b - u) /\ u + i \in 1..p[0]
            BY <2>1
        <3> QED BY <1>5, <3>1 DEF Cuts, Noisy
    <2>3. p[0] - u = 0 \/ (framing = "line" /\ \E noise \in Noise : p[0] - u <= Len(noise))
        <3>1. CASE p[0] = 0
            BY <3>1
        <3>2. CASE p[0] # 0
            <4>1. framing = "line"
                BY <3>2 DEF Cuts, Noisy
            <4> PICK noise \in Noise : p[0] <= Len(noise)
                BY <3>2 DEF Cuts, Noisy
            <4>2. Len(noise) \in Nat
                BY NoiseBytes, LenProperties
            <4> QED BY <2>1, <4>1, <4>2
        <3> QED BY <3>1, <3>2
    <2> QED BY <1>4, <2>2, <2>3 DEF Noisy
<1> HIDE DEF q
<1>8. Cuts(q, n, Frames!Rest(w, u), s, k)
    BY <1>1, <1>4, <1>5, <1>6, <1>7 DEF Cuts
<1> QED BY <1>8

(* The first message is taken.                                             *)
LEMMA CutsTake ==
    ASSUME framing \in Framings, NEW p, NEW n, NEW w \in Seq(Bytes), NEW s \in Messages, NEW k,
           Cuts(p, n, w, s, k), n > 0
    PROVE  \E q : Cuts(q, n - 1, Frames!Rest(w, p[1]), s, k + 1)
<1>1. k \in Nat /\ n \in Nat /\ Len(s) = k + n /\ p \in [0..n -> Nat]
    BY DEF Cuts, Ordered
<1>2. PICK b \in Nat : b = Len(w) /\ b = p[n]
    BY <1>1, LenProperties DEF Cuts
<1>3. PICK u \in Nat : u = p[1]
    BY <1>1
<1>4. \A j \in 1..n : u <= p[j] /\ p[j] <= b /\ p[j] \in Nat
    <2> TAKE j \in 1..n
    <2>1. j \in 0..n /\ 1 \in 0..n /\ n \in 0..n /\ 1 <= j /\ j <= n
        BY <1>1
    <2> QED BY <1>1, <1>2, <1>3, <2>1 DEF Cuts, Ordered
<1>5. n - 1 \in Nat /\ (n - 1) + 1 = n /\ k + 1 \in Nat /\ Len(s) = (k + 1) + (n - 1)
    BY <1>1
<1> DEFINE q == [j \in 0..(n - 1) |-> p[j + 1] - u]
<1>6. \A j \in 0..(n - 1) : j + 1 \in 1..n /\ q[j] = p[j + 1] - u
    BY <1>1
<1>7. Ordered(q, n - 1)
    <2>1. ASSUME NEW j \in 0..(n - 1) PROVE q[j] \in Nat
        BY <1>4, <1>6
    <2>2. ASSUME NEW i \in 0..(n - 1), NEW j \in 0..(n - 1), i <= j PROVE q[i] <= q[j]
        <3>1. i + 1 \in 0..n /\ j + 1 \in 0..n /\ i + 1 <= j + 1
            BY <1>1, <2>2
        <3>2. p[i + 1] <= p[j + 1]
            BY <3>1 DEF Cuts, Ordered
        <3> QED BY <1>4, <1>6, <3>2
    <2>3. q \in [0..(n - 1) -> Nat]
        BY <2>1
    <2> QED BY <2>2, <2>3 DEF Ordered
<1>8. q[n - 1] = b - u /\ q[0] = 0
    <2>1. q[n - 1] = p[n] - u /\ q[0] = p[1] - u
        BY <1>5, <1>6
    <2> QED BY <1>2, <1>3, <2>1
<1>9. Len(Frames!Rest(w, u)) = b - u
    <2>1. u <= b
        BY <1>1, <1>4
    <2> QED BY <1>2, <2>1, RestIs
<1>10. ASSUME NEW j \in 1..(n - 1)
      PROVE  Holds(Frames!Rest(w, u), q[j - 1], q[j], s[(k + 1) + j])
    <2>1. /\ j \in 1..n /\ j + 1 \in 1..n /\ j \in 0..n /\ j + 1 \in 0..n /\ j <= j + 1
          /\ k + (j + 1) \in 1..(k + n) /\ (k + 1) + j = k + (j + 1)
          /\ j - 1 \in 0..(n - 1) /\ j \in 0..(n - 1) /\ (j + 1) - 1 = j
          /\ (j - 1) + 1 = j
        BY <1>1
    <2>2. p[j] <= p[j + 1] /\ Holds(w, p[j], p[j + 1], s[k + (j + 1)])
        BY <2>1 DEF Cuts, Ordered
    <2>3. Len(Frames!Encoded(s[k + (j + 1)])) \in Nat
        BY <1>1, <2>1, EncodedLength
    <2>4. Holds(Frames!Rest(w, u), p[j] - u, p[j + 1] - u, s[k + (j + 1)])
        BY <1>2, <1>4, <2>1, <2>2, <2>3, HoldsShift
    <2> QED BY <1>6, <2>1, <2>4
<1>11. Noisy(Frames!Rest(w, u), 0)
    BY DEF Noisy
<1> HIDE DEF q
<1>12. Cuts(q, n - 1, Frames!Rest(w, u), s, k + 1)
    BY <1>5, <1>7, <1>8, <1>9, <1>10, <1>11 DEF Cuts
<1> QED BY <1>3, <1>12

LEMMA HoldsLonger ==
    ASSUME NEW w \in Seq(Bytes), NEW v \in Seq(Bytes), NEW f \in Nat, NEW t \in Nat,
           t <= Len(w), NEW message, Len(Frames!Encoded(message)) \in Nat, Holds(w, f, t, message)
    PROVE  Holds(w \o v, f, t, message)
<1>1. PICK e \in Nat : e = Len(Frames!Encoded(message))
    OBVIOUS
<1>2. PICK b \in Nat : b = Len(w) /\ t <= b
    BY LenProperties
<1>3. t = f + e /\ \A i \in 1..e : w[f + i] = Frames!Encoded(message)[i]
    BY <1>1 DEF Holds
<1>4. \A i \in 1..b : (w \o v)[i] = w[i]
    BY <1>2
<1>5. \A i \in 1..e : f + i \in 1..b
    BY <1>2, <1>3
<1>6. \A i \in 1..e : (w \o v)[f + i] = Frames!Encoded(message)[i]
    BY <1>3, <1>4, <1>5
<1> QED BY <1>1, <1>3, <1>6 DEF Holds

Fits(message) == message \in Bodies /\ Len(message) <= FrameBytes

(* One more message is given to be written.                                *)
LEMMA CutsAppend ==
    ASSUME framing \in Framings, NEW p, NEW n, NEW w \in Seq(Bytes), NEW s \in Messages, NEW k,
           Cuts(p, n, w, s, k), NEW message, Fits(message)
    PROVE  \E q : Cuts(q, n + 1, w \o Frames!Encoded(message), Append(s, message), k)
<1>1. k \in Nat /\ n \in Nat /\ Len(s) = k + n /\ p \in [0..n -> Nat]
    BY DEF Cuts, Ordered
<1>2. PICK b \in Nat : b = Len(w) /\ b = p[n]
    BY <1>1, LenProperties DEF Cuts
<1>3. s \in Seq(Bodies) /\ Frames!Encoded(message) \in Seq(Bytes)
    BY EncodedBytes DEF Messages, Fits
<1>4. PICK e \in Nat : e = Len(Frames!Encoded(message))
    BY <1>3, LenProperties
<1>0. /\ w \o Frames!Encoded(message) \in Seq(Bytes)
      /\ Len(w \o Frames!Encoded(message)) = b + e
      /\ \A i \in 1..b : (w \o Frames!Encoded(message))[i] = w[i]
      /\ \A i \in 1..e : (w \o Frames!Encoded(message))[b + i] = Frames!Encoded(message)[i]
    <2>1. \A z \in Seq(Bytes) : e = Len(z) =>
            /\ w \o z \in Seq(Bytes) /\ Len(w \o z) = b + e
            /\ \A i \in 1..b : (w \o z)[i] = w[i]
            /\ \A i \in 1..e : (w \o z)[b + i] = z[i]
        <3> TAKE z \in Seq(Bytes)
        <3> HAVE e = Len(z)
        <3>0. b = Len(w)
            BY <1>2
        <3>1. w \o z \in Seq(Bytes)
            OBVIOUS
        <3>2. Len(w \o z) = b + e
            BY <3>0
        <3>3. \A i \in 1..b : (w \o z)[i] = w[i]
            BY <3>0
        <3>4. \A i \in 1..e : (w \o z)[b + i] = z[i]
            BY <3>0
        <3> QED BY <3>1, <3>2, <3>3, <3>4
    <2> QED BY <1>3, <1>4, <2>1
<1>5. \A j \in 0..n : p[j] <= b /\ p[j] \in Nat
    <2> TAKE j \in 0..n
    <2>1. n \in 0..n /\ j <= n
        BY <1>1
    <2> QED BY <1>1, <1>2, <2>1 DEF Cuts, Ordered
<1> DEFINE q == [j \in 0..(n + 1) |-> IF j = n + 1 THEN b + e ELSE p[j]]
           v == w \o Frames!Encoded(message)
           r == Append(s, message)
<1>6. (\A j \in 0..n : j \in 0..(n + 1) /\ q[j] = p[j]) /\ q[n + 1] = b + e
    BY <1>1
<1>7. Ordered(q, n + 1)
    <2>1. \A j \in 0..(n + 1) : j \in 0..n \/ j = n + 1
        BY <1>1
    <2>2. ASSUME NEW j \in 0..(n + 1) PROVE q[j] \in Nat /\ q[j] <= b + e
        BY <1>5, <1>6, <2>1
    <2>3. ASSUME NEW i \in 0..(n + 1), NEW j \in 0..(n + 1), i <= j PROVE q[i] <= q[j]
        <3>1. CASE j = n + 1
            BY <1>6, <2>2, <3>1
        <3>2. CASE j # n + 1
            <4>1. i \in 0..n /\ j \in 0..n
                BY <1>1, <2>3, <3>2
            <4> QED BY <1>6, <2>3, <4>1 DEF Cuts, Ordered
        <3> QED BY <3>1, <3>2
    <2>4. q \in [0..(n + 1) -> Nat]
        BY <2>2
    <2> QED BY <2>3, <2>4 DEF Ordered
<1>8. /\ Len(r) = k + (n + 1) /\ r[k + (n + 1)] = message
      /\ \A j \in 1..(k + n) : r[j] = s[j]
    BY <1>1, <1>3 DEF Fits
<1>9. /\ v \in Seq(Bytes) /\ Len(v) = b + e
      /\ \A i \in 1..b : v[i] = w[i]
      /\ \A i \in 1..e : v[b + i] = Frames!Encoded(message)[i]
    BY <1>0, <1>4
<1>10. ASSUME NEW j \in 1..(n + 1)
       PROVE  Holds(v, q[j - 1], q[j], r[k + j])
    <2>1. CASE j = n + 1
        <3>1. q[j - 1] = b /\ q[j] = b + e /\ r[k + j] = message
            <4>1. n \in 0..n /\ (n + 1) - 1 = n
                BY <1>1
            <4> QED BY <1>2, <1>6, <1>8, <2>1, <4>1
        <3> QED BY <1>4, <1>9, <3>1 DEF Holds
    <2>2. CASE j # n + 1
        <3>1. j \in 1..n /\ j - 1 \in 0..n /\ j \in 0..n /\ k + j \in 1..(k + n)
            BY <1>1, <2>2
        <3>2. Holds(w, p[j - 1], p[j], s[k + j])
            BY <3>1 DEF Cuts
        <3>3. Len(Frames!Encoded(s[k + j])) \in Nat
            BY <1>1, <3>1, EncodedLength
        <3>4. p[j] <= Len(w) /\ p[j] \in Nat /\ p[j - 1] \in Nat
            BY <1>2, <1>5, <3>1
        <3>5. Holds(v, p[j - 1], p[j], s[k + j])
            BY <1>3, <3>2, <3>3, <3>4, HoldsLonger
        <3> QED BY <1>6, <1>8, <3>1, <3>5
    <2> QED BY <2>1, <2>2
<1>11. Noisy(v, q[0])
    <2>1. 0 \in 0..n /\ q[0] = p[0] /\ p[0] <= b /\ p[0] \in Nat /\ Noisy(w, p[0])
        BY <1>1, <1>5, <1>6 DEF Cuts
    <2>2. \A i \in 1..p[0] : i \in 1..b
        BY <2>1
    <2> QED BY <1>9, <2>1, <2>2 DEF Noisy
<1>12. n + 1 \in Nat
    BY <1>1
<1> HIDE DEF q, r, v
<1>13. Cuts(q, n + 1, v, r, k)
    BY <1>1, <1>6, <1>7, <1>8, <1>9, <1>10, <1>11, <1>12 DEF Cuts
<1> QED BY <1>13 DEF r, v

(* With nothing on the wire, no message is.                                *)
LEMMA CutsEmpty ==
    ASSUME framing \in Framings, NEW p, NEW n, NEW w, Len(w) = 0, NEW s \in Messages, NEW k,
           Cuts(p, n, w, s, k)
    PROVE  n = 0
<1>1. k \in Nat /\ n \in Nat /\ Len(s) = k + n /\ p \in [0..n -> Nat] /\ p[n] = 0
    BY DEF Cuts, Ordered
<1> SUFFICES ASSUME n > 0 PROVE FALSE
    BY <1>1
<1>2. n \in 1..n /\ n - 1 \in 0..n /\ n - 1 <= n /\ k + n \in 1..(k + n)
    BY <1>1
<1>3. Holds(w, p[n - 1], p[n], s[k + n])
    BY <1>2 DEF Cuts
<1>4. PICK e \in Nat : e = Len(Frames!Encoded(s[k + n])) /\ e > 0
    BY <1>1, <1>2, EncodedLength
<1>5. 0 = p[n - 1] + e /\ p[n - 1] \in Nat
    BY <1>1, <1>2, <1>3, <1>4 DEF Holds
<1> QED BY <1>4, <1>5

LEMMA CutsNoise ==
    ASSUME framing = "line", NEW noise \in Noise, NEW s, NEW k \in Nat, Len(s) = k
    PROVE  \E q : Cuts(q, 0, noise, s, k)
<1>1. noise \in Seq(Bytes) /\ \A i \in 1..Len(noise) : noise[i] \in {"nl", " "}
    BY NoiseBytes
<1>2. PICK e \in Nat : e = Len(noise)
    BY <1>1, LenProperties
<1> DEFINE q == [j \in 0..0 |-> e]
<1>3. Ordered(q, 0) /\ q[0] = e
    BY DEF Ordered
<1>4. Noisy(noise, q[0])
    <2>1. e <= Len(noise)
        BY <1>2
    <2> QED BY <1>1, <1>2, <1>3, <2>1 DEF Noisy
<1> HIDE DEF q
<1>5. Len(s) = k + 0
    OBVIOUS
<1>6. Cuts(q, 0, noise, s, k)
    BY <1>2, <1>3, <1>4, <1>5 DEF Cuts
<1> QED BY <1>6

-----------------------------------------------------------------------------
FrameTypes ==
    /\ framing \in Framings
    /\ said \in Messages /\ got \in Seq(Bodies) /\ batch \in Seq(Bodies)
    /\ unread \in Seq(Bytes) /\ pipe \in Seq(Bytes) /\ unwritten \in Seq(Bytes)
    /\ state \in {"waits", "feeds", "failed"}

Passed == got \o batch
Wire == unread \o (pipe \o unwritten)

InOrder(s, t) == Len(t) <= Len(s) /\ \A i \in 1..Len(t) : t[i] = s[i]

FrameInv ==
    /\ FrameTypes
    /\ InOrder(said, Passed)
    /\ state # "failed" => \E p, n : Cuts(p, n, Wire, said, Len(Passed))
    /\ state = "failed" => batch = <<>> /\ \E i \in DOMAIN said : ~Frames!Valid(said[i])
    /\ state = "waits" => batch = <<>> /\ Frames!Taken = Frames!Nothing

(* What the next call of feed finds is the next message, or noise.         *)
LEMMA TakenIsNext ==
    ASSUME FrameTypes, NEW p, NEW n, NEW k, Cuts(p, n, Wire, said, k)
    PROVE  /\ n > 0 => TakesRight(p[0], said[k + 1])
           /\ n = 0 => /\ Frames!Taken.bad = FALSE /\ Frames!Taken.found = FALSE
                       /\ Frames!Taken.used \in Nat /\ Frames!Taken.used <= p[0]
                       /\ Frames!Taken.used <= Len(unread)
<1>1. /\ k \in Nat /\ n \in Nat /\ Len(said) = k + n /\ p \in [0..n -> Nat]
      /\ p[n] = Len(Wire) /\ Noisy(Wire, p[0])
    BY DEF Cuts, Ordered
<1>2. unread \in Seq(Bytes) /\ pipe \o unwritten \in Seq(Bytes) /\ framing \in Framings
    BY DEF FrameTypes
<1>3. PICK b \in Nat : b = Len(unread) /\ DOMAIN unread = 1..b
    BY <1>2, LenProperties
<1>4. b <= Len(Wire) /\ Len(Wire) \in Nat /\ \A i \in 1..b : Wire[i] = unread[i]
    <2> DEFINE v == pipe \o unwritten
    <2> HIDE DEF v
    <2>1. v \in Seq(Bytes) /\ Wire = unread \o v
        BY <1>2 DEF v, Wire
    <2> QED BY <1>2, <1>3, <2>1
<1>5. PICK a \in Nat : a = p[0]
    BY <1>1
<1>6. NoiseTo(a)
    <2> SUFFICES ASSUME NEW i \in 1..b, i <= a PROVE unread[i] \in {"nl", " "}
        BY <1>3 DEF NoiseTo
    <2>1. i \in 1..a
        OBVIOUS
    <2> QED BY <1>1, <1>4, <1>5, <2>1 DEF Noisy
<1>7. CASE n > 0
    <2>1. 1 \in 1..n /\ 1 - 1 = 0 /\ k + 1 \in 1..(k + n)
        BY <1>1, <1>7
    <2>2. Holds(Wire, a, p[1], said[k + 1])
        BY <1>5, <2>1 DEF Cuts
    <2> DEFINE message == said[k + 1]
    <2>3. /\ message \in Bodies /\ Len(message) <= FrameBytes
          /\ Len(Frames!Encoded(message)) \in Nat
        BY <1>1, <1>2, <2>1, EncodedLength DEF FrameTypes
    <2> HIDE DEF message
    <2>4. PICK e \in Nat : e = Len(Frames!Encoded(message))
        BY <2>3
    <2>5. \A i \in 1..e : Wire[a + i] = Frames!Encoded(message)[i]
        BY <2>2, <2>4 DEF Holds, message
    <2>6. framing # "line" => a = 0
        BY <1>1, <1>5 DEF Noisy
    <2>7. framing = "line" => a + Len(message) <= FrameBytes
        <3> SUFFICES ASSUME framing = "line" PROVE a + Len(message) <= FrameBytes
            OBVIOUS
        <3>1. PICK l \in Nat : l = Len(message)
            BY <2>3, BodyBytes, LenProperties
        <3>2. CASE a = 0
            BY <2>3, <3>1, <3>2
        <3>3. CASE a # 0
            <4>1. PICK noise \in Noise : a <= Len(noise)
                BY <1>1, <1>5, <3>3 DEF Noisy
            <4>2. PICK m \in Nat : m = Len(noise)
                BY NoiseBytes, LenProperties
            <4>3. m + l <= FrameBytes
                BY <1>2, <2>3, <3>1, <4>2, NoiseFits
            <4>4. FrameBytes \in Nat
                BY FrameGiven
            <4>5. a <= m
                BY <4>1, <4>2
            <4>6. a + l <= FrameBytes
                BY <4>3, <4>4, <4>5
            <4> QED BY <3>1, <4>6
        <3> QED BY <3>2, <3>3
    <2>8. ASSUME NEW i \in 1..b, a < i, i <= a + e
          PROVE  unread[i] = Frames!Encoded(message)[i - a]
        <3>1. i - a \in 1..e /\ a + (i - a) = i
            BY <2>8
        <3> QED BY <1>4, <2>5, <3>1
    <2>9. Begins(a, message)
        BY <1>3, <1>6, <2>3, <2>4, <2>6, <2>7, <2>8 DEF Begins, NoiseTo
    <2>10. TakesRight(a, message)
        BY <1>2, <2>9, FrameTakes, HeadedTakes, LineTakes, FrameGiven
    <2> QED BY <1>5, <1>7, <2>10 DEF message
<1>8. CASE n = 0
    <2>1. p[0] = Len(Wire) /\ b <= a
        BY <1>1, <1>4, <1>5, <1>8
    <2>2. CASE framing = "line"
        <3>1. b <= FrameBytes
            <4>1. FrameBytes \in Nat
                BY FrameGiven
            <4>2. CASE a = 0
                BY <2>1, <4>1, <4>2
            <4>3. CASE a # 0
                <5>1. PICK noise \in Noise : a <= Len(noise)
                    BY <1>1, <1>5, <4>3 DEF Noisy
                <5>2. PICK m \in Nat : m = Len(noise)
                    BY NoiseBytes, LenProperties
                <5>3. m <= FrameBytes
                    BY <1>2, <2>2, <5>2, NoiseFits
                <5>4. a <= m
                    BY <5>1, <5>2
                <5> QED BY <2>1, <4>1, <5>3, <5>4
            <4> QED BY <4>2, <4>3
        <3>2. Len(unread) <= a /\ Len(unread) <= FrameBytes
            BY <1>3, <2>1, <3>1
        <3>3. /\ Frames!Taken.bad = FALSE /\ Frames!Taken.found = FALSE
              /\ Frames!Taken.used \in Nat /\ Frames!Taken.used <= a
              /\ Frames!Taken.used <= Len(unread)
            BY <1>2, <1>6, <2>2, <3>2, NoiseTakes
        <3> QED BY <1>5, <1>8, <3>3
    <2>3. CASE framing # "line"
        <3>1. a = 0
            BY <1>1, <1>5, <2>3 DEF Noisy
        <3>2. unread = <<>>
            BY <1>2, <1>3, <2>1, <3>1, EmptySeq
        <3>3. Frames!Taken = Frames!Nothing
            BY <1>2, <2>3, <3>2, EmptyTakes, FrameGiven
        <3> QED BY <1>3, <1>5, <1>8, <3>3, OtherFacts
    <2> QED BY <2>2, <2>3
<1> QED BY <1>1, <1>7, <1>8

LEMMA SameCuts ==
    ASSUME NEW p, NEW n, NEW w, NEW s, NEW k, framing' = framing, Cuts(p, n, w, s, k)
    PROVE  Cuts(p, n, w, s, k)'
BY DEF Cuts, Ordered, Holds, Noisy, Frames!Encoded

LEMMA FrameInit == Frames!Init => FrameInv
<1> SUFFICES ASSUME Frames!Init PROVE FrameInv
    OBVIOUS
<1>1. /\ framing \in Framings /\ said = <<>> /\ unwritten = <<>> /\ pipe = <<>>
      /\ unread = <<>> /\ batch = <<>> /\ got = <<>> /\ state = "waits"
    BY DEF Frames!Init
<1>2. FrameTypes
    BY <1>1 DEF FrameTypes, Messages
<1>3. Passed = <<>> /\ Wire = <<>> /\ Len(Passed) = 0 /\ Len(Wire) = 0
    BY <1>1 DEF Passed, Wire
<1>4. InOrder(said, Passed)
    BY <1>1, <1>3 DEF InOrder
<1>5. \E p, n : Cuts(p, n, Wire, said, Len(Passed))
    <2> DEFINE q == [j \in 0..0 |-> 0]
    <2>1. Ordered(q, 0) /\ q[0] = 0
        BY DEF Ordered
    <2>2. Noisy(Wire, q[0])
        BY <2>1 DEF Noisy
    <2> HIDE DEF q
    <2>3. Len(said) = 0 + 0
        BY <1>1
    <2>4. Cuts(q, 0, Wire, said, 0)
        BY <1>3, <2>1, <2>2, <2>3 DEF Cuts
    <2> QED BY <1>3, <2>4
<1>6. Frames!Taken = Frames!Nothing
    <2>1. Frames!Ends = {} /\ Newlines = {} /\ Len(unread) = 0
        BY <1>1 DEF Frames!Ends, Newlines
    <2>2. ~(0 > FrameBytes)
        BY FrameGiven
    <2> QED
        BY <1>1, <2>1, <2>2, NextLineIs
        DEF Frames!Taken, Frames!NextHeaded, Frames!NextFrame
<1> QED BY <1>1, <1>2, <1>4, <1>5, <1>6 DEF FrameInv

LEMMA TakenStays ==
    ASSUME framing' = framing, unread' = unread
    PROVE  Frames!Taken' = Frames!Taken
BY DEF Frames!Taken, Frames!NextLine, Frames!NextHeaded, Frames!NextFrame,
   Frames!Ends, Frames!Found, Frames!Bad, Frames!Nothing, Frames!Stripped,
   Frames!Valid, Frames!Number, Frames!Digit, Frames!Digits

LEMMA SplitIs ==
    ASSUME NEW w \in Seq(Bytes), NEW n \in 1..Len(w)
    PROVE  /\ SubSeq(w, 1, n) \in Seq(Bytes) /\ Frames!Rest(w, n) \in Seq(Bytes)
           /\ SubSeq(w, 1, n) \o Frames!Rest(w, n) = w
<1>1. PICK b \in Nat : b = Len(w)
    BY LenProperties
<1>2. n \in Nat /\ n <= b
    BY <1>1
<1>3. /\ SubSeq(w, 1, n) \in Seq(Bytes) /\ Len(SubSeq(w, 1, n)) = n
      /\ \A i \in 1..n : SubSeq(w, 1, n)[i] = w[i]
    BY <1>1, <1>2
<1>4. /\ Frames!Rest(w, n) \in Seq(Bytes) /\ Len(Frames!Rest(w, n)) = b - n
      /\ \A i \in 1..(b - n) : Frames!Rest(w, n)[i] = w[n + i]
    BY <1>1, <1>2, RestIs
<1> DEFINE x == SubSeq(w, 1, n)
           y == Frames!Rest(w, n)
<1> HIDE DEF x, y
<1>5. x \in Seq(Bytes) /\ y \in Seq(Bytes) /\ Len(x) = n /\ Len(y) = b - n
    BY <1>3, <1>4 DEF x, y
<1>6. x \o y \in Seq(Bytes) /\ Len(x \o y) = b
    <2>1. x \o y \in Seq(Bytes) /\ Len(x \o y) = Len(x) + Len(y)
        BY <1>5, ConcatProperties
    <2> QED BY <1>1, <1>2, <1>5, <2>1
<1>7. ASSUME NEW i \in 1..b PROVE (x \o y)[i] = w[i]
    <2>1. (x \o y)[i] = IF i <= n THEN x[i] ELSE y[i - n]
        <3>1. i \in 1..(Len(x) + Len(y))
            BY <1>1, <1>2, <1>5
        <3> QED BY <1>5, <3>1, ConcatProperties
    <2>2. CASE i <= n
        <3>1. i \in 1..n
            BY <2>2
        <3> QED BY <1>3, <2>1, <2>2, <3>1 DEF x
    <2>3. CASE ~(i <= n)
        <3>1. i - n \in 1..(b - n) /\ n + (i - n) = i
            BY <1>2, <2>3
        <3> QED BY <1>4, <2>1, <2>3, <3>1 DEF y
    <2> QED BY <2>2, <2>3
<1>8. x \o y = w
    BY <1>1, <1>6, <1>7, SeqEqual
<1> QED BY <1>5, <1>8 DEF x, y

LEMMA BytesJoin == \A r, s, t \in Seq(Bytes) : (r \o s) \o t = r \o (s \o t)
BY Joining

LEMMA WriteKeeps ==
    ASSUME FrameTypes, NEW n, Frames!Write(n)
    PROVE  pipe' \in Seq(Bytes) /\ unwritten' \in Seq(Bytes) /\ Wire' = Wire
<1> DEFINE x == SubSeq(unwritten, 1, n)
           y == Frames!Rest(unwritten, n)
<1>1. x \in Seq(Bytes) /\ y \in Seq(Bytes) /\ x \o y = unwritten
    BY SplitIs DEF Frames!Write, FrameTypes
<1>2. pipe' = pipe \o x /\ unwritten' = y /\ unread' = unread
    BY DEF Frames!Write, Frames!After
<1> HIDE DEF x, y
<1>3. pipe \in Seq(Bytes)
    BY DEF FrameTypes
<1>4. (pipe \o x) \o y = pipe \o (x \o y) /\ pipe \o x \in Seq(Bytes)
    BY <1>1, <1>3, Joining, Zenon
<1> QED BY Zenon, <1>1, <1>2, <1>4 DEF Wire

LEMMA FeedKeeps ==
    ASSUME FrameTypes, NEW n, Frames!Feed(n)
    PROVE  unread' \in Seq(Bytes) /\ pipe' \in Seq(Bytes) /\ Wire' = Wire
<1> DEFINE x == SubSeq(pipe, 1, n)
           y == Frames!Rest(pipe, n)
<1>1. x \in Seq(Bytes) /\ y \in Seq(Bytes) /\ x \o y = pipe
    BY SplitIs DEF Frames!Feed, FrameTypes
<1>2. unread' = unread \o x /\ pipe' = y /\ unwritten' = unwritten
    BY DEF Frames!Feed
<1> HIDE DEF x, y
<1>3. unread \in Seq(Bytes) /\ unwritten \in Seq(Bytes)
    BY DEF FrameTypes
<1>8. x \in Seq(Bytes) /\ y \in Seq(Bytes)
    BY <1>1
<1>4. y \o unwritten \in Seq(Bytes)
    BY <1>8, <1>3, Joining, Zenon
<1>5. (x \o y) \o unwritten = x \o (y \o unwritten)
    BY Zenon, <1>8, <1>3, BytesJoin
<1>6. (unread \o x) \o (y \o unwritten) = unread \o (x \o (y \o unwritten))
    BY Zenon, <1>8, <1>3, <1>4, BytesJoin
<1>7. unread \o x \in Seq(Bytes)
    BY <1>8, <1>3, Joining, Zenon
<1> QED BY Zenon, <1>1, <1>2, <1>5, <1>6, <1>7 DEF Wire

LEMMA RestJoins ==
    ASSUME NEW w \in Seq(Bytes), NEW v \in Seq(Bytes), NEW u \in Nat, u <= Len(w)
    PROVE  Frames!Rest(w \o v, u) = Frames!Rest(w, u) \o v
<1>1. PICK b \in Nat, c \in Nat : b = Len(w) /\ c = Len(v)
    BY LenProperties
<1>2. u <= b /\ u <= b + c
    BY <1>1
<1>3. /\ w \o v \in Seq(Bytes) /\ Len(w \o v) = b + c
      /\ \A i \in 1..(b + c) : (w \o v)[i] = IF i <= b THEN w[i] ELSE v[i - b]
    BY <1>1, ConcatProperties
<1>4. /\ Frames!Rest(w \o v, u) \in Seq(Bytes)
      /\ Len(Frames!Rest(w \o v, u)) = (b + c) - u
      /\ \A i \in 1..((b + c) - u) : Frames!Rest(w \o v, u)[i] = (w \o v)[u + i]
    <2>1. b + c \in Nat
        BY <1>1
    <2> QED BY <1>2, <1>3, <2>1, RestIs
<1>5. /\ Frames!Rest(w, u) \in Seq(Bytes) /\ Len(Frames!Rest(w, u)) = b - u
      /\ \A i \in 1..(b - u) : Frames!Rest(w, u)[i] = w[u + i]
    BY <1>1, <1>2, RestIs
<1>6. /\ Frames!Rest(w, u) \o v \in Seq(Bytes)
      /\ Len(Frames!Rest(w, u) \o v) = (b - u) + c
      /\ \A i \in 1..((b - u) + c) : (Frames!Rest(w, u) \o v)[i] = IF i <= b - u THEN Frames!Rest(w, u)[i] ELSE v[i - (b - u)]
    <2> DEFINE z == Frames!Rest(w, u)
    <2>1. z \in Seq(Bytes) /\ Len(z) = b - u
        BY <1>5
    <2> HIDE DEF z
    <2>3. /\ z \o v \in Seq(Bytes) /\ Len(z \o v) = Len(z) + Len(v)
          /\ \A i \in 1..(Len(z) + Len(v)) : (z \o v)[i] = IF i <= Len(z) THEN z[i] ELSE v[i - Len(z)]
        BY <2>1, ConcatProperties
    <2>2. /\ z \o v \in Seq(Bytes) /\ Len(z \o v) = (b - u) + c
          /\ \A i \in 1..((b - u) + c) : (z \o v)[i] = IF i <= b - u THEN z[i] ELSE v[i - (b - u)]
        BY Zenon, <1>1, <2>1, <2>3
    <2> QED BY <2>2 DEF z
<1>7. ASSUME NEW i \in 1..((b + c) - u) PROVE Frames!Rest(w \o v, u)[i] = (Frames!Rest(w, u) \o v)[i]
    <2>1. i \in 1..((b - u) + c) /\ u + i \in 1..(b + c) /\ (u + i) - b = i - (b - u)
        BY <1>2
    <2>2. CASE i <= b - u
        <3>1. u + i <= b /\ i \in 1..(b - u)
            BY <1>2, <2>2
        <3> QED BY <1>3, <1>4, <1>5, <1>6, <2>1, <2>2, <3>1
    <2>3. CASE ~(i <= b - u)
        <3>1. ~(u + i <= b)
            BY <1>2, <2>3
        <3> QED BY <1>3, <1>4, <1>6, <2>1, <2>3, <3>1
    <2> QED BY <2>2, <2>3
<1>8. Len(Frames!Rest(w \o v, u)) = Len(Frames!Rest(w, u) \o v)
    BY <1>2, <1>4, <1>6
<1> QED BY <1>4, <1>6, <1>7, <1>8, SeqEqual

(* The messages passed on, and what is left of the wire, when one is taken. *)
LEMMA TakeKeeps ==
    ASSUME FrameInv, Frames!Take
    PROVE  /\ unread' \in Seq(Bytes) /\ batch' \in Seq(Bodies)
           /\ InOrder(said, Passed')
           /\ \E p, n : Cuts(p, n, Wire', said, Len(Passed'))
<1>1. /\ unread \in Seq(Bytes) /\ pipe \in Seq(Bytes) /\ unwritten \in Seq(Bytes)
      /\ said \in Messages /\ got \in Seq(Bodies) /\ batch \in Seq(Bodies)
      /\ framing \in Framings
    BY DEF FrameInv, FrameTypes
<1>2. /\ state = "feeds" /\ Frames!Taken.used > 0 /\ ~Frames!Taken.bad
      /\ batch' = IF Frames!Taken.found THEN Append(batch, Frames!Taken.body) ELSE batch
      /\ unread' = Frames!Rest(unread, Frames!Taken.used)
      /\ said' = said /\ unwritten' = unwritten /\ pipe' = pipe /\ got' = got
    BY DEF Frames!Take
<1> PICK p, n : Cuts(p, n, Wire, said, Len(Passed))
    BY <1>2 DEF FrameInv
<1>3. PICK k \in Nat : k = Len(Passed) /\ n \in Nat /\ Len(said) = k + n /\ Cuts(p, n, Wire, said, k)
    BY DEF Cuts
<1>4. PICK b \in Nat : b = Len(unread)
    BY <1>1, LenProperties
<1>5. Passed \in Seq(Bodies) /\ \A i \in 1..k : Passed[i] = said[i]
    BY <1>1, <1>3, ConcatProperties DEF Passed, FrameInv, InOrder
<1>w. Wire \in Seq(Bytes)
    BY <1>1, Joining, Zenon DEF Wire
<1>6. ASSUME NEW u \in Nat, u <= b, u = Frames!Taken.used
      PROVE  unread' \in Seq(Bytes) /\ Wire' = Frames!Rest(Wire, u)
    <2> DEFINE v == pipe \o unwritten
    <2>1. v \in Seq(Bytes) /\ v' = v
        BY <1>1, <1>2, Joining, Zenon
    <2>2. unread' = Frames!Rest(unread, u)
        BY <1>2, <1>6
    <2>3. Wire = unread \o v /\ Wire' = unread' \o v'
        BY DEF Wire
    <2> HIDE DEF v
    <2>4. Frames!Rest(unread \o v, u) = Frames!Rest(unread, u) \o v
        BY <1>1, <1>4, <1>6, <2>1, RestJoins
    <2>5. unread' \in Seq(Bytes)
        BY <1>1, <1>4, <1>6, <2>2, RestIs
    <2> QED BY <2>1, <2>2, <2>3, <2>4, <2>5
<1>9. ASSUME NEW u \in Nat, u <= b, u = Frames!Taken.used, u <= p[0], ~Frames!Taken.found
      PROVE  /\ unread' \in Seq(Bytes) /\ batch' \in Seq(Bodies)
             /\ InOrder(said, Passed')
             /\ \E q, m : Cuts(q, m, Wire', said, Len(Passed'))
    <2>1. batch' = batch /\ Passed' = Passed
        BY <1>2, <1>9 DEF Passed
    <2>2. unread' \in Seq(Bytes) /\ Wire' = Frames!Rest(Wire, u)
        BY <1>6, <1>9
    <2>3. \E q : Cuts(q, n, Frames!Rest(Wire, u), said, k)
        BY <1>1, <1>3, <1>9, <1>w, CutsDrop
    <2>4. InOrder(said, Passed)
        BY DEF FrameInv
    <2> QED BY <1>1, <1>3, <2>1, <2>2, <2>3, <2>4
<1>7. CASE n > 0
    <2> DEFINE message == said[k + 1]
    <2>1. TakesRight(p[0], message)
        BY <1>3, <1>7, TakenIsNext DEF FrameInv
    <2>2. k + 1 \in 1..(k + n)
        BY <1>3, <1>7
    <2>3. message \in Bodies /\ Len(Frames!Encoded(message)) \in Nat
        BY <1>1, <1>3, <2>2, EncodedLength
    <2>p. p[0] \in Nat /\ p[1] \in Nat /\ Holds(Wire, p[0], p[1], message)
        <3>1. 0 \in 0..n /\ 1 \in 0..n /\ 1 \in 1..n /\ 1 - 1 = 0
            BY <1>3, <1>7
        <3> QED BY <1>3, <3>1 DEF Cuts, Ordered
    <2> HIDE DEF message
    <2>4. CASE Frames!Taken.found
        <3>1. /\ Frames!Taken.body = message /\ Frames!Taken.used = Whole(p[0], message)
              /\ Whole(p[0], message) <= Len(unread)
            BY <1>2, <2>1, <2>4 DEF TakesRight
        <3>2. PICK u \in Nat : u = p[1]
            BY <2>p
        <3>3. u = Whole(p[0], message)
            BY <2>p, <3>2 DEF Holds, Whole
        <3>4. u <= b /\ u = Frames!Taken.used
            BY <1>4, <3>1, <3>3
        <3>5. unread' \in Seq(Bytes) /\ Wire' = Frames!Rest(Wire, u)
            BY <1>6, <3>4
        <3>6. \E q : Cuts(q, n - 1, Frames!Rest(Wire, u), said, k + 1)
            BY <1>1, <1>3, <1>7, <1>w, <3>2, CutsTake
        <3>7. batch' = Append(batch, message)
            BY <1>2, <2>4, <3>1
        <3>8. Passed' = Append(Passed, message)
            BY <1>1, <1>2, <2>3, <3>7 DEF Passed
        <3>9. /\ Len(Passed') = k + 1 /\ Passed'[k + 1] = message
              /\ \A i \in 1..k : Passed'[i] = Passed[i]
            BY <1>3, <1>5, <2>3, <3>8, AppendProperties
        <3>10. InOrder(said, Passed')
            <4>1. \A i \in 1..(k + 1) : i \in 1..k \/ i = k + 1
                BY <1>3
            <4>2. \A i \in 1..(k + 1) : Passed'[i] = said[i]
                BY <1>5, <3>9, <4>1 DEF message
            <4>3. k + 1 <= k + n
                BY <2>2
            <4> QED BY <1>3, <3>9, <4>2, <4>3 DEF InOrder
        <3>11. batch' \in Seq(Bodies)
            BY <1>1, <2>3, <3>7, AppendProperties
        <3> QED BY <3>5, <3>6, <3>9, <3>10, <3>11
    <2>5. CASE ~Frames!Taken.found
        <3>1. /\ Frames!Taken.used \in Nat /\ Frames!Taken.used <= p[0]
              /\ Frames!Taken.used <= Len(unread)
            BY <1>2, <2>1, <2>5 DEF TakesRight
        <3> QED BY <1>4, <1>9, <2>5, <3>1
    <2> QED BY <2>4, <2>5
<1>8. CASE n = 0
    <2>1. /\ Frames!Taken.bad = FALSE /\ Frames!Taken.found = FALSE
          /\ Frames!Taken.used \in Nat /\ Frames!Taken.used <= p[0]
          /\ Frames!Taken.used <= Len(unread)
        BY <1>3, <1>8, TakenIsNext DEF FrameInv
    <2> QED BY <1>4, <1>9, <2>1
<1> QED BY <1>3, <1>7, <1>8

LEMMA JoinEmpty == \A r \in Seq(Bytes) : r \o <<>> = r /\ <<>> \o r = r
BY ConcatEmptySeq

LEMMA MessageAdded ==
    ASSUME NEW s \in Messages, NEW message, Fits(message)
    PROVE  Append(s, message) \in Messages
<1>1. s \in Seq(Bodies) /\ message \in Bodies /\ Len(message) <= FrameBytes
    BY DEF Messages, Fits
<1>2. PICK m \in Nat : m = Len(s)
    BY <1>1, LenProperties
<1>3. /\ Append(s, message) \in Seq(Bodies) /\ Len(Append(s, message)) = m + 1
      /\ Append(s, message)[m + 1] = message
      /\ \A i \in 1..m : Append(s, message)[i] = s[i]
    BY <1>1, <1>2, AppendProperties
<1>4. ASSUME NEW i \in 1..(m + 1) PROVE Len(Append(s, message)[i]) <= FrameBytes
    <2>1. CASE i = m + 1
        BY <1>1, <1>3, <2>1
    <2>2. CASE i # m + 1
        <3>1. i \in 1..m
            BY <1>2, <2>2
        <3>2. Len(s[i]) <= FrameBytes
            BY <1>2, <3>1 DEF Messages
        <3> QED BY <1>3, <3>1, <3>2
    <2> QED BY <2>1, <2>2
<1> QED BY <1>3, <1>4 DEF Messages

LEMMA InOrderLonger ==
    ASSUME NEW s \in Messages, NEW message, Fits(message), NEW t \in Seq(Bodies), InOrder(s, t)
    PROVE  InOrder(Append(s, message), t)
<1>1. s \in Seq(Bodies) /\ message \in Bodies
    BY DEF Messages, Fits
<1>2. PICK m \in Nat, l \in Nat : m = Len(s) /\ l = Len(t)
    BY <1>1, LenProperties
<1>3. Len(Append(s, message)) = m + 1 /\ \A i \in 1..m : Append(s, message)[i] = s[i]
    BY <1>1, <1>2, AppendProperties
<1>4. l <= m /\ \A i \in 1..l : t[i] = s[i]
    BY <1>2 DEF InOrder
<1>5. l <= m + 1 /\ \A i \in 1..l : i \in 1..m
    BY <1>4
<1>6. \A i \in 1..l : t[i] = Append(s, message)[i]
    BY <1>3, <1>4, <1>5
<1> QED BY <1>2, <1>3, <1>5, <1>6 DEF InOrder

LEMMA PassedBodies ==
    ASSUME FrameTypes PROVE Passed \in Seq(Bodies) /\ Wire \in Seq(Bytes)
<1>1. Passed \in Seq(Bodies)
    BY ConcatProperties DEF FrameTypes, Passed
<1>2. pipe \o unwritten \in Seq(Bytes)
    BY ConcatProperties DEF FrameTypes
<1>3. Wire \in Seq(Bytes)
    BY <1>2, ConcatProperties DEF FrameTypes, Wire
<1> QED BY <1>1, <1>3

LEMMA SayStep ==
    ASSUME FrameInv, NEW message \in Bodies, Frames!Say(message)
    PROVE  FrameInv'
<1>1. FrameTypes /\ InOrder(said, Passed)
    BY DEF FrameInv
<1>2. /\ unwritten = <<>> /\ Fits(message)
      /\ said' = Append(said, message) /\ unwritten' = Frames!Encoded(message)
      /\ framing' = framing /\ pipe' = pipe /\ unread' = unread /\ batch' = batch
      /\ got' = got /\ state' = state
    BY DEF Frames!Say, Fits
<1>3. /\ Frames!Encoded(message) \in Seq(Bytes) /\ said \in Messages
      /\ framing \in Framings
    BY <1>1, <1>2, EncodedBytes DEF FrameTypes, Fits
<1>4. said' \in Messages
    BY <1>2, <1>3, MessageAdded
<1>5. FrameTypes'
    BY <1>1, <1>2, <1>3, <1>4 DEF FrameTypes
<1>6. Passed' = Passed
    BY <1>2 DEF Passed
<1>7. InOrder(said', Passed')
    BY <1>1, <1>2, <1>3, <1>6, InOrderLonger, PassedBodies
<1>8. Wire' = Wire \o Frames!Encoded(message)
    <2>1. unread \in Seq(Bytes) /\ pipe \in Seq(Bytes)
        BY <1>1 DEF FrameTypes
    <2>2. Wire = unread \o pipe
        BY <1>2, <2>1, JoinEmpty DEF Wire
    <2>3. Wire' = unread \o (pipe \o Frames!Encoded(message))
        BY <1>2 DEF Wire
    <2> QED BY Zenon, <1>3, <2>1, <2>2, <2>3, BytesJoin
<1>9. ASSUME state' # "failed" PROVE (\E p, n : Cuts(p, n, Wire, said, Len(Passed)))'
    <2> PICK p, n : Cuts(p, n, Wire, said, Len(Passed))
        BY <1>2, <1>9 DEF FrameInv
    <2>1. \E q : Cuts(q, n + 1, Wire \o Frames!Encoded(message), Append(said, message), Len(Passed))
        BY <1>1, <1>2, <1>3, PassedBodies, CutsAppend
    <2>2. PICK q : Cuts(q, n + 1, Wire', said', Len(Passed'))
        BY <1>2, <1>6, <1>8, <2>1
    <2>3. Cuts(q, n + 1, Wire, said, Len(Passed))'
        BY <1>2, <2>2 DEF Cuts, Ordered, Holds, Noisy, Frames!Encoded
    <2> QED BY <2>3
<1>10. ASSUME state' = "failed" PROVE batch' = <<>> /\ (\E i \in DOMAIN said : ~Frames!Valid(said[i]))'
    <2>1. batch = <<>>
        BY <1>2, <1>10 DEF FrameInv
    <2> PICK i \in DOMAIN said : ~Frames!Valid(said[i])
        BY <1>2, <1>10 DEF FrameInv
    <2>2. said \in Seq(Bodies)
        BY <1>3 DEF Messages
    <2>3. i \in DOMAIN said' /\ said'[i] = said[i]
        BY <1>2, <2>2, AppendProperties
    <2>4. ~Frames!Valid(said'[i])
        BY <2>3
    <2> QED BY <1>2, <2>1, <2>3, <2>4 DEF Frames!Valid
<1>11. ASSUME state' = "waits" PROVE batch' = <<>> /\ Frames!Taken' = Frames!Nothing
    <2>1. batch = <<>> /\ Frames!Taken = Frames!Nothing
        BY <1>2, <1>11 DEF FrameInv
    <2> QED BY <1>2, <2>1, TakenStays
<1>12. Frames!Nothing' = Frames!Nothing
    BY DEF Frames!Nothing
<1> QED BY <1>5, <1>7, <1>9, <1>10, <1>11, <1>12 DEF FrameInv, InOrder

LEMMA InterjectStep ==
    ASSUME FrameInv, NEW noise \in Noise, Frames!Interject(noise)
    PROVE  FrameInv'
<1>1. FrameTypes /\ InOrder(said, Passed) /\ said \in Messages
    BY DEF FrameInv, FrameTypes
<1>2. /\ framing = "line" /\ unwritten = <<>> /\ Len(pipe) + Len(unread) = 0
      /\ pipe' = pipe \o noise
      /\ said' = said /\ unwritten' = unwritten
      /\ framing' = framing /\ unread' = unread /\ batch' = batch
      /\ got' = got /\ state' = state
    BY DEF Frames!Interject
<1>3. noise \in Seq(Bytes) /\ framing \in Framings
    BY <1>1, NoiseBytes DEF FrameTypes
<1>4. pipe = <<>> /\ unread = <<>>
    <2>1. pipe \in Seq(Bytes) /\ unread \in Seq(Bytes)
        BY <1>1 DEF FrameTypes
    <2>2. Len(pipe) = 0 /\ Len(unread) = 0
        BY <1>2, <2>1, LenProperties
    <2> QED BY <2>1, <2>2, EmptySeq
<1>5. pipe' = noise /\ Wire' = noise /\ Wire = <<>>
    <2>1. pipe' = noise
        BY <1>2, <1>3, <1>4, JoinEmpty
    <2>2. Wire' = <<>> \o (noise \o <<>>) /\ Wire = <<>> \o (<<>> \o <<>>)
        BY <1>2, <1>4, <2>1 DEF Wire
    <2>3. <<>> \in Seq(Bytes)
        OBVIOUS
    <2> QED BY <1>3, <2>1, <2>2, <2>3, JoinEmpty
<1>6. FrameTypes'
    BY <1>1, <1>2, <1>3, <1>5 DEF FrameTypes
<1>7. Passed' = Passed
    BY <1>2 DEF Passed
<1>8. ASSUME state' # "failed" PROVE (\E p, n : Cuts(p, n, Wire, said, Len(Passed)))'
    <2> PICK p, n : Cuts(p, n, Wire, said, Len(Passed))
        BY <1>2, <1>8 DEF FrameInv
    <2>1. Len(Wire) = 0
        BY <1>5
    <2>2. n = 0
        BY <1>1, <1>3, <2>1, CutsEmpty
    <2>3. Len(Passed) \in Nat /\ Len(said) = Len(Passed)
        BY <2>2 DEF Cuts
    <2>4. PICK q, m : Cuts(q, m, noise, said, Len(Passed))
        BY <1>2, <2>3, CutsNoise
    <2>5. Cuts(q, m, Wire', said', Len(Passed'))
        BY <1>2, <1>5, <1>7, <2>4
    <2>7. framing' = framing
        BY <1>2
    <2>6. Cuts(q, m, Wire, said, Len(Passed))'
        BY <2>5, <2>7 DEF Cuts, Ordered, Holds, Noisy, Frames!Encoded
    <2> QED BY <2>6
<1>9. ASSUME state' = "failed" PROVE batch' = <<>> /\ (\E i \in DOMAIN said : ~Frames!Valid(said[i]))'
    BY <1>2, <1>9 DEF FrameInv, Frames!Valid
<1>10. ASSUME state' = "waits" PROVE batch' = <<>> /\ Frames!Taken' = Frames!Nothing
    <2>1. batch = <<>> /\ Frames!Taken = Frames!Nothing
        BY <1>2, <1>10 DEF FrameInv
    <2> QED BY <1>2, <2>1, TakenStays
<1>11. Frames!Nothing' = Frames!Nothing /\ InOrder(said, Passed)'
    BY <1>1, <1>2, <1>7 DEF Frames!Nothing, InOrder
<1> QED BY <1>6, <1>8, <1>9, <1>10, <1>11 DEF FrameInv

LEMMA WriteStep ==
    ASSUME FrameInv, NEW n, Frames!Write(n)
    PROVE  FrameInv'
<1>1. FrameTypes /\ InOrder(said, Passed)
    BY DEF FrameInv
<1>2. /\ said' = said /\ framing' = framing /\ unread' = unread /\ batch' = batch
      /\ got' = got /\ state' = state
    BY DEF Frames!Write
<1>3. pipe' \in Seq(Bytes) /\ unwritten' \in Seq(Bytes) /\ Wire' = Wire
    BY <1>1, WriteKeeps
<1>4. FrameTypes'
    BY <1>1, <1>2, <1>3 DEF FrameTypes, Messages
<1>5. Passed' = Passed
    BY <1>2 DEF Passed
<1>6. ASSUME state' # "failed" PROVE (\E p, m : Cuts(p, m, Wire, said, Len(Passed)))'
    <2> PICK p, m : Cuts(p, m, Wire, said, Len(Passed))
        BY <1>2, <1>6 DEF FrameInv
    <2>1. Cuts(p, m, Wire', said', Len(Passed'))
        BY <1>2, <1>3, <1>5
    <2>2. Cuts(p, m, Wire, said, Len(Passed))'
        BY <1>2, <2>1 DEF Cuts, Ordered, Holds, Noisy, Frames!Encoded
    <2> QED BY <2>2
<1>7. ASSUME state' = "failed" PROVE batch' = <<>> /\ (\E i \in DOMAIN said : ~Frames!Valid(said[i]))'
    BY <1>2, <1>7 DEF FrameInv, Frames!Valid
<1>8. ASSUME state' = "waits" PROVE batch' = <<>> /\ Frames!Taken' = Frames!Nothing
    <2>1. batch = <<>> /\ Frames!Taken = Frames!Nothing
        BY <1>2, <1>8 DEF FrameInv
    <2> QED BY <1>2, <2>1, TakenStays
<1>9. Frames!Nothing' = Frames!Nothing /\ InOrder(said, Passed)'
    BY <1>1, <1>2, <1>5 DEF Frames!Nothing, InOrder
<1> QED BY <1>4, <1>6, <1>7, <1>8, <1>9 DEF FrameInv

LEMMA FeedStep ==
    ASSUME FrameInv, NEW n, Frames!Feed(n)
    PROVE  FrameInv'
<1>1. FrameTypes /\ InOrder(said, Passed)
    BY DEF FrameInv
<1>2. /\ said' = said /\ framing' = framing /\ unwritten' = unwritten /\ batch' = batch
      /\ got' = got /\ state = "waits" /\ state' = "feeds"
    BY DEF Frames!Feed
<1>3. unread' \in Seq(Bytes) /\ pipe' \in Seq(Bytes) /\ Wire' = Wire
    BY <1>1, FeedKeeps
<1>4. FrameTypes'
    BY <1>1, <1>2, <1>3 DEF FrameTypes, Messages
<1>5. Passed' = Passed
    BY <1>2 DEF Passed
<1>6. (\E p, m : Cuts(p, m, Wire, said, Len(Passed)))'
    <2> PICK p, m : Cuts(p, m, Wire, said, Len(Passed))
        BY <1>2 DEF FrameInv
    <2>1. Cuts(p, m, Wire', said', Len(Passed'))
        BY <1>2, <1>3, <1>5
    <2>2. Cuts(p, m, Wire, said, Len(Passed))'
        BY <1>2, <2>1 DEF Cuts, Ordered, Holds, Noisy, Frames!Encoded
    <2> QED BY <2>2
<1>7. InOrder(said, Passed)'
    BY <1>1, <1>2, <1>5 DEF InOrder
<1> QED BY <1>2, <1>4, <1>6, <1>7 DEF FrameInv

LEMMA TakeStep ==
    ASSUME FrameInv, Frames!Take
    PROVE  FrameInv'
<1>1. FrameTypes
    BY DEF FrameInv
<1>2. /\ said' = said /\ framing' = framing /\ unwritten' = unwritten /\ pipe' = pipe
      /\ got' = got /\ state = "feeds" /\ state' = state
    BY DEF Frames!Take
<1>3. /\ unread' \in Seq(Bytes) /\ batch' \in Seq(Bodies)
      /\ InOrder(said, Passed')
      /\ \E p, m : Cuts(p, m, Wire', said, Len(Passed'))
    BY TakeKeeps
<1>4. FrameTypes'
    BY <1>1, <1>2, <1>3 DEF FrameTypes, Messages
<1>5. (\E p, m : Cuts(p, m, Wire, said, Len(Passed)))'
    <2> PICK p, m : Cuts(p, m, Wire', said, Len(Passed'))
        BY <1>3
    <2>1. Cuts(p, m, Wire', said', Len(Passed'))
        BY <1>2
    <2>2. Cuts(p, m, Wire, said, Len(Passed))'
        BY <1>2, <2>1 DEF Cuts, Ordered, Holds, Noisy, Frames!Encoded
    <2> QED BY <2>2
<1>6. InOrder(said, Passed)'
    BY <1>2, <1>3 DEF InOrder
<1> QED BY <1>2, <1>4, <1>5, <1>6 DEF FrameInv

LEMMA ReturnStep ==
    ASSUME FrameInv, Frames!Return
    PROVE  FrameInv'
<1>1. FrameTypes /\ InOrder(said, Passed)
    BY DEF FrameInv
<1>2. /\ said' = said /\ framing' = framing /\ unwritten' = unwritten /\ pipe' = pipe
      /\ unread' = unread /\ Frames!Taken = Frames!Nothing
      /\ got' = got \o batch /\ batch' = <<>> /\ state = "feeds" /\ state' = "waits"
    BY DEF Frames!Return
<1>3. got' \in Seq(Bodies) /\ <<>> \in Seq(Bodies)
    BY <1>1, <1>2, ConcatProperties DEF FrameTypes
<1>4. FrameTypes'
    BY <1>1, <1>2, <1>3 DEF FrameTypes, Messages
<1>5. Passed' = Passed
    <2>1. got' \o <<>> = got'
        BY <1>3, ConcatEmptySeq
    <2> QED BY <1>2, <2>1 DEF Passed
<1>w. Wire' = Wire
    BY <1>2 DEF Wire
<1>6. (\E p, m : Cuts(p, m, Wire, said, Len(Passed)))'
    <2> PICK p, m : Cuts(p, m, Wire, said, Len(Passed))
        BY <1>2 DEF FrameInv
    <2>1. Cuts(p, m, Wire', said', Len(Passed'))
        BY <1>2, <1>w, <1>5
    <2>2. Cuts(p, m, Wire, said, Len(Passed))'
        BY <1>2, <2>1 DEF Cuts, Ordered, Holds, Noisy, Frames!Encoded
    <2> QED BY <2>2
<1>7. InOrder(said, Passed)'
    BY <1>1, <1>2, <1>5 DEF InOrder
<1>8. Frames!Taken' = Frames!Nothing'
    BY <1>2, TakenStays DEF Frames!Nothing
<1> QED BY <1>2, <1>4, <1>6, <1>7, <1>8 DEF FrameInv

LEMMA FailStep ==
    ASSUME FrameInv, Frames!Fail
    PROVE  FrameInv'
<1>1. FrameTypes /\ InOrder(said, Passed) /\ said \in Messages
    BY DEF FrameInv, FrameTypes
<1>2. /\ said' = said /\ framing' = framing /\ unwritten' = unwritten /\ pipe' = pipe
      /\ unread' = unread /\ Frames!Taken.bad
      /\ got' = got /\ batch' = <<>> /\ state = "feeds" /\ state' = "failed"
    BY DEF Frames!Fail
<1>3. <<>> \in Seq(Bodies)
    OBVIOUS
<1>4. FrameTypes'
    BY <1>1, <1>2, <1>3 DEF FrameTypes, Messages
<1> PICK p, n : Cuts(p, n, Wire, said, Len(Passed))
    BY <1>2 DEF FrameInv
<1>5. PICK k \in Nat : k = Len(Passed) /\ n \in Nat /\ Len(said) = k + n
    BY DEF Cuts
<1>6. n > 0
    <2>1. n = 0 => Frames!Taken.bad = FALSE
        BY <1>1, <1>5, TakenIsNext
    <2> QED BY <1>2, <1>5, <2>1
<1>7. ~Frames!Valid(said[k + 1])
    BY <1>1, <1>2, <1>5, <1>6, TakenIsNext DEF TakesRight
<1>8. (\E i \in DOMAIN said : ~Frames!Valid(said[i]))'
    <2>1. k + 1 \in 1..(k + n) /\ DOMAIN said = 1..(k + n)
        BY <1>1, <1>5, <1>6 DEF Messages
    <2> QED BY <1>2, <1>7, <2>1 DEF Frames!Valid
<1>9. InOrder(said, Passed)'
    <2>1. got \in Seq(Bodies) /\ batch \in Seq(Bodies)
        BY <1>1 DEF FrameTypes
    <2>2. Passed' = got
        BY <1>2, <2>1, ConcatEmptySeq DEF Passed
    <2>3. PICK g \in Nat, m \in Nat : g = Len(got) /\ m = Len(batch)
        BY <2>1, LenProperties
    <2>4. Len(Passed) = g + m /\ \A i \in 1..g : Passed[i] = got[i]
        BY <2>1, <2>3 DEF Passed
    <2>5. g + m <= Len(said) /\ \A i \in 1..(g + m) : Passed[i] = said[i]
        BY <1>1, <2>4 DEF InOrder
    <2>6. g <= k + n /\ \A i \in 1..g : i \in 1..(g + m)
        BY <1>5, <2>3, <2>5
    <2>7. \A i \in 1..g : got[i] = said[i]
        BY <2>4, <2>5, <2>6
    <2>8. InOrder(said, got)
        BY <1>5, <2>3, <2>6, <2>7 DEF InOrder
    <2> QED BY <1>2, <2>2, <2>8 DEF InOrder
<1> QED BY <1>2, <1>4, <1>8, <1>9 DEF FrameInv

LEMMA FrameStep ==
    ASSUME FrameInv, [Frames!Next]_(Frames!vars)
    PROVE  FrameInv'
<1>1. ASSUME NEW message \in Bodies, Frames!Say(message) PROVE FrameInv'
    BY <1>1, SayStep
<1>2. ASSUME NEW noise \in Noise, Frames!Interject(noise) PROVE FrameInv'
    BY <1>2, InterjectStep
<1>3. ASSUME NEW n, Frames!Write(n) PROVE FrameInv'
    BY <1>3, WriteStep
<1>4. ASSUME NEW n, Frames!Feed(n) PROVE FrameInv'
    BY <1>4, FeedStep
<1>5. CASE Frames!Take
    BY <1>5, TakeStep
<1>6. CASE Frames!Return
    BY <1>6, ReturnStep
<1>7. CASE Frames!Fail
    BY <1>7, FailStep
<1>8. CASE UNCHANGED Frames!vars
    <2>1. /\ said' = said /\ framing' = framing /\ unwritten' = unwritten
          /\ pipe' = pipe
          /\ unread' = unread /\ got' = got /\ batch' = batch /\ state' = state
        BY <1>8 DEF Frames!vars
    <2>2. Frames!Taken' = Frames!Taken /\ Frames!Nothing' = Frames!Nothing
        BY <2>1, TakenStays DEF Frames!Nothing
    <2>3. Wire' = Wire /\ Passed' = Passed /\ FrameTypes' = FrameTypes
        BY <2>1 DEF Wire, Passed, FrameTypes, Messages
    <2>4. InOrder(said, Passed)'
        BY <2>1, <2>3 DEF InOrder, FrameInv
    <2>5. ASSUME state' # "failed" PROVE (\E p, n : Cuts(p, n, Wire, said, Len(Passed)))'
        <3> PICK p, n : Cuts(p, n, Wire, said, Len(Passed))
            BY <2>1, <2>5 DEF FrameInv
        <3>1. Cuts(p, n, Wire', said', Len(Passed'))
            BY <2>1, <2>3
        <3>2. Cuts(p, n, Wire, said, Len(Passed))'
            BY <2>1, <3>1 DEF Cuts, Ordered, Holds, Noisy, Frames!Encoded
        <3> QED BY <3>2
    <2>6. ASSUME state' = "failed" PROVE batch' = <<>> /\ (\E i \in DOMAIN said : ~Frames!Valid(said[i]))'
        BY <2>1, <2>6 DEF FrameInv, Frames!Valid
    <2>7. FrameTypes'
        BY <2>3 DEF FrameInv
    <2> QED BY <2>1, <2>2, <2>4, <2>5, <2>6, <2>7 DEF FrameInv
<1> QED BY <1>1, <1>2, <1>3, <1>4, <1>5, <1>6, <1>7, <1>8 DEF Frames!Next

LEMMA FramesWhole == FrameInv => Frames!FramesAreWhole
<1> SUFFICES ASSUME FrameInv PROVE Frames!FramesAreWhole
    OBVIOUS
<1>1. FrameTypes /\ InOrder(said, Passed) /\ said \in Messages
    BY DEF FrameInv, FrameTypes
<1>2. got \in Seq(Bodies) /\ batch \in Seq(Bodies) /\ said \in Seq(Bodies)
    BY <1>1 DEF FrameTypes, Messages
<1>3. PICK g \in Nat, m \in Nat, l \in Nat : g = Len(got) /\ m = Len(batch) /\ l = Len(said)
    BY <1>2, LenProperties
<1>4. Len(Passed) = g + m /\ \A i \in 1..g : Passed[i] = got[i]
    BY <1>2, <1>3 DEF Passed
<1>5. g + m <= l /\ \A i \in 1..(g + m) : Passed[i] = said[i]
    BY <1>1, <1>3, <1>4 DEF InOrder
<1>6. g <= l /\ \A i \in 1..g : i \in 1..(g + m)
    BY <1>5
<1>7. \A i \in 1..g : got[i] = said[i]
    BY <1>4, <1>5, <1>6
<1>8. Len(got) <= Len(said) /\ got = SubSeq(said, 1, Len(got))
    BY <1>2, <1>3, <1>6, <1>7
<1>9. ASSUME state = "waits", unwritten = <<>>, pipe = <<>> PROVE got = said
    <2>1. batch = <<>> /\ Frames!Taken = Frames!Nothing
        BY <1>9 DEF FrameInv
    <2>2. Passed = got /\ Wire = unread
        <3>1. unread \in Seq(Bytes) /\ <<>> \in Seq(Bytes)
            BY <1>1 DEF FrameTypes
        <3> QED
            BY <1>2, <1>9, <2>1, <3>1, JoinEmpty, ConcatEmptySeq
            DEF Passed, Wire
    <2> PICK p, n : Cuts(p, n, Wire, said, Len(Passed))
        BY <1>9 DEF FrameInv
    <2>3. n \in Nat /\ l = g + n /\ p \in [0..n -> Nat] /\ p[n] = Len(unread)
        BY <1>3, <2>2 DEF Cuts, Ordered
    <2>4. n = 0
        <3> SUFFICES ASSUME n > 0 PROVE FALSE
            BY <2>3
        <3> DEFINE message == said[g + 1]
        <3>1. TakesRight(p[0], message)
            BY <1>1, <1>3, <2>2, TakenIsNext
        <3>2. Len(unread) < Whole(p[0], message)
            BY <2>1, <3>1, OtherFacts DEF TakesRight
        <3>3. /\ 0 \in 0..n /\ 1 \in 0..n /\ n \in 0..n /\ 1 <= n /\ 1 \in 1..n
              /\ 1 - 1 = 0
            BY <2>3
        <3>4. /\ Holds(Wire, p[0], p[1], message) /\ p[1] <= p[n] /\ p[1] \in Nat
              /\ p[n] \in Nat
            BY <1>3, <2>2, <2>3, <3>3 DEF Cuts, Ordered
        <3>5. p[1] = Whole(p[0], message)
            BY <3>4 DEF Holds, Whole
        <3> QED BY <2>3, <3>2, <3>4, <3>5
    <2>5. l = g
        BY <1>3, <2>3, <2>4
    <2> QED BY <1>2, <1>3, <1>7, <2>5, SeqEqual
<1>10. state = "failed" => \E i \in DOMAIN said : ~Frames!Valid(said[i])
    BY DEF FrameInv
<1> QED BY <1>8, <1>9, <1>10 DEF Frames!FramesAreWhole

(* FramesAreWhole of Framing: however the bytes are cut, the messages that *)
(* arrive are those said, in order, and only an invalid one ends a stream. *)
THEOREM FramesAlwaysWhole == Frames!Spec => []Frames!FramesAreWhole
<1>1. FrameInv /\ [Frames!Next]_(Frames!vars) => FrameInv'
    BY FrameStep
<1> QED BY FrameInit, <1>1, FramesWhole, PTL DEF Frames!Spec

-----------------------------------------------------------------------------
(* A command line: what the reader of Windows makes of the arguments that  *)
(* were quoted and joined is the arguments.                                *)
Chars == {"\\", "q", " ", "\t", "-"} \cup STRING
SplitState(d, c, k, o, a) == [done |-> d, current |-> c, slashes |-> k, open |-> o, any |-> a]

LEMMA SomeChars == {"\\", "q", " ", "\t", "-"} \subseteq Chars
BY Zenon DEF Chars

LEMMA TimesIs ==
    ASSUME NEW n \in Nat, NEW c \in Chars
    PROVE  Lines!Times(c, n) \in Seq(Chars) /\ Len(Lines!Times(c, n)) = n /\ \A i \in 1..n : Lines!Times(c, n)[i] = c
BY DEF Lines!Times

LEMMA TimesNext ==
    ASSUME NEW n \in Nat
    PROVE  /\ Lines!Times("\\", n + 1) = Lines!Times("\\", n) \o <<"\\">>
           /\ Lines!Times("\\", 0) = <<>>
<1>0. "\\" \in Chars
    BY SomeChars
<1> HIDE DEF Chars
<1>1. Lines!Times("\\", 0) = <<>>
    BY DEF Lines!Times
<1> DEFINE x == Lines!Times("\\", n + 1)
           y == Lines!Times("\\", n)
           z == <<"\\">>
<1>2. /\ x \in Seq(Chars) /\ Len(x) = n + 1 /\ \A i \in 1..(n + 1) : x[i] = "\\"
    BY <1>0, TimesIs
<1>3. y \in Seq(Chars) /\ Len(y) = n /\ \A i \in 1..n : y[i] = "\\"
    BY <1>0, TimesIs
<1>4. z \in Seq(Chars) /\ Len(z) = 1 /\ z[1] = "\\"
    BY <1>0
<1> HIDE DEF x, y, z
<1>5. /\ y \o z \in Seq(Chars) /\ Len(y \o z) = Len(y) + Len(z)
      /\ \A i \in 1..(Len(y) + Len(z)) :
            (y \o z)[i] = IF i <= Len(y) THEN y[i] ELSE z[i - Len(y)]
    BY <1>3, <1>4, ConcatProperties
<1>8. Len(y \o z) = n + 1
    BY <1>3, <1>4, <1>5
<1>6. \A i \in 1..(n + 1) : (y \o z)[i] = "\\"
    <2> TAKE i \in 1..(n + 1)
    <2>1. (y \o z)[i] = IF i <= n THEN y[i] ELSE z[i - n]
        BY <1>3, <1>4, <1>5
    <2>2. CASE i <= n
        <3>1. i \in 1..n
            BY <2>2
        <3> QED BY <1>3, <2>1, <2>2, <3>1
    <2>3. CASE ~(i <= n)
        <3>1. i - n = 1
            BY <2>3
        <3> QED BY <1>4, <2>1, <2>3, <3>1
    <2> QED BY <2>2, <2>3
<1>7. x = y \o z
    BY <1>2, <1>5, <1>6, <1>8, SeqEqual
<1> QED BY <1>1, <1>7 DEF x, y, z

LEMMA PrefixNext ==
    ASSUME NEW S, NEW s \in Seq(S), NEW i \in Nat, i < Len(s)
    PROVE  /\ SubSeq(s, 1, i) \in Seq(S) /\ Len(SubSeq(s, 1, i)) = i
           /\ SubSeq(s, 1, i + 1) = SubSeq(s, 1, i) \o <<s[i + 1]>>
           /\ SubSeq(s, 1, i + 1) = Append(SubSeq(s, 1, i), s[i + 1])
           /\ SubSeq(s, 1, i + 1) \in Seq(S)
           /\ s[i + 1] \in S
<1>1. PICK n \in Nat : n = Len(s) /\ i < n
    BY LenProperties
<1>2. s[i + 1] \in S /\ <<s[i + 1]>> \in Seq(S)
    BY <1>1
<1> DEFINE x == SubSeq(s, 1, i)
           y == SubSeq(s, 1, i + 1)
           e == s[i + 1]
<1>3. x \in Seq(S) /\ Len(x) = i /\ \A j \in 1..i : x[j] = s[j]
    BY <1>1
<1>4. y \in Seq(S) /\ Len(y) = i + 1 /\ \A j \in 1..(i + 1) : y[j] = s[j]
    BY <1>1
<1> HIDE DEF x, y
<1>5. Append(x, e) \in Seq(S) /\ Len(Append(x, e)) = i + 1
      /\ \A j \in 1..(i + 1) : Append(x, e)[j] = IF j <= i THEN x[j] ELSE e
    BY <1>2, <1>3
<1>6. \A j \in 1..(i + 1) : j \in 1..i \/ j = i + 1
    OBVIOUS
<1>7. \A j \in 1..(i + 1) : Append(x, e)[j] = y[j]
    BY <1>3, <1>4, <1>5, <1>6
<1>8. y = Append(x, e)
    BY <1>4, <1>5, <1>7, SeqEqual
<1>9. Append(x, e) = x \o <<e>>
    BY <1>2, <1>3, AppendIsConcat
<1> QED BY <1>2, <1>3, <1>4, <1>8, <1>9 DEF x, y

LEMMA PrefixAll ==
    ASSUME NEW S, NEW s \in Seq(S)
    PROVE  SubSeq(s, 1, Len(s)) = s /\ SubSeq(s, 1, 0) = <<>>
OBVIOUS

-----------------------------------------------------------------------------
(* Reading a text, from a state to a state.                                *)
Reads(s, x, t) ==
    \E g : g[0] = s /\ g[Len(x)] = t /\ \A i \in 1..Len(x) : g[i] = Lines!Splits(g[i - 1], x[i])

LEMMA ReadsOne ==
    ASSUME NEW s, NEW c
    PROVE  Reads(s, <<c>>, Lines!Splits(s, c))
<1> DEFINE g == [i \in 0..1 |-> IF i = 0 THEN s ELSE Lines!Splits(s, c)]
<1>1. g[0] = s /\ g[1] = Lines!Splits(s, c)
    OBVIOUS
<1>2. Len(<<c>>) = 1 /\ \A i \in 1..1 : i = 1 /\ i - 1 = 0 /\ <<c>>[i] = c
    OBVIOUS
<1> HIDE DEF g
<1>3. \A i \in 1..Len(<<c>>) : g[i] = Lines!Splits(g[i - 1], <<c>>[i])
    BY <1>1, <1>2
<1> QED BY <1>1, <1>2, <1>3 DEF Reads

LEMMA ReadsNone ==
    ASSUME NEW s
    PROVE  Reads(s, <<>>, s)
<1> DEFINE g == [i \in {0} |-> s]
<1>1. g[0] = s /\ Len(<<>>) = 0 /\ \A i \in 1..0 : FALSE
    OBVIOUS
<1> QED BY <1>1 DEF Reads

LEMMA ReadsJoined ==
    ASSUME NEW s, NEW t, NEW u, NEW x \in Seq(Chars), NEW y \in Seq(Chars),
           Reads(s, x, t), Reads(t, y, u)
    PROVE  Reads(s, x \o y, u)
<1>1. PICK m \in Nat, n \in Nat : m = Len(x) /\ n = Len(y)
    BY LenProperties
<1>2. PICK g : g[0] = s /\ g[m] = t /\ \A i \in 1..m : g[i] = Lines!Splits(g[i - 1], x[i])
    BY <1>1 DEF Reads
<1>3. PICK h : h[0] = t /\ h[n] = u /\ \A i \in 1..n : h[i] = Lines!Splits(h[i - 1], y[i])
    BY <1>1 DEF Reads
<1> DEFINE f == [i \in 0..(m + n) |-> IF i <= m THEN g[i] ELSE h[i - m]]
<1>4. \A i \in 0..(m + n) : f[i] = IF i <= m THEN g[i] ELSE h[i - m]
    OBVIOUS
<1>5. Len(x \o y) = m + n
      /\ \A i \in 1..(m + n) : (x \o y)[i] = IF i <= m THEN x[i] ELSE y[i - m]
    BY <1>1, ConcatProperties
<1> HIDE DEF f
<1>6. f[0] = s
    BY <1>2, <1>4
<1>7. f[m + n] = u
    <2>1. CASE n = 0
        BY <1>2, <1>3, <1>4, <2>1
    <2>2. CASE n # 0
        <3>1. m + n \in 0..(m + n) /\ ~(m + n <= m) /\ (m + n) - m = n
            BY <2>2
        <3> QED BY <1>3, <1>4, <3>1
    <2> QED BY <2>1, <2>2
<1>8. ASSUME NEW i \in 1..(m + n) PROVE f[i] = Lines!Splits(f[i - 1], (x \o y)[i])
    <2>0. i \in 0..(m + n) /\ i - 1 \in 0..(m + n)
        OBVIOUS
    <2>1. CASE i <= m
        <3>1. i \in 1..m /\ i - 1 <= m
            BY <2>1
        <3> QED BY <1>2, <1>4, <1>5, <2>0, <2>1, <3>1
    <2>2. CASE ~(i <= m)
        <3>1. i - m \in 1..n /\ (i - m) - 1 = (i - 1) - m
            BY <2>2
        <3>2. f[i] = h[i - m] /\ (x \o y)[i] = y[i - m]
            BY <1>4, <1>5, <2>0, <2>2
        <3>3. f[i - 1] = h[(i - m) - 1]
            <4>1. CASE i - 1 <= m
                <5>1. i - 1 = m /\ (i - m) - 1 = 0
                    BY <2>2, <4>1
                <5> QED BY <1>2, <1>3, <1>4, <2>0, <4>1, <5>1
            <4>2. CASE ~(i - 1 <= m)
                BY <1>4, <2>0, <3>1, <4>2
            <4> QED BY <4>1, <4>2
        <3> QED BY <1>3, <3>1, <3>2, <3>3
    <2> QED BY <2>1, <2>2
<1> QED BY <1>5, <1>6, <1>7, <1>8 DEF Reads

SplitsBy(f, x) == f = [i \in 0..Len(x) |-> IF i = 0 THEN Lines!Start0 ELSE Lines!Splits(f[i - 1], x[i])]

LEMMA PartsIs ==
    ASSUME NEW x
    PROVE  Lines!Parts(x) = Lines!Ended((CHOOSE f : SplitsBy(f, x))[Len(x)]).done
BY Zenon DEF Lines!Parts, SplitsBy

LEMMA PartsRead ==
    ASSUME NEW x \in Seq(Chars), NEW t, Reads(Lines!Start0, x, t)
    PROVE  Lines!Parts(x) = Lines!Ended(t).done
<1>1. PICK n \in Nat : n = Len(x)
    BY LenProperties
<1>2. PICK g : g[0] = Lines!Start0 /\ g[n] = t /\ \A i \in 1..n : g[i] = Lines!Splits(g[i - 1], x[i])
    BY <1>1 DEF Reads
<1>3. \E f : SplitsBy(f, x)
    <2> DEFINE f == [i \in 0..n |-> g[i]]
    <2>1. \A i \in 0..n : f[i] = g[i]
        OBVIOUS
    <2>0. f = [i \in 0..n |-> f[i]]
        OBVIOUS
    <2> HIDE DEF f
    <2>2. ASSUME NEW i \in 0..n PROVE f[i] = IF i = 0 THEN Lines!Start0 ELSE Lines!Splits(f[i - 1], x[i])
        <3>1. CASE i = 0
            BY <1>2, <2>1, <3>1
        <3>2. CASE i # 0
            <4>1. i \in 1..n /\ i - 1 \in 0..n
                BY <3>2
            <4> QED BY <1>2, <2>1, <3>2, <4>1
        <3> QED BY <3>1, <3>2
    <2>3. f = [i \in 0..n |-> IF i = 0 THEN Lines!Start0 ELSE Lines!Splits(f[i - 1], x[i])]
        BY <2>0, <2>2
    <2> QED BY <1>1, <2>3 DEF SplitsBy
<1> DEFINE a == CHOOSE f : SplitsBy(f, x)
<1>4. SplitsBy(a, x)
    BY <1>3
<1> HIDE DEF a
<1>5. \A i \in 0..n : a[i] = IF i = 0 THEN Lines!Start0 ELSE Lines!Splits(a[i - 1], x[i])
    BY <1>1, <1>4 DEF SplitsBy
<1> DEFINE T == {i \in Nat : i <= n => a[i] = g[i]}
<1>6. 0 \in T
    BY <1>2, <1>5
<1>7. ASSUME NEW i \in Nat, i \in T PROVE i + 1 \in T
    <2> SUFFICES ASSUME i + 1 <= n PROVE a[i + 1] = g[i + 1]
        OBVIOUS
    <2>1. i + 1 \in 1..n /\ i + 1 \in 0..n /\ (i + 1) - 1 = i /\ i <= n /\ i + 1 # 0
        OBVIOUS
    <2>2. a[i] = g[i]
        BY <1>7, <2>1
    <2> QED BY <1>2, <1>5, <2>1, <2>2
<1> HIDE DEF T
<1>8. Nat \subseteq T
    BY <1>6, <1>7, InductionOverASet
<1>9. a[n] = g[n]
    BY <1>8 DEF T
<1> QED BY <1>1, <1>2, <1>9, PartsIs DEF a

(* In the middle of a quoted argument, of one without quotes, and between   *)
(* two arguments.                                                          *)
Open(d, c, k) == SplitState(d, c, k, TRUE, TRUE)
Closed(d, c, k) == SplitState(d, c, k, FALSE, TRUE)
Fresh(d) == SplitState(d, <<>>, 0, FALSE, FALSE)

LEMMA SlashRead ==
    ASSUME NEW d, d # <<>>, NEW c, NEW k \in Nat
    PROVE  /\ Lines!Splits(Open(d, c, k), "\\") = Open(d, c, k + 1)
           /\ Lines!Splits(Closed(d, c, k), "\\") = Closed(d, c, k + 1)
           /\ Lines!Splits(Fresh(d), "\\") = Closed(d, <<>>, 1)
<1>1. Lines!Splits(Open(d, c, k), "\\") = Open(d, c, k + 1)
    BY DEF Lines!Splits, SplitState, Open
<1>2. Lines!Splits(Closed(d, c, k), "\\") = Closed(d, c, k + 1)
    BY DEF Lines!Splits, SplitState, Closed
<1>3. Lines!Splits(Fresh(d), "\\") = Closed(d, <<>>, 1)
    <2>1. Fresh(d).done = d /\ Fresh(d).slashes = 0 /\ 0 + 1 = 1
        BY DEF SplitState, Fresh
    <2>2. Lines!Splits(Fresh(d), "\\") = [Fresh(d) EXCEPT !.slashes = 1, !.any = TRUE]
        BY <2>1 DEF Lines!Splits
    <2> QED BY <2>2 DEF SplitState, Closed, Fresh
<1> QED BY <1>1, <1>2, <1>3

LEMMA QuoteOpens ==
    ASSUME NEW d
    PROVE  Lines!Splits(Fresh(d), "q") = Open(d, <<>>, 0)
<1>1. <<>> \o Lines!Times("\\", 0) \o <<>> = <<>> /\ 0 % 2 # 1 /\ 0 \div 2 = 0
    BY DEF Lines!Times
<1> QED BY <1>1 DEF Lines!Splits, SplitState, Open, Fresh

LEMMA QuoteMeant ==
    ASSUME NEW d, NEW c, NEW k \in Nat, k % 2 = 1
    PROVE  Lines!Splits(Open(d, c, k), "q") = Open(d, (c \o Lines!Times("\\", k \div 2)) \o <<"q">>, 0)
BY DEF Lines!Splits, SplitState, Open

LEMMA QuoteCloses ==
    ASSUME NEW d, NEW c, NEW k \in Nat, k % 2 = 0
    PROVE  Lines!Splits(Open(d, c, k), "q") = Closed(d, (c \o Lines!Times("\\", k \div 2)) \o <<>>, 0)
<1>1. k % 2 # 1 /\ (~TRUE) = FALSE
    OBVIOUS
<1>2. /\ Open(d, c, k).slashes = k /\ Open(d, c, k).open = TRUE
      /\ Open(d, c, k).current = c /\ Open(d, c, k).done = d
    BY DEF Open, SplitState
<1>3. Lines!Splits(Open(d, c, k), "q")
      = [Open(d, c, k) EXCEPT !.slashes = 0, !.any = TRUE, !.open = FALSE,
                              !.current = (c \o Lines!Times("\\", k \div 2)) \o <<>>]
    BY <1>1, <1>2 DEF Lines!Splits
<1> QED BY <1>3 DEF Open, Closed, SplitState

LEMMA OpenRead ==
    ASSUME NEW d, NEW c, NEW k \in Nat, NEW ch, ch # "q", ch # "\\" \/ d = <<>>
    PROVE  Lines!Splits(Open(d, c, k), ch) = Open(d, (c \o Lines!Times("\\", k)) \o <<ch>>, 0)
BY DEF Lines!Splits, SplitState, Open

LEMMA ClosedRead ==
    ASSUME NEW d, NEW c, NEW k \in Nat, NEW ch, ch # "q", ch # "\\" \/ d = <<>>, ch \notin Lines!Blank
    PROVE  /\ Lines!Splits(Closed(d, c, k), ch) = Closed(d, (c \o Lines!Times("\\", k)) \o <<ch>>, 0)
           /\ Lines!Splits(Fresh(d), ch) = Closed(d, (<<>> \o Lines!Times("\\", 0)) \o <<ch>>, 0)
BY DEF Lines!Splits, SplitState, Closed, Fresh

LEMMA BlankRead ==
    ASSUME NEW d, NEW c, NEW k \in Nat
    PROVE  /\ Lines!Splits(Closed(d, c, k), " ") = Fresh(Append(d, c \o Lines!Times("\\", k)))
           /\ Lines!Ended(Closed(d, c, k)).done = Append(d, c \o Lines!Times("\\", k))
BY DEF Lines!Splits, SplitState, Lines!Ended, Lines!Start0, Lines!Blank, Closed,
   Fresh

LEMMA SlashesRead ==
    ASSUME NEW d, d # <<>>, NEW c, NEW k \in Nat, NEW n \in Nat
    PROVE  Reads(Open(d, c, k), Lines!Times("\\", n), Open(d, c, k + n))
<1> DEFINE g == [i \in 0..n |-> Open(d, c, k + i)]
<1>1. Len(Lines!Times("\\", n)) = n /\ \A i \in 1..n : Lines!Times("\\", n)[i] = "\\"
    BY SomeChars, TimesIs
<1>2. g[0] = Open(d, c, k) /\ g[n] = Open(d, c, k + n)
    <2>1. 0 \in 0..n /\ n \in 0..n /\ k + 0 = k
        OBVIOUS
    <2> QED BY <2>1
<1>3. ASSUME NEW i \in 1..n PROVE g[i] = Lines!Splits(g[i - 1], "\\")
    <2>1. /\ i \in 0..n /\ i - 1 \in 0..n /\ k + (i - 1) \in Nat
          /\ (k + (i - 1)) + 1 = k + i
        OBVIOUS
    <2>2. g[i] = Open(d, c, k + i) /\ g[i - 1] = Open(d, c, k + (i - 1))
        BY <2>1
    <2> QED BY <2>1, <2>2, SlashRead
<1> HIDE DEF g
<1> QED BY <1>1, <1>2, <1>3 DEF Reads

-----------------------------------------------------------------------------
(* A quoted argument, one character at a time.                             *)
QuotesBy(f, x) ==
    f = [i \in 0..Len(x) |-> IF i = 0 THEN [quoted |-> <<"q">>, slashes |-> 0]
                             ELSE Lines!Character(f[i - 1], x[i])]

LEMMA QuotedIs ==
    ASSUME NEW x
    PROVE  /\ Lines!Plain(x) => Lines!Quoted(x) = x
           /\ ~Lines!Plain(x) => Lines!Quoted(x) = Lines!Closing((CHOOSE f : QuotesBy(f, x))[Len(x)])
BY Zenon DEF Lines!Quoted, QuotesBy

QuotedStates == [quoted : Seq(Chars), slashes : Nat]

LEMMA CharacterIs ==
    ASSUME NEW s \in QuotedStates, NEW c \in Chars
    PROVE  /\ Lines!Character(s, c) \in QuotedStates
           /\ c = "\\" => Lines!Character(s, c).quoted = s.quoted /\ Lines!Character(s, c).slashes = s.slashes + 1
           /\ c # "\\" =>
                /\ Lines!Character(s, c).quoted =
                     (s.quoted \o Lines!Times("\\", IF c = "q" THEN 2 * s.slashes + 1 ELSE s.slashes)) \o <<c>>
                /\ Lines!Character(s, c).slashes = 0
<1> DEFINE e == IF c = "q" THEN 2 * s.slashes + 1 ELSE s.slashes
<1>0. s.quoted \in Seq(Chars) /\ s.slashes \in Nat
    BY DEF QuotedStates
<1>1. e \in Nat
    BY <1>0
<1>7. "\\" \in Chars
    BY SomeChars
<1>2. Lines!Times("\\", e) \in Seq(Chars) /\ <<c>> \in Seq(Chars)
    BY <1>1, <1>7, TimesIs
<1> HIDE DEF e
<1>3. s.quoted \o Lines!Times("\\", e) \in Seq(Chars)
    BY <1>0, <1>2, Joining
<1>4. (s.quoted \o Lines!Times("\\", e)) \o <<c>> \in Seq(Chars)
    BY <1>2, <1>3, Joining
<1>5. CASE c = "\\"
    <2>1. Lines!Character(s, c) = [s EXCEPT !.slashes = s.slashes + 1]
        BY <1>5 DEF Lines!Character
    <2> QED BY <1>0, <1>5, <2>1 DEF QuotedStates
<1>6. CASE c # "\\"
    <2>1. Lines!Character(s, c) = [quoted |-> (s.quoted \o Lines!Times("\\", e)) \o <<c>>, slashes |-> 0]
        BY <1>6 DEF Lines!Character, e
    <2> QED BY <1>4, <1>6, <2>1 DEF QuotedStates, e
<1> QED BY <1>5, <1>6

LEMMA CharsJoin == \A r, s, t \in Seq(Chars) : (r \o s) \o t = r \o (s \o t)
BY Joining

LEMMA QuotesExist ==
    ASSUME NEW x \in Seq(Chars)
    PROVE  \E f : QuotesBy(f, x)
<1>1. PICK n \in Nat : n = Len(x)
    BY LenProperties
<1> DEFINE Start == [quoted |-> <<"q">>, slashes |-> 0]
           Reached(m) == \E f : f \in [0..m -> QuotedStates] /\ f[0] = Start
                             /\ \A i \in 1..m : f[i] = Lines!Character(f[i - 1], x[i])
           T == {m \in Nat : m <= n => Reached(m)}
<1>2. Start \in QuotedStates
    <2>0. "q" \in Chars
        BY SomeChars
    <2>1. <<"q">> \in Seq(Chars)
        BY <2>0
    <2> QED BY <2>1 DEF QuotedStates
<1> HIDE DEF Start
<1>3. 0 \in T
    <2> DEFINE f == [i \in 0..0 |-> Start]
    <2>1. f \in [0..0 -> QuotedStates] /\ f[0] = Start /\ \A i \in 1..0 : FALSE
        BY <1>2
    <2> HIDE DEF f
    <2> QED BY <2>1
<1>4. ASSUME NEW m \in Nat, m \in T PROVE m + 1 \in T
    <2> SUFFICES ASSUME m + 1 <= n PROVE Reached(m + 1)
        OBVIOUS
    <2>1. m <= n /\ m + 1 \in 1..n
        OBVIOUS
    <2> PICK f : f \in [0..m -> QuotedStates] /\ f[0] = Start
                 /\ \A i \in 1..m : f[i] = Lines!Character(f[i - 1], x[i])
        BY <1>4, <2>1
    <2> DEFINE g == [i \in 0..(m + 1) |-> IF i <= m THEN f[i] ELSE Lines!Character(f[m], x[m + 1])]
    <2>2. Lines!Character(f[m], x[m + 1]) \in QuotedStates
        <3>1. x[m + 1] \in Chars /\ f[m] \in QuotedStates
            BY <1>1, <2>1
        <3> QED BY <3>1, CharacterIs
    <2>3. \A i \in 0..(m + 1) : g[i] = IF i <= m THEN f[i] ELSE Lines!Character(f[m], x[m + 1])
        OBVIOUS
    <2>4. g \in [0..(m + 1) -> QuotedStates]
        BY <2>2
    <2> HIDE DEF g
    <2>5. g[0] = Start
        BY <2>3
    <2>6. ASSUME NEW i \in 1..(m + 1) PROVE g[i] = Lines!Character(g[i - 1], x[i])
        <3>1. i \in 0..(m + 1) /\ i - 1 \in 0..(m + 1) /\ i - 1 <= m
            OBVIOUS
        <3>2. CASE i <= m
            <4>1. i \in 1..m
                BY <3>2
            <4> QED BY <2>3, <3>1, <3>2, <4>1
        <3>3. CASE ~(i <= m)
            <4>1. i = m + 1 /\ i - 1 = m
                BY <3>3
            <4> QED BY <2>3, <3>1, <3>3, <4>1
        <3> QED BY <3>2, <3>3
    <2> QED BY <2>4, <2>5, <2>6
<1>5. Reached(n)
    <2> HIDE DEF T, Reached
    <2>1. Nat \subseteq T
        BY <1>3, <1>4, InductionOverASet
    <2> QED BY <2>1 DEF T
<1> PICK f : f \in [0..n -> QuotedStates] /\ f[0] = Start
             /\ \A i \in 1..n : f[i] = Lines!Character(f[i - 1], x[i])
    BY <1>5
<1>6. ASSUME NEW i \in 0..n PROVE f[i] = IF i = 0 THEN Start ELSE Lines!Character(f[i - 1], x[i])
    <2>1. CASE i = 0
        BY <2>1
    <2>2. CASE i # 0
        <3>1. i \in 1..n
            BY <2>2
        <3> QED BY <2>2, <3>1
    <2> QED BY <2>1, <2>2
<1>7. f = [i \in 0..n |-> f[i]]
    OBVIOUS
<1>8. f = [i \in 0..n |-> IF i = 0 THEN Start ELSE Lines!Character(f[i - 1], x[i])]
    BY <1>6, <1>7
<1> QED BY <1>1, <1>8 DEF QuotesBy, Start

LEMMA QuotesStep ==
    ASSUME NEW x \in Seq(Chars), NEW n \in Nat, n = Len(x), NEW f, QuotesBy(f, x)
    PROVE  /\ f[0].quoted = <<"q">> /\ f[0].slashes = 0
           /\ \A i \in 0..n : f[i] \in QuotedStates
           /\ \A i \in 1..n : f[i] = Lines!Character(f[i - 1], x[i])
<1>1. \A i \in 0..n : f[i] = IF i = 0 THEN [quoted |-> <<"q">>, slashes |-> 0]
                             ELSE Lines!Character(f[i - 1], x[i])
    BY DEF QuotesBy
<1>2. f[0] = [quoted |-> <<"q">>, slashes |-> 0]
    BY <1>1
<1>3. \A i \in 1..n : f[i] = Lines!Character(f[i - 1], x[i])
    BY <1>1
<1> DEFINE T == {i \in Nat : i <= n => f[i] \in QuotedStates}
<1>4. 0 \in T
    <2>0. "q" \in Chars
        BY SomeChars
    <2>1. <<"q">> \in Seq(Chars)
        BY <2>0
    <2>2. [quoted |-> <<"q">>, slashes |-> 0] \in QuotedStates
        BY <2>1 DEF QuotedStates
    <2>3. f[0] \in QuotedStates
        BY <1>2, <2>2
    <2> QED BY <2>3
<1>5. ASSUME NEW i \in Nat, i \in T PROVE i + 1 \in T
    <2> SUFFICES ASSUME i + 1 <= n PROVE f[i + 1] \in QuotedStates
        OBVIOUS
    <2>1. i + 1 \in 1..n /\ (i + 1) - 1 = i /\ i <= n
        OBVIOUS
    <2>2. x[i + 1] \in Chars /\ f[i] \in QuotedStates
        BY <1>5, <2>1
    <2>3. Lines!Character(f[i], x[i + 1]) \in QuotedStates
        BY Zenon, <2>2, CharacterIs
    <2> QED BY <1>3, <2>1, <2>3
<1> HIDE DEF T
<1>6. Nat \subseteq T
    BY <1>4, <1>5, InductionOverASet
<1> QED BY <1>2, <1>3, <1>6 DEF T

LEMMA ParityFacts ==
    ASSUME NEW k \in Nat
    PROVE  /\ (2 * k) % 2 = 0 /\ (2 * k) \div 2 = k
           /\ (2 * k + 1) % 2 = 1 /\ (2 * k + 1) \div 2 = k
OBVIOUS

(* What a process has read of the first i characters of an argument.       *)
SoFar(f, x, d, i) ==
    \E c \in Seq(Chars) :
        /\ Reads(Fresh(d), f[i].quoted, Open(d, c, 0))
        /\ c \o Lines!Times("\\", f[i].slashes) = SubSeq(x, 1, i)

LEMMA SoFarStarts ==
    ASSUME NEW x \in Seq(Chars), NEW f, QuotesBy(f, x), NEW d
    PROVE  SoFar(f, x, d, 0)
<1>1. f[0].quoted = <<"q">> /\ f[0].slashes = 0
    BY LenProperties, QuotesStep
<1>2. <<>> \in Seq(Chars)
    OBVIOUS
<1>3. Lines!Times("\\", 0) = <<>>
    BY TimesNext
<1>4. (<<>> \o <<>>) \o <<>> = <<>>
    OBVIOUS
<1>5. Lines!Splits(Fresh(d), "q") = Open(d, <<>>, 0)
    BY QuoteOpens
<1>6. Reads(Fresh(d), <<"q">>, Open(d, <<>>, 0))
    BY <1>5, ReadsOne
<1>7. <<>> \o Lines!Times("\\", f[0].slashes) = SubSeq(x, 1, 0)
    <2>1. SubSeq(x, 1, 0) = <<>> /\ <<>> \o <<>> = <<>>
        BY PrefixAll
    <2> QED BY Zenon, <1>1, <1>3, <2>1
<1> QED BY <1>1, <1>2, <1>6, <1>7 DEF SoFar

LEMMA SoFarGoesOn ==
    ASSUME NEW x \in Seq(Chars), NEW n \in Nat, n = Len(x), NEW f, QuotesBy(f, x),
           NEW d, d # <<>>, NEW i \in Nat, i < n, SoFar(f, x, d, i)
    PROVE  SoFar(f, x, d, i + 1)
<1>0. i \in 0..n /\ i + 1 \in 1..n /\ (i + 1) - 1 = i /\ i + 1 \in 0..n
    OBVIOUS
<1>1. f[i] \in QuotedStates /\ f[i + 1] = Lines!Character(f[i], x[i + 1])
    BY <1>0, QuotesStep
<1>2. /\ SubSeq(x, 1, i) \in Seq(Chars) /\ x[i + 1] \in Chars
      /\ SubSeq(x, 1, i + 1) = SubSeq(x, 1, i) \o <<x[i + 1]>>
    BY PrefixNext
<1>8. PICK ch \in Chars : ch = x[i + 1]
    BY <1>2
<1>9. PICK s \in QuotedStates : s = f[i] /\ f[i + 1] = Lines!Character(s, ch)
    BY <1>1, <1>8
<1>3. s.quoted \in Seq(Chars) /\ s.slashes \in Nat
    BY DEF QuotedStates
<1>10. PICK q \in Seq(Chars), k \in Nat : q = s.quoted /\ k = s.slashes
    BY <1>3
<1> DEFINE p == SubSeq(x, 1, i)
           X == Lines!Times("\\", k)
<1>4. X \in Seq(Chars)
    BY SomeChars, TimesIs
<1>11. PICK c \in Seq(Chars) :
        /\ Reads(Fresh(d), q, Open(d, c, 0))
        /\ c \o X = p
    BY <1>9, <1>10 DEF SoFar
<1>5a. <<ch>> \in Seq(Chars)
    OBVIOUS
<1>6. CASE ch = "\\"
    <2>a. /\ Lines!Character(s, ch).quoted = s.quoted
          /\ Lines!Character(s, ch).slashes = s.slashes + 1
        BY Zenon, <1>6, CharacterIs
    <2>1. f[i + 1].quoted = q /\ f[i + 1].slashes = k + 1
        BY Zenon, <1>9, <1>10, <2>a
    <2>2. Lines!Times("\\", k + 1) = X \o <<"\\">>
        BY <1>3, TimesNext
    <2>3. c \o (X \o <<ch>>) = (c \o X) \o <<ch>>
        <3> HIDE DEF X
        <3> QED BY Zenon, <1>4, <1>5a, CharsJoin
    <2>4. c \o Lines!Times("\\", f[i + 1].slashes) = SubSeq(x, 1, i + 1)
        BY <1>2, <1>6, <1>8, <1>11, <2>1, <2>2, <2>3
    <2> QED BY <1>11, <2>1, <2>4 DEF SoFar
<1>7. CASE ch # "\\"
    <2> DEFINE e == IF ch = "q" THEN 2 * k + 1 ELSE k
               Y == Lines!Times("\\", e)
               v == (c \o X) \o <<ch>>
    <2>0. e \in Nat
        BY <1>3
    <2>a. /\ Lines!Character(s, ch).quoted =
                (s.quoted \o Lines!Times("\\", IF ch = "q" THEN 2 * s.slashes + 1 ELSE s.slashes)) \o <<ch>>
          /\ Lines!Character(s, ch).slashes = 0
        BY Zenon, <1>7, CharacterIs
    <2>1. f[i + 1].quoted = (q \o Y) \o <<ch>> /\ f[i + 1].slashes = 0
        BY Zenon, <1>9, <1>10, <2>a
    <2>2. Y \in Seq(Chars)
        BY <2>0, SomeChars, TimesIs
    <2>3. Reads(Open(d, c, 0), Y, Open(d, c, e))
        <3>1. 0 + e = e
            BY <2>0
        <3>2. Reads(Open(d, c, 0), Y, Open(d, c, 0 + e))
            BY <2>0, SlashesRead
        <3> QED BY <3>1, <3>2
    <2>4. Lines!Splits(Open(d, c, e), ch) = Open(d, v, 0)
        <3>1. CASE ch = "q"
            <4>1. e = 2 * k + 1 /\ e % 2 = 1 /\ e \div 2 = k
                BY <1>3, <3>1, ParityFacts
            <4> HIDE DEF e
            <4>2. Lines!Splits(Open(d, c, e), "q")
                  = Open(d, (c \o Lines!Times("\\", e \div 2)) \o <<"q">>, 0)
                BY <2>0, <4>1, QuoteMeant
            <4> QED BY <3>1, <4>1, <4>2
        <3>2. CASE ch # "q"
            <4>1. e = k
                BY <3>2
            <4>3. ch # "\\" \/ d = <<>>
                BY <1>7
            <4>2. Lines!Splits(Open(d, c, k), ch)
                  = Open(d, (c \o Lines!Times("\\", k)) \o <<ch>>, 0)
                BY <4>3, <3>2, OpenRead
            <4> QED BY <4>1, <4>2
        <3> QED BY <3>1, <3>2
    <2> HIDE DEF e, Y
    <2>5. Reads(Open(d, c, e), <<ch>>, Open(d, v, 0))
        BY <2>4, ReadsOne
    <2> HIDE DEF X
    <2>6. v \in Seq(Chars)
        <3>1. c \o X \in Seq(Chars)
            BY <1>4, Joining
        <3> QED BY <1>5a, <3>1, Joining
    <2> HIDE DEF v
    <2>7. q \o Y \in Seq(Chars)
        BY <1>3, <2>2, Joining
    <2>8. Reads(Fresh(d), q \o Y, Open(d, c, e))
        BY <1>11, <2>2, <2>3, ReadsJoined
    <2>9. Reads(Fresh(d), (q \o Y) \o <<ch>>, Open(d, v, 0))
        BY <1>5a, <2>5, <2>7, <2>8, ReadsJoined
    <2>10. v \o Lines!Times("\\", 0) = SubSeq(x, 1, i + 1)
        <3>1. v \o <<>> = v
            BY <2>6
        <3> QED BY <1>2, <1>8, <1>11, <3>1, TimesNext DEF v
    <2> QED BY <2>1, <2>6, <2>9, <2>10 DEF SoFar
<1> QED BY <1>6, <1>7

(* An argument that is not plain is read as it was.                        *)
LEMMA QuotedReads ==
    ASSUME NEW x \in Seq(Chars), ~Lines!Plain(x), NEW d, d # <<>>
    PROVE  Lines!Quoted(x) \in Seq(Chars) /\ Reads(Fresh(d), Lines!Quoted(x), Closed(d, x, 0))
<1>1. PICK n \in Nat : n = Len(x)
    BY LenProperties
<1> DEFINE f == CHOOSE g : QuotesBy(g, x)
<1>2. QuotesBy(f, x)
    BY QuotesExist
<1>3. Lines!Quoted(x) = Lines!Closing(f[n])
    BY <1>1, QuotedIs
<1> HIDE DEF f
<1> DEFINE T == {i \in Nat : i <= n => SoFar(f, x, d, i)}
<1>4. 0 \in T
    BY <1>2, SoFarStarts
<1>5. ASSUME NEW i \in Nat, i \in T PROVE i + 1 \in T
    <2> SUFFICES ASSUME i + 1 <= n PROVE SoFar(f, x, d, i + 1)
        OBVIOUS
    <2>1. i < n /\ SoFar(f, x, d, i)
        BY <1>5
    <2> QED BY <1>1, <1>2, <2>1, SoFarGoesOn
<1> HIDE DEF T
<1>6. SoFar(f, x, d, n)
    <2>1. Nat \subseteq T
        BY <1>4, <1>5, InductionOverASet
    <2> QED BY <2>1 DEF T
<1>7. n \in 0..n
    OBVIOUS
<1>8. f[n] \in QuotedStates
    BY <1>1, <1>2, <1>7, QuotesStep
<1>9. PICK q \in Seq(Chars), k \in Nat : q = f[n].quoted /\ k = f[n].slashes
    BY <1>8 DEF QuotedStates
<1>10. PICK c \in Seq(Chars) : Reads(Fresh(d), q, Open(d, c, 0)) /\ c \o Lines!Times("\\", k) = x
    <2>1. SubSeq(x, 1, n) = x
        BY <1>1, PrefixAll
    <2> QED BY <1>6, <1>9, <2>1 DEF SoFar
<1> DEFINE Y == Lines!Times("\\", 2 * k)
           z == <<"q">>
<1>11. Lines!Quoted(x) = (q \o Y) \o z
    BY <1>3, <1>9 DEF Lines!Closing
<1>12. Y \in Seq(Chars) /\ z \in Seq(Chars)
    <2>1. "q" \in Chars /\ "\\" \in Chars
        BY SomeChars
    <2>2. 2 * k \in Nat
        OBVIOUS
    <2> QED BY <2>1, <2>2, TimesIs
<1>13. Reads(Open(d, c, 0), Y, Open(d, c, 2 * k))
    <2>1. 2 * k \in Nat /\ 0 + 2 * k = 2 * k
        OBVIOUS
    <2>2. Reads(Open(d, c, 0), Y, Open(d, c, 0 + 2 * k))
        BY <2>1, SlashesRead
    <2> QED BY <2>1, <2>2
<1>14. Reads(Open(d, c, 2 * k), z, Closed(d, x, 0))
    <2>1. 2 * k \in Nat /\ (2 * k) % 2 = 0 /\ (2 * k) \div 2 = k
        BY ParityFacts
    <2>2. Lines!Splits(Open(d, c, 2 * k), "q")
          = Closed(d, (c \o Lines!Times("\\", (2 * k) \div 2)) \o <<>>, 0)
        BY <2>1, QuoteCloses
    <2>3. x \o <<>> = x
        BY ConcatEmptySeq
    <2>4. Lines!Splits(Open(d, c, 2 * k), "q") = Closed(d, x, 0)
        BY <1>10, <2>1, <2>2, <2>3
    <2> QED BY <2>4, ReadsOne
<1> HIDE DEF Y, z
<1>15. q \o Y \in Seq(Chars) /\ Reads(Fresh(d), q \o Y, Open(d, c, 2 * k))
    BY <1>10, <1>12, <1>13, Joining, ReadsJoined
<1>16. Reads(Fresh(d), (q \o Y) \o z, Closed(d, x, 0))
    BY <1>12, <1>14, <1>15, ReadsJoined
<1>17. (q \o Y) \o z \in Seq(Chars)
    BY <1>12, <1>15, Joining
<1> QED BY <1>11, <1>16, <1>17

(* A plain argument too, but its last backslashes are still to be decided. *)
PlainSoFar(x, d, i) ==
    \E c \in Seq(Chars), k \in Nat :
        /\ Reads(Fresh(d), SubSeq(x, 1, i), Closed(d, c, k))
        /\ c \o Lines!Times("\\", k) = SubSeq(x, 1, i)

LEMMA PlainChars ==
    ASSUME NEW x \in Seq(Chars), Lines!Plain(x), NEW i \in 1..Len(x)
    PROVE  x[i] # "q" /\ x[i] \notin Lines!Blank
<1>1. i \in DOMAIN x
    OBVIOUS
<1>2. x[i] \notin Lines!Blank \cup {"q"}
    BY <1>1 DEF Lines!Plain
<1> QED BY <1>2

LEMMA PlainStarts ==
    ASSUME NEW x \in Seq(Chars), Lines!Plain(x), Len(x) > 0, NEW d, d # <<>>
    PROVE  PlainSoFar(x, d, 1)
<1>1. PICK ch \in Chars : ch = x[1] /\ ch # "q" /\ ch \notin Lines!Blank
    BY PlainChars
<1>2. SubSeq(x, 1, 1) = <<ch>> /\ <<ch>> \in Seq(Chars) /\ <<>> \in Seq(Chars)
    <2>1. <<>> \o <<ch>> = <<ch>> /\ <<>> \in Seq(Chars) /\ <<ch>> \in Seq(Chars)
        OBVIOUS
    <2>2. SubSeq(x, 1, 0 + 1) = SubSeq(x, 1, 0) \o <<x[0 + 1]>>
        BY PrefixNext
    <2>3. SubSeq(x, 1, 0) = <<>> /\ 0 + 1 = 1
        BY PrefixAll
    <2> QED BY <1>1, <2>1, <2>2, <2>3
<1>3. CASE ch = "\\"
    <2>1. Reads(Fresh(d), <<ch>>, Closed(d, <<>>, 1))
        BY <1>3, SlashRead, ReadsOne
    <2>2. <<>> \o Lines!Times("\\", 1) = <<ch>>
        <3>0. 0 \in Nat /\ 0 + 1 = 1
            OBVIOUS
        <3>1. /\ Lines!Times("\\", 0 + 1) = Lines!Times("\\", 0) \o <<"\\">>
              /\ Lines!Times("\\", 0) = <<>>
            BY Zenon, <3>0, TimesNext
        <3>2. <<>> \o (<<>> \o <<ch>>) = <<ch>>
            OBVIOUS
        <3> QED BY <1>3, <3>0, <3>1, <3>2
    <2> QED BY <1>2, <2>1, <2>2 DEF PlainSoFar
<1>4. CASE ch # "\\"
    <2>1. Lines!Splits(Fresh(d), ch) = Closed(d, (<<>> \o Lines!Times("\\", 0)) \o <<ch>>, 0)
        BY <1>1, <1>4, ClosedRead
    <2>2. Lines!Times("\\", 0) = <<>>
        BY TimesNext
    <2>3. (<<>> \o <<>>) \o <<ch>> = <<ch>> /\ <<ch>> \o <<>> = <<ch>>
        OBVIOUS
    <2>4. Reads(Fresh(d), <<ch>>, Closed(d, <<ch>>, 0))
        BY <2>1, <2>2, <2>3, ReadsOne
    <2> QED BY <1>2, <2>2, <2>3, <2>4 DEF PlainSoFar
<1> QED BY <1>3, <1>4

LEMMA PlainGoesOn ==
    ASSUME NEW x \in Seq(Chars), Lines!Plain(x), NEW d, d # <<>>, NEW i \in Nat, i < Len(x),
           PlainSoFar(x, d, i)
    PROVE  PlainSoFar(x, d, i + 1)
<1>0. i + 1 \in 1..Len(x)
    BY LenProperties
<1>1. PICK ch \in Chars : ch = x[i + 1] /\ ch # "q" /\ ch \notin Lines!Blank
    BY <1>0, PlainChars, PrefixNext
<1>2. PICK p \in Seq(Chars), r \in Seq(Chars) :
        p = SubSeq(x, 1, i) /\ r = SubSeq(x, 1, i + 1) /\ r = p \o <<ch>>
    BY <1>1, PrefixNext
<1>3. PICK c \in Seq(Chars), k \in Nat :
        Reads(Fresh(d), p, Closed(d, c, k)) /\ c \o Lines!Times("\\", k) = p
    BY <1>2 DEF PlainSoFar
<1>4. <<ch>> \in Seq(Chars)
    OBVIOUS
<1>5. CASE ch = "\\"
    <2>1. Reads(Closed(d, c, k), <<ch>>, Closed(d, c, k + 1))
        BY <1>5, SlashRead, ReadsOne
    <2>2. Reads(Fresh(d), r, Closed(d, c, k + 1))
        <3>1. Reads(Fresh(d), p \o <<ch>>, Closed(d, c, k + 1))
            BY Zenon, <1>3, <1>4, <2>1, ReadsJoined
        <3> QED BY <1>2, <3>1
    <2>3. c \o Lines!Times("\\", k + 1) = r
        <3> DEFINE X == Lines!Times("\\", k)
        <3>1. X \in Seq(Chars)
            BY SomeChars, TimesIs
        <3>2. Lines!Times("\\", k + 1) = X \o <<ch>>
            BY <1>5, TimesNext
        <3> HIDE DEF X
        <3>3. c \o (X \o <<ch>>) = (c \o X) \o <<ch>>
            BY Zenon, <1>4, <3>1, CharsJoin
        <3> QED BY <1>2, <1>3, <3>2, <3>3 DEF X
    <2>4. k + 1 \in Nat
        OBVIOUS
    <2> QED BY <1>2, <2>2, <2>3, <2>4 DEF PlainSoFar
<1>6. CASE ch # "\\"
    <2>1. Lines!Splits(Closed(d, c, k), ch) = Closed(d, (c \o Lines!Times("\\", k)) \o <<ch>>, 0)
        BY <1>1, <1>6, ClosedRead
    <2>2. Reads(Closed(d, c, k), <<ch>>, Closed(d, r, 0))
        BY <1>2, <1>3, <2>1, ReadsOne
    <2>3. Reads(Fresh(d), r, Closed(d, r, 0))
        BY <1>2, <1>3, <1>4, <2>2, ReadsJoined
    <2>4. r \o Lines!Times("\\", 0) = r
        <3>1. r \o <<>> = r
            BY ConcatEmptySeq
        <3> QED BY <3>1, TimesNext
    <2> QED BY <1>2, <2>3, <2>4 DEF PlainSoFar
<1> QED BY <1>5, <1>6

(* However an argument is quoted, the process reads it.                    *)
ReadAs(x, d, line0) ==
    \E c \in Seq(Chars), k \in Nat :
        Reads(Fresh(d), line0, Closed(d, c, k)) /\ c \o Lines!Times("\\", k) = x

LEMMA ArgumentReads ==
    ASSUME NEW x \in Seq(Chars), NEW d, d # <<>>
    PROVE  Lines!Quoted(x) \in Seq(Chars) /\ ReadAs(x, d, Lines!Quoted(x))
<1>1. CASE Lines!Plain(x)
    <2>1. PICK n \in Nat : n = Len(x) /\ n > 0
        <3>1. x # <<>>
            BY <1>1 DEF Lines!Plain
        <3> QED BY <3>1, EmptySeq, LenProperties
    <2> DEFINE T == {i \in Nat : i + 1 <= n => PlainSoFar(x, d, i + 1)}
    <2>2. 0 \in T
        <3>1. PlainSoFar(x, d, 1) /\ 0 + 1 = 1
            BY <1>1, <2>1, PlainStarts
        <3> QED BY <3>1
    <2>3. ASSUME NEW i \in Nat, i \in T PROVE i + 1 \in T
        <3> SUFFICES ASSUME (i + 1) + 1 <= n PROVE PlainSoFar(x, d, (i + 1) + 1)
            OBVIOUS
        <3>1. i + 1 \in Nat /\ i + 1 < n /\ i + 1 <= n
            OBVIOUS
        <3>2. PlainSoFar(x, d, i + 1)
            BY <2>3, <3>1
        <3> QED BY <1>1, <2>1, <3>1, <3>2, PlainGoesOn
    <2> HIDE DEF T
    <2>4. PlainSoFar(x, d, n)
        <3>1. Nat \subseteq T
            BY <2>2, <2>3, InductionOverASet
        <3>2. n - 1 \in Nat /\ (n - 1) + 1 = n /\ n <= n
            BY <2>1
        <3>3. n - 1 \in T
            BY <3>1, <3>2
        <3> QED BY <3>2, <3>3 DEF T
    <2>5. SubSeq(x, 1, n) = x /\ Lines!Quoted(x) = x
        BY <1>1, <2>1, PrefixAll, QuotedIs
    <2> QED BY <2>4, <2>5 DEF PlainSoFar, ReadAs
<1>2. CASE ~Lines!Plain(x)
    <2>1. /\ Lines!Quoted(x) \in Seq(Chars)
          /\ Reads(Fresh(d), Lines!Quoted(x), Closed(d, x, 0))
        BY <1>2, QuotedReads
    <2>2. x \o Lines!Times("\\", 0) = x
        <3>1. x \o <<>> = x
            BY ConcatEmptySeq
        <3> QED BY <3>1, TimesNext
    <2> QED BY <2>1, <2>2 DEF ReadAs
<1> QED BY <1>1, <1>2

-----------------------------------------------------------------------------
(* A program's name: no quotes, and no backslash at its end, so that it is *)
(* quoted as it is.                                                        *)
Named(p) == p \in Seq(Chars) /\ p # <<>> /\ p[Len(p)] # "\\" /\ \A i \in 1..Len(p) : p[i] # "q"

LEMMA NameWrapped ==
    ASSUME NEW p, Named(p), ~Lines!Plain(p)
    PROVE  Lines!Quoted(p) = (<<"q">> \o p) \o <<"q">>
<1>1. PICK n \in Nat : n = Len(p) /\ n > 0
    BY EmptySeq, LenProperties DEF Named
<1>0. p \in Seq(Chars) /\ <<"q">> \in Seq(Chars)
    <2>1. "q" \in Chars
        BY SomeChars
    <2> QED BY <2>1 DEF Named
<1> DEFINE f == CHOOSE g : QuotesBy(g, p)
<1>2. QuotesBy(f, p)
    BY <1>0, QuotesExist
<1>3. Lines!Quoted(p) = Lines!Closing(f[n])
    BY <1>1, QuotedIs
<1> HIDE DEF f
<1> DEFINE Right(i) == f[i].quoted \o Lines!Times("\\", f[i].slashes) = <<"q">> \o SubSeq(p, 1, i)
           T == {i \in Nat : i <= n => Right(i)}
<1>4. 0 \in T
    <2>1. f[0].quoted = <<"q">> /\ f[0].slashes = 0
        BY <1>0, <1>1, <1>2, QuotesStep
    <2>2. Lines!Times("\\", 0) = <<>> /\ SubSeq(p, 1, 0) = <<>>
        BY <1>0, TimesNext, PrefixAll
    <2> QED BY <2>1, <2>2
<1>5. ASSUME NEW i \in Nat, i + 1 <= n
      PROVE  \E s \in QuotedStates, ch \in Chars :
                /\ s = f[i] /\ ch = p[i + 1] /\ ch # "q"
                /\ f[i + 1] = Lines!Character(s, ch)
                /\ SubSeq(p, 1, i) \in Seq(Chars)
                /\ SubSeq(p, 1, i + 1) = SubSeq(p, 1, i) \o <<ch>>
    <2>1. i \in 0..n /\ i + 1 \in 1..n /\ (i + 1) - 1 = i /\ i < Len(p)
        BY <1>1, <1>5
    <2>2. f[i] \in QuotedStates /\ f[i + 1] = Lines!Character(f[i], p[i + 1])
        BY <1>0, <1>1, <1>2, <2>1, QuotesStep
    <2>3. p[i + 1] \in Chars /\ p[i + 1] # "q"
        BY <1>0, <1>1, <2>1, PrefixNext DEF Named
    <2>4. /\ SubSeq(p, 1, i) \in Seq(Chars)
          /\ SubSeq(p, 1, i + 1) = SubSeq(p, 1, i) \o <<p[i + 1]>>
        BY <1>0, <2>1, PrefixNext
    <2> QED BY <2>2, <2>3, <2>4
<1> HIDE DEF Right
<1>6. ASSUME NEW i \in Nat, i \in T PROVE i + 1 \in T
    <2> SUFFICES ASSUME i + 1 <= n PROVE Right(i + 1)
        OBVIOUS
    <2>1. PICK s \in QuotedStates, ch \in Chars :
                /\ s = f[i] /\ ch = p[i + 1] /\ ch # "q"
                /\ f[i + 1] = Lines!Character(s, ch)
                /\ SubSeq(p, 1, i) \in Seq(Chars)
                /\ SubSeq(p, 1, i + 1) = SubSeq(p, 1, i) \o <<ch>>
        BY <1>5
    <2>2. PICK q \in Seq(Chars), k \in Nat : q = s.quoted /\ k = s.slashes
        BY DEF QuotedStates
    <2>3. PICK a, r : a \in Seq(Chars) /\ a = SubSeq(p, 1, i) /\ r = SubSeq(p, 1, i + 1) /\ r = a \o <<ch>>
        BY <2>1
    <2>4. PICK X \in Seq(Chars) : X = Lines!Times("\\", k)
        BY SomeChars, TimesIs
    <2>5. q \o X = <<"q">> \o a
        <3>1. i <= n
            OBVIOUS
        <3>2. Right(i)
            BY <1>6, <3>1
        <3> QED BY <2>1, <2>2, <2>3, <2>4, <3>2 DEF Right
    <2>6. <<ch>> \in Seq(Chars)
        OBVIOUS
    <2>7. (q \o X) \o <<ch>> = <<"q">> \o r
        <3>1. PICK b \in Seq(Chars), d \in Seq(Chars), e \in Seq(Chars) :
                b = <<"q">> /\ d = a /\ e = <<ch>>
            BY <1>0, <2>3, <2>6
        <3>2. (b \o d) \o e = b \o (d \o e)
            BY CharsJoin
        <3> QED BY Zenon, <2>3, <2>5, <3>1, <3>2
    <2>8. CASE ch = "\\"
        <3>1. /\ Lines!Character(s, ch).quoted = s.quoted
              /\ Lines!Character(s, ch).slashes = s.slashes + 1
            BY Zenon, <2>8, CharacterIs
        <3>2. f[i + 1].quoted = q /\ f[i + 1].slashes = k + 1
            BY Zenon, <2>1, <2>2, <3>1
        <3>3. Lines!Times("\\", k + 1) = X \o <<ch>>
            BY <2>4, <2>8, TimesNext
        <3>4. q \o (X \o <<ch>>) = (q \o X) \o <<ch>>
            BY Zenon, <2>6, CharsJoin
        <3> QED BY Zenon, <2>3, <2>7, <3>2, <3>3, <3>4 DEF Right
    <2>9. CASE ch # "\\"
        <3>1. /\ Lines!Character(s, ch).quoted =
                   (s.quoted \o Lines!Times("\\", IF ch = "q" THEN 2 * s.slashes + 1 ELSE s.slashes)) \o <<ch>>
              /\ Lines!Character(s, ch).slashes = 0
            BY Zenon, <2>9, CharacterIs
        <3>2. f[i + 1].quoted = (q \o X) \o <<ch>> /\ f[i + 1].slashes = 0
            BY Zenon, <2>1, <2>2, <2>4, <3>1
        <3>3. q \o X \in Seq(Chars)
            BY Joining
        <3>4. (q \o X) \o <<ch>> \in Seq(Chars)
            BY <2>6, <3>3, Joining
        <3>5. /\ ((q \o X) \o <<ch>>) \o <<>> = (q \o X) \o <<ch>>
              /\ Lines!Times("\\", 0) = <<>>
            BY <3>4, ConcatEmptySeq, TimesNext
        <3> QED BY Zenon, <2>3, <2>7, <3>2, <3>5 DEF Right
    <2> QED BY <2>8, <2>9
<1> HIDE DEF T, Right
<1>7. Right(n)
    <2>1. Nat \subseteq T
        BY <1>4, <1>6, InductionOverASet
    <2> QED BY <2>1 DEF T
<1>8. f[n].slashes = 0 /\ f[n].quoted \in Seq(Chars)
    <2>1. n - 1 \in Nat /\ (n - 1) + 1 <= n /\ (n - 1) + 1 = n
        BY <1>1
    <2>2. PICK s \in QuotedStates, ch \in Chars : ch = p[n] /\ f[n] = Lines!Character(s, ch)
        BY <1>5, <2>1
    <2>3. ch # "\\"
        BY <1>1, <2>2 DEF Named
    <2>4. Lines!Character(s, ch).slashes = 0 /\ Lines!Character(s, ch) \in QuotedStates
        BY Zenon, <2>3, CharacterIs
    <2>5. \A t \in QuotedStates : t.quoted \in Seq(Chars)
        BY DEF QuotedStates
    <2> QED BY <2>2, <2>4, <2>5
<1>9. f[n].quoted = <<"q">> \o p
    <2>1. /\ SubSeq(p, 1, n) = p /\ Lines!Times("\\", 0) = <<>>
          /\ f[n].quoted \o <<>> = f[n].quoted
        BY <1>0, <1>1, <1>8, PrefixAll, TimesNext, ConcatEmptySeq
    <2> QED BY Zenon, <1>7, <1>8, <2>1 DEF Right
<1>10. 2 * f[n].slashes = 0
    BY <1>8
<1>11. Lines!Closing(f[n]) = (f[n].quoted \o <<>>) \o <<"q">>
    BY <1>10, TimesNext DEF Lines!Closing
<1> QED BY <1>3, <1>8, <1>9, <1>11, ConcatEmptySeq

LEMMA NameChars ==
    ASSUME NEW p, Named(p), NEW i \in Nat, i < Len(p)
    PROVE  \E ch \in Chars :
              /\ ch = p[i + 1] /\ ch # "q" /\ (Lines!Plain(p) => ch \notin Lines!Blank)
              /\ SubSeq(p, 1, i) \in Seq(Chars)
              /\ SubSeq(p, 1, i + 1) = SubSeq(p, 1, i) \o <<ch>>
              /\ SubSeq(p, 1, i + 1) \in Seq(Chars)
<1>1. p \in Seq(Chars)
    BY DEF Named
<1>2. i + 1 \in 1..Len(p)
    BY <1>1, LenProperties
<1>3. p[i + 1] # "q" /\ (Lines!Plain(p) => p[i + 1] \notin Lines!Blank)
    BY <1>1, <1>2, PlainChars DEF Named
<1> QED BY <1>1, <1>3, PrefixNext

LEMMA OpenName ==
    ASSUME NEW p, Named(p)
    PROVE  Reads(Open(<<>>, <<>>, 0), p, Open(<<>>, p, 0))
<1>1. PICK n \in Nat : n = Len(p)
    BY LenProperties DEF Named
<1>2. p \in Seq(Chars)
    BY DEF Named
<1> DEFINE Right(i) == Reads(Open(<<>>, <<>>, 0), SubSeq(p, 1, i), Open(<<>>, SubSeq(p, 1, i), 0))
           T == {i \in Nat : i <= n => Right(i)}
<1>3. 0 \in T
    <2>1. SubSeq(p, 1, 0) = <<>>
        BY <1>2, PrefixAll
    <2> QED BY <2>1, ReadsNone
<1> HIDE DEF Right
<1>4. ASSUME NEW i \in Nat, i \in T PROVE i + 1 \in T
    <2> SUFFICES ASSUME i + 1 <= n PROVE Right(i + 1)
        OBVIOUS
    <2>1. i < Len(p) /\ Right(i)
        BY <1>1, <1>4
    <2>2. PICK ch \in Chars :
              /\ ch = p[i + 1] /\ ch # "q" /\ (Lines!Plain(p) => ch \notin Lines!Blank)
              /\ SubSeq(p, 1, i) \in Seq(Chars)
              /\ SubSeq(p, 1, i + 1) = SubSeq(p, 1, i) \o <<ch>>
              /\ SubSeq(p, 1, i + 1) \in Seq(Chars)
        BY <2>1, NameChars
    <2>3. PICK a, r : /\ a \in Seq(Chars) /\ a = SubSeq(p, 1, i) /\ r = SubSeq(p, 1, i + 1)
                      /\ r = a \o <<ch>>
        BY <2>2
    <2>4. Lines!Splits(Open(<<>>, a, 0), ch) = Open(<<>>, (a \o Lines!Times("\\", 0)) \o <<ch>>, 0)
        BY <2>2, OpenRead
    <2>5. a \o Lines!Times("\\", 0) = a
        BY <2>3, TimesNext, ConcatEmptySeq
    <2>6. Reads(Open(<<>>, a, 0), <<ch>>, Open(<<>>, r, 0))
        BY <2>3, <2>4, <2>5, ReadsOne
    <2>7. <<ch>> \in Seq(Chars)
        OBVIOUS
    <2>8. Reads(Open(<<>>, <<>>, 0), a, Open(<<>>, a, 0))
        BY <2>1, <2>3 DEF Right
    <2>9. Reads(Open(<<>>, <<>>, 0), a \o <<ch>>, Open(<<>>, r, 0))
        BY Zenon, <2>3, <2>6, <2>7, <2>8, ReadsJoined
    <2> QED BY <2>3, <2>9 DEF Right
<1> HIDE DEF T
<1>5. Right(n)
    <2>1. Nat \subseteq T
        BY <1>3, <1>4, InductionOverASet
    <2> QED BY <2>1 DEF T
<1>6. SubSeq(p, 1, n) = p
    BY <1>1, <1>2, PrefixAll
<1> QED BY <1>5, <1>6 DEF Right

LEMMA PlainName ==
    ASSUME NEW p, Named(p), Lines!Plain(p)
    PROVE  Reads(Fresh(<<>>), p, Closed(<<>>, p, 0))
<1>1. PICK n \in Nat : n = Len(p) /\ n > 0
    BY EmptySeq, LenProperties DEF Named
<1>2. p \in Seq(Chars)
    BY DEF Named
<1> DEFINE Right(i) == Reads(Fresh(<<>>), SubSeq(p, 1, i), Closed(<<>>, SubSeq(p, 1, i), 0))
           T == {i \in Nat : i + 1 <= n => Right(i + 1)}
<1>0. Lines!Times("\\", 0) = <<>>
    BY TimesNext
<1> HIDE DEF Right
<1>3. 0 \in T
    <2>0. 0 \in Nat /\ 0 < Len(p) /\ 0 + 1 = 1
        BY <1>1
    <2>1. PICK ch \in Chars :
              /\ ch = p[0 + 1] /\ ch # "q" /\ (Lines!Plain(p) => ch \notin Lines!Blank)
              /\ SubSeq(p, 1, 0) \in Seq(Chars)
              /\ SubSeq(p, 1, 0 + 1) = SubSeq(p, 1, 0) \o <<ch>>
              /\ SubSeq(p, 1, 0 + 1) \in Seq(Chars)
        BY Zenon, <2>0, NameChars
    <2>2. /\ SubSeq(p, 1, 0) = <<>> /\ (<<>> \o <<>>) \o <<ch>> = <<ch>>
          /\ <<>> \o <<ch>> = <<ch>>
        BY <1>2, PrefixAll
    <2>3. SubSeq(p, 1, 1) = <<ch>>
        BY Zenon, <2>0, <2>1, <2>2
    <2>4. Lines!Splits(Fresh(<<>>), ch) = Closed(<<>>, (<<>> \o Lines!Times("\\", 0)) \o <<ch>>, 0)
        BY <2>1, ClosedRead
    <2>5. Reads(Fresh(<<>>), <<ch>>, Closed(<<>>, <<ch>>, 0))
        BY <1>0, <2>2, <2>4, ReadsOne
    <2>6. Right(1)
        BY <2>3, <2>5 DEF Right
    <2> QED BY <2>0, <2>6
<1>4. ASSUME NEW i \in Nat, i \in T PROVE i + 1 \in T
    <2> SUFFICES ASSUME (i + 1) + 1 <= n PROVE Right((i + 1) + 1)
        OBVIOUS
    <2>0. PICK m \in Nat : m = i + 1
        OBVIOUS
    <2>1. m < Len(p) /\ Right(m)
        BY <1>1, <1>4, <2>0
    <2>2. PICK ch \in Chars :
              /\ ch = p[m + 1] /\ ch # "q" /\ (Lines!Plain(p) => ch \notin Lines!Blank)
              /\ SubSeq(p, 1, m) \in Seq(Chars)
              /\ SubSeq(p, 1, m + 1) = SubSeq(p, 1, m) \o <<ch>>
              /\ SubSeq(p, 1, m + 1) \in Seq(Chars)
        BY <2>1, NameChars
    <2>3. PICK a, r : /\ a \in Seq(Chars) /\ a = SubSeq(p, 1, m) /\ r = SubSeq(p, 1, m + 1)
                      /\ r = a \o <<ch>>
        BY <2>2
    <2>4. Lines!Splits(Closed(<<>>, a, 0), ch) = Closed(<<>>, (a \o Lines!Times("\\", 0)) \o <<ch>>, 0)
        BY <2>2, ClosedRead
    <2>5. a \o Lines!Times("\\", 0) = a
        BY <1>0, <2>3, ConcatEmptySeq
    <2>6. Reads(Closed(<<>>, a, 0), <<ch>>, Closed(<<>>, r, 0))
        BY <2>3, <2>4, <2>5, ReadsOne
    <2>7. <<ch>> \in Seq(Chars)
        OBVIOUS
    <2>8. Reads(Fresh(<<>>), a, Closed(<<>>, a, 0))
        BY <2>1, <2>3 DEF Right
    <2>9. Reads(Fresh(<<>>), a \o <<ch>>, Closed(<<>>, r, 0))
        BY Zenon, <2>3, <2>6, <2>7, <2>8, ReadsJoined
    <2>10. Right(m + 1)
        BY <2>3, <2>9 DEF Right
    <2> QED BY <2>0, <2>10
<1> HIDE DEF T
<1>5. Right(n)
    <2>1. Nat \subseteq T
        BY <1>3, <1>4, InductionOverASet
    <2>2. n - 1 \in Nat /\ (n - 1) + 1 = n /\ n <= n
        BY <1>1
    <2>3. n - 1 \in T
        BY <2>1, <2>2
    <2> QED BY <2>2, <2>3 DEF T
<1>6. SubSeq(p, 1, n) = p
    BY <1>1, <1>2, PrefixAll
<1> QED BY <1>5, <1>6 DEF Right

LEMMA NameReads ==
    ASSUME NEW p, Named(p)
    PROVE  Lines!Quoted(p) \in Seq(Chars) /\ Reads(Fresh(<<>>), Lines!Quoted(p), Closed(<<>>, p, 0))
<1>0. p \in Seq(Chars)
    BY DEF Named
<1>1. CASE Lines!Plain(p)
    BY <1>0, <1>1, QuotedIs, PlainName
<1>2. CASE ~Lines!Plain(p)
    <2> DEFINE z == <<"q">>
    <2>1. z \in Seq(Chars)
        <3>1. "q" \in Chars
            BY SomeChars
        <3> QED BY <3>1
    <2>2. Reads(Fresh(<<>>), z, Open(<<>>, <<>>, 0))
        BY QuoteOpens, ReadsOne
    <2>3. Reads(Open(<<>>, p, 0), z, Closed(<<>>, p, 0))
        <3>1. 0 % 2 = 0 /\ 0 \div 2 = 0 /\ 0 \in Nat
            OBVIOUS
        <3>2. Lines!Splits(Open(<<>>, p, 0), "q") = Closed(<<>>, (p \o Lines!Times("\\", 0 \div 2)) \o <<>>, 0)
            BY Zenon, <3>1, QuoteCloses
        <3>3. p \o <<>> = p
            BY <1>0, ConcatEmptySeq
        <3>4. Lines!Splits(Open(<<>>, p, 0), "q") = Closed(<<>>, p, 0)
            BY <3>1, <3>2, <3>3, TimesNext
        <3> QED BY <3>4, ReadsOne
    <2>4. Lines!Quoted(p) = (z \o p) \o z
        BY <1>2, NameWrapped
    <2> HIDE DEF z
    <2>5. z \o p \in Seq(Chars) /\ Reads(Fresh(<<>>), z \o p, Open(<<>>, p, 0))
        BY <1>0, <2>1, <2>2, OpenName, ReadsJoined, Joining
    <2>6. Reads(Fresh(<<>>), (z \o p) \o z, Closed(<<>>, p, 0))
        BY <2>1, <2>3, <2>5, ReadsJoined
    <2>7. (z \o p) \o z \in Seq(Chars)
        BY <2>1, <2>5, Joining
    <2> QED BY <2>4, <2>6, <2>7
<1> QED BY <1>1, <1>2

-----------------------------------------------------------------------------
(* The values of an iteration exist.                                       *)
LEMMA Iterates ==
    ASSUME NEW T, NEW a \in T, NEW n \in Nat, NEW F \in [1..n -> [T -> T]]
    PROVE  \E f \in [0..n -> T] : f[0] = a /\ \A i \in 1..n : f[i] = F[i][f[i - 1]]
<1> DEFINE Reached(m) == \E f \in [0..m -> T] : f[0] = a /\ \A i \in 1..m : f[i] = F[i][f[i - 1]]
           M == {m \in Nat : m <= n => Reached(m)}
<1>1. 0 \in M
    <2> DEFINE f == [i \in 0..0 |-> a]
    <2>1. f \in [0..0 -> T] /\ f[0] = a /\ \A i \in 1..0 : FALSE
        OBVIOUS
    <2> HIDE DEF f
    <2> QED BY <2>1
<1>2. ASSUME NEW m \in Nat, m \in M PROVE m + 1 \in M
    <2> SUFFICES ASSUME m + 1 <= n PROVE Reached(m + 1)
        OBVIOUS
    <2>1. m <= n /\ m + 1 \in 1..n
        OBVIOUS
    <2>2. PICK f \in [0..m -> T] : f[0] = a /\ \A i \in 1..m : f[i] = F[i][f[i - 1]]
        BY <1>2, <2>1
    <2>3. PICK e \in T : e = F[m + 1][f[m]]
        BY <2>1
    <2> DEFINE g == [i \in 0..(m + 1) |-> IF i <= m THEN f[i] ELSE e]
    <2>4. \A i \in 0..(m + 1) : g[i] = IF i <= m THEN f[i] ELSE e
        OBVIOUS
    <2>5. g \in [0..(m + 1) -> T]
        OBVIOUS
    <2> HIDE DEF g
    <2>6. g[0] = a
        BY <2>2, <2>4
    <2>7. ASSUME NEW i \in 1..(m + 1) PROVE g[i] = F[i][g[i - 1]]
        <3>1. i \in 0..(m + 1) /\ i - 1 \in 0..(m + 1) /\ i - 1 <= m
            OBVIOUS
        <3>2. CASE i <= m
            <4>1. i \in 1..m
                BY <3>2
            <4> QED BY <2>2, <2>4, <3>1, <3>2, <4>1
        <3>3. CASE ~(i <= m)
            <4>1. i = m + 1 /\ i - 1 = m
                BY <3>3
            <4> QED BY <2>3, <2>4, <3>1, <3>3, <4>1
        <3> QED BY <3>2, <3>3
    <2> QED BY <2>5, <2>6, <2>7
<1> HIDE DEF M, Reached
<1>3. Reached(n)
    <2>1. Nat \subseteq M
        BY <1>1, <1>2, InductionOverASet
    <2> QED BY <2>1 DEF M
<1> QED BY <1>3 DEF Reached

(* The command line of a list of arguments.                                *)
LineBy(f, args) ==
    f = [i \in 1..Len(args) |-> IF i = 1 THEN Lines!Quoted(args[1])
                                ELSE f[i - 1] \o <<" ">> \o Lines!Quoted(args[i])]

LEMMA CommandLineIs ==
    ASSUME NEW args
    PROVE  Lines!CommandLine(args) = (CHOOSE f : LineBy(f, args))[Len(args)]
BY Zenon DEF Lines!CommandLine, LineBy

LEMMA BlankIsText == <<" ">> \in Seq(Chars)
<1>1. " " \in Chars
    BY SomeChars
<1>2. PICK c \in Chars : c = " "
    BY <1>1
<1>3. <<c>> \in Seq(Chars)
    OBVIOUS
<1> QED BY <1>2, <1>3

CommandArgvs ==
    {args \in Seq(Seq(Chars)) : Len(args) > 0 /\ Named(args[1])}

LEMMA QuotedIsText ==
    ASSUME NEW x \in Seq(Chars)
    PROVE  Lines!Quoted(x) \in Seq(Chars)
<1>1. <<1>> # <<>>
    OBVIOUS
<1> QED BY <1>1, ArgumentReads

LEMMA LineExists ==
    ASSUME NEW args \in CommandArgvs
    PROVE  \E f : LineBy(f, args)
<1>1. args \in Seq(Seq(Chars)) /\ Len(args) > 0
    BY DEF CommandArgvs
<1>2. PICK m \in Nat : Len(args) = m + 1 /\ \A i \in 1..(m + 1) : args[i] \in Seq(Chars)
    <2>1. PICK l \in Nat : l = Len(args)
        BY <1>1
    <2>2. l - 1 \in Nat /\ l = (l - 1) + 1
        BY <1>1, <2>1
    <2>3. \A i \in 1..l : args[i] \in Seq(Chars)
        BY <1>1, <2>1
    <2>4. \A i \in 1..((l - 1) + 1) : args[i] \in Seq(Chars)
        BY <2>2, <2>3
    <2>5. Len(args) = (l - 1) + 1
        BY <2>1, <2>2
    <2> QED BY <2>2, <2>4, <2>5
<1>3. \A i \in 1..(m + 1) : Lines!Quoted(args[i]) \in Seq(Chars)
    BY <1>2, QuotedIsText
<1> DEFINE B == <<" ">>
           F == [i \in 1..m |-> [x \in Seq(Chars) |-> x \o B \o Lines!Quoted(args[i + 1])]]
<1>4. B \in Seq(Chars)
    BY Zenon, BlankIsText
<1> HIDE DEF B
<1>5. ASSUME NEW i \in 1..m, NEW x \in Seq(Chars) PROVE x \o B \o Lines!Quoted(args[i + 1]) \in Seq(Chars)
    <2>1. i + 1 \in 1..(m + 1)
        OBVIOUS
    <2>2. Lines!Quoted(args[i + 1]) \in Seq(Chars)
        BY <1>3, <2>1
    <2> QED BY <1>4, <2>2, Joining
<1>6. F \in [1..m -> [Seq(Chars) -> Seq(Chars)]]
    BY <1>5
<1>7. \A i \in 1..m : \A x \in Seq(Chars) : F[i][x] = x \o B \o Lines!Quoted(args[i + 1])
    OBVIOUS
<1> HIDE DEF F
<1>8. Lines!Quoted(args[1]) \in Seq(Chars)
    BY <1>3
<1>9. PICK g \in [0..m -> Seq(Chars)] :
        g[0] = Lines!Quoted(args[1]) /\ \A i \in 1..m : g[i] = F[i][g[i - 1]]
    <2> DEFINE T == Seq(Chars)
    <2>1. PICK a \in T : a = Lines!Quoted(args[1])
        BY Zenon, <1>8 DEF T
    <2>2. PICK G \in [1..m -> [T -> T]] : G = F
        BY Zenon, <1>6 DEF T
    <2>3. m \in Nat
        BY <1>2
    <2> HIDE DEF T
    <2>4. \E g \in [0..m -> T] : g[0] = a /\ \A i \in 1..m : g[i] = G[i][g[i - 1]]
        BY <2>3, Iterates
    <2> QED BY Zenon, <2>1, <2>2, <2>4 DEF T
<1> DEFINE f == [i \in 1..(m + 1) |-> g[i - 1]]
<1>10. f = [i \in 1..(m + 1) |-> f[i]] /\ \A i \in 1..(m + 1) : f[i] = g[i - 1]
    OBVIOUS
<1> HIDE DEF f
<1>11. ASSUME NEW i \in 1..(m + 1)
       PROVE  f[i] = IF i = 1 THEN Lines!Quoted(args[1]) ELSE f[i - 1] \o B \o Lines!Quoted(args[i])
    <2>1. CASE i = 1
        BY <1>9, <1>10, <2>1
    <2>2. CASE i # 1
        <3>1. /\ i - 1 \in 1..m /\ i - 1 \in 1..(m + 1) /\ (i - 1) + 1 = i
              /\ (i - 1) - 1 \in 0..m
            BY <2>2
        <3>2. g[i - 1] = F[i - 1][g[(i - 1) - 1]]
            BY <1>9, <3>1
        <3>3. f[i] = g[i - 1] /\ f[i - 1] = g[(i - 1) - 1]
            BY <1>10, <3>1
        <3>4. F[i - 1][g[(i - 1) - 1]] = g[(i - 1) - 1] \o B \o Lines!Quoted(args[(i - 1) + 1])
            BY <1>7, <3>1
        <3> QED BY <2>2, <3>1, <3>2, <3>3, <3>4
    <2> QED BY <2>1, <2>2
<1>12. f = [i \in 1..(m + 1) |-> IF i = 1 THEN Lines!Quoted(args[1]) ELSE f[i - 1] \o B \o Lines!Quoted(args[i])]
    BY <1>10, <1>11
<1> QED BY <1>2, <1>12 DEF LineBy, B

(* What the process has made of the first i arguments.                     *)
ReadUpTo(f, args, i) ==
    /\ f[i] \in Seq(Chars)
    /\ \E c \in Seq(Chars), k \in Nat :
          /\ Reads(Lines!Start0, f[i], Closed(SubSeq(args, 1, i - 1), c, k))
          /\ c \o Lines!Times("\\", k) = args[i]

LEMMA ReadOn ==
    ASSUME NEW args \in CommandArgvs, NEW f, LineBy(f, args), NEW i \in Nat, i > 0, i < Len(args),
           ReadUpTo(f, args, i)
    PROVE  ReadUpTo(f, args, i + 1)
<1>1. args \in Seq(Seq(Chars))
    BY DEF CommandArgvs
<1>2. /\ i + 1 \in 1..Len(args) /\ i + 1 # 1 /\ (i + 1) - 1 = i
      /\ args[i + 1] \in Seq(Chars)
    BY <1>1, LenProperties
<1>3. f[i + 1] = f[i] \o <<" ">> \o Lines!Quoted(args[i + 1])
    BY <1>2 DEF LineBy
<1>4. PICK c \in Seq(Chars), k \in Nat :
        /\ Reads(Lines!Start0, f[i], Closed(SubSeq(args, 1, i - 1), c, k))
        /\ c \o Lines!Times("\\", k) = args[i]
    BY DEF ReadUpTo
<1>5. PICK d, e : /\ d = SubSeq(args, 1, i - 1) /\ e = SubSeq(args, 1, i)
                  /\ e = Append(d, args[i]) /\ e # <<>>
    <2>1. i - 1 \in Nat /\ i - 1 < Len(args) /\ (i - 1) + 1 = i
        BY <1>1, LenProperties
    <2>2. SubSeq(args, 1, i) = Append(SubSeq(args, 1, i - 1), args[i])
        BY <1>1, <2>1, PrefixNext
    <2>3. Len(SubSeq(args, 1, i)) = i
        BY <1>1, PrefixNext
    <2>4. SubSeq(args, 1, i) # <<>>
        BY <2>3
    <2> QED BY <2>2, <2>4
<1>6. Reads(Closed(d, c, k), <<" ">>, Fresh(e))
    BY <1>4, <1>5, BlankRead, ReadsOne
<1>7. /\ Lines!Quoted(args[i + 1]) \in Seq(Chars)
      /\ ReadAs(args[i + 1], e, Lines!Quoted(args[i + 1]))
    BY <1>2, <1>5, ArgumentReads
<1>8. PICK b \in Seq(Chars), l \in Nat :
        Reads(Fresh(e), Lines!Quoted(args[i + 1]), Closed(e, b, l)) /\ b \o Lines!Times("\\", l) = args[i + 1]
    BY <1>7 DEF ReadAs
<1>9. PICK B \in Seq(Chars) : B = <<" ">>
    BY Zenon, BlankIsText
<1>10. PICK x \in Seq(Chars) : x = f[i]
    BY DEF ReadUpTo
<1>11. PICK y \in Seq(Chars) : y = Lines!Quoted(args[i + 1])
    BY <1>7
<1>12. Reads(Lines!Start0, x, Closed(d, c, k))
    BY <1>4, <1>5, <1>10
<1>13. Reads(Lines!Start0, x \o B, Fresh(e)) /\ x \o B \in Seq(Chars)
    BY <1>6, <1>9, <1>12, ReadsJoined, Joining
<1>14. /\ Reads(Lines!Start0, (x \o B) \o y, Closed(e, b, l))
       /\ (x \o B) \o y \in Seq(Chars)
    <2>1. Reads(Fresh(e), y, Closed(e, b, l))
        BY Zenon, <1>8, <1>11
    <2>2. PICK z \in Seq(Chars) : z = x \o B
        BY Zenon, <1>13
    <2>3. Reads(Lines!Start0, z \o y, Closed(e, b, l))
        BY <1>13, <2>1, <2>2, ReadsJoined
    <2>4. z \o y \in Seq(Chars)
        OBVIOUS
    <2> QED BY Zenon, <2>2, <2>3, <2>4
<1>15. f[i + 1] = (x \o B) \o y
    BY <1>3, <1>9, <1>10, <1>11
<1> QED BY <1>2, <1>5, <1>8, <1>14, <1>15 DEF ReadUpTo

(* The list of arguments, split again, is the list.                        *)
LEMMA RoundTrip ==
    ASSUME NEW args \in CommandArgvs
    PROVE  Lines!Parts(Lines!CommandLine(args)) = args
<1>1. args \in Seq(Seq(Chars)) /\ Len(args) > 0 /\ Named(args[1])
    BY DEF CommandArgvs
<1>2. PICK n \in Nat : n = Len(args) /\ n > 0
    BY <1>1, LenProperties
<1> DEFINE f == CHOOSE g : LineBy(g, args)
<1>3. LineBy(f, args)
    BY LineExists
<1>4. Lines!CommandLine(args) = f[n]
    BY <1>2, CommandLineIs
<1> HIDE DEF f
<1>5. ReadUpTo(f, args, 1)
    <2>1. f[1] = Lines!Quoted(args[1])
        <3>1. f = [i \in 1..Len(args) |-> IF i = 1 THEN Lines!Quoted(args[1])
                                          ELSE f[i - 1] \o <<" ">> \o Lines!Quoted(args[i])]
            BY Zenon, <1>3 DEF LineBy
        <3>2. 1 \in 1..Len(args)
            BY <1>2
        <3> QED BY Zenon, <3>1, <3>2
    <2>2. SubSeq(args, 1, 1 - 1) = <<>>
        BY <1>1, PrefixAll
    <2>3. Lines!Start0 = Fresh(<<>>)
        BY DEF Lines!Start0, Fresh, SplitState
    <2>4. args[1] \in Seq(Chars)
        BY <1>1 DEF Named
    <2>5. args[1] \o Lines!Times("\\", 0) = args[1]
        BY <2>4, TimesNext, ConcatEmptySeq
    <2>6. /\ Lines!Quoted(args[1]) \in Seq(Chars)
          /\ Reads(Fresh(<<>>), Lines!Quoted(args[1]), Closed(<<>>, args[1], 0))
        BY <1>1, NameReads
    <2> QED BY <2>1, <2>2, <2>3, <2>4, <2>5, <2>6 DEF ReadUpTo
<1> DEFINE T == {i \in Nat : i + 1 <= n => ReadUpTo(f, args, i + 1)}
<1>6. 0 \in T
    <2>1. 0 + 1 = 1
        OBVIOUS
    <2> QED BY <1>5, <2>1
<1>7. ASSUME NEW i \in Nat, i \in T PROVE i + 1 \in T
    <2> SUFFICES ASSUME (i + 1) + 1 <= n PROVE ReadUpTo(f, args, (i + 1) + 1)
        OBVIOUS
    <2>1. i + 1 \in Nat /\ i + 1 > 0 /\ i + 1 < Len(args) /\ i + 1 <= n
        BY <1>2
    <2>2. ReadUpTo(f, args, i + 1)
        BY <1>7, <2>1
    <2> QED BY <1>3, <2>1, <2>2, ReadOn
<1> HIDE DEF T
<1>8. ReadUpTo(f, args, n)
    <2>1. Nat \subseteq T
        BY <1>6, <1>7, InductionOverASet
    <2>2. n - 1 \in Nat /\ (n - 1) + 1 = n /\ n <= n
        BY <1>2
    <2>3. n - 1 \in T
        BY <2>1, <2>2
    <2> QED BY <2>2, <2>3 DEF T
<1>9. PICK c \in Seq(Chars), k \in Nat :
        /\ Reads(Lines!Start0, f[n], Closed(SubSeq(args, 1, n - 1), c, k))
        /\ c \o Lines!Times("\\", k) = args[n]
    BY <1>8 DEF ReadUpTo
<1>10. Lines!Parts(f[n]) = Append(SubSeq(args, 1, n - 1), args[n])
    <2>1. f[n] \in Seq(Chars)
        BY <1>8 DEF ReadUpTo
    <2>2. Lines!Parts(f[n]) = Lines!Ended(Closed(SubSeq(args, 1, n - 1), c, k)).done
        BY <1>9, <2>1, PartsRead
    <2> QED BY <1>9, <2>2, BlankRead
<1>11. Append(SubSeq(args, 1, n - 1), args[n]) = args
    <2>1. n - 1 \in Nat /\ n - 1 < Len(args) /\ (n - 1) + 1 = n
        BY <1>2
    <2>2. SubSeq(args, 1, (n - 1) + 1) = Append(SubSeq(args, 1, n - 1), args[(n - 1) + 1])
        BY <1>1, <2>1, PrefixNext
    <2> QED BY <1>1, <1>2, <2>1, <2>2, PrefixAll
<1> QED BY <1>4, <1>10, <1>11

-----------------------------------------------------------------------------
(* An exit code comes back with its sign.                                  *)
LEMMA SignComesBack ==
    ASSUME NEW h \in Nat \ {0}, h = Half, NEW code \in -h..(h - 1)
    PROVE  Lines!Normalized(code % (2 * h)) = code
<1>1. PICK m \in Nat : m = 2 * h /\ m > 0
    OBVIOUS
<1>2. CASE code >= 0
    <2>1. code % m = code
        BY <1>1, <1>2
    <2> QED BY <1>1, <1>2, <2>1 DEF Lines!Normalized
<1>3. CASE ~(code >= 0)
    <2>1. code % m = code + m
        BY <1>1, <1>3
    <2> QED BY <1>1, <1>3, <2>1 DEF Lines!Normalized
<1> QED BY <1>2, <1>3

CommandInv ==
    /\ argv \in CommandArgvs
    /\ line = Lines!NotYet \/ line = Lines!CommandLine(argv)
    /\ Lines!CommandsArriveWhole

LEMMA ArgvsAreCommands == Lines!Argvs \subseteq CommandArgvs
<1>1. ASSUME NEW p \in Programs PROVE Named(p)
    <2>1. /\ p \in Seq(STRING) /\ p # <<>> /\ p[Len(p)] # "\\"
          /\ \A i \in DOMAIN p : p[i] # "q"
        BY CommandsAssumption
    <2>2. p \in Seq(Chars)
        <3>1. STRING \subseteq Chars
            BY Zenon DEF Chars
        <3> QED BY <2>1, <3>1, SeqMonotonic
    <2> QED BY <2>1, <2>2 DEF Named
<1>2. Words \subseteq Seq(Chars)
    <2>1. STRING \subseteq Chars
        BY Zenon DEF Chars
    <2>2. Words \subseteq Seq(STRING)
        BY CommandsAssumption
    <2> QED BY <2>1, <2>2, SeqMonotonic
<1>3. ASSUME NEW p \in Programs, NEW args \in Lines!Lists
      PROVE  Lines!Exec(p, args) \in CommandArgvs
    <2>1. args \in Seq(Words)
        BY CommandsAssumption DEF Lines!Lists
    <2>2. args \in Seq(Seq(Chars)) /\ <<p>> \in Seq(Seq(Chars))
        BY <1>1, <1>2, <2>1, SeqMonotonic DEF Named
    <2>3. /\ Len(<<p>> \o args) > 0 /\ (<<p>> \o args)[1] = p
          /\ <<p>> \o args \in Seq(Seq(Chars))
        BY <2>2
    <2> QED BY <1>1, <2>3 DEF CommandArgvs, Lines!Exec
<1>4. ASSUME NEW p \in Programs, NEW script \in Words
      PROVE  Lines!PowerShell(p, script) \in CommandArgvs
    <2>1. <<"-">> \in Seq(Chars)
        <3>1. "-" \in Chars
            BY SomeChars
        <3> QED BY <3>1
    <2>2. p \in Seq(Chars) /\ script \in Seq(Chars)
        BY <1>1, <1>2 DEF Named
    <2>3. /\ Lines!PowerShell(p, script) \in Seq(Seq(Chars))
          /\ Len(Lines!PowerShell(p, script)) = 3
          /\ Lines!PowerShell(p, script)[1] = p
        BY <2>1, <2>2 DEF Lines!PowerShell
    <2> QED BY <1>1, <2>3 DEF CommandArgvs
<1>5. ASSUME NEW x \in Lines!Argvs PROVE x \in CommandArgvs
    <2>1. CASE \E p \in Programs, args \in Lines!Lists : x = Lines!Exec(p, args)
        BY Zenon, <1>3, <2>1
    <2>2. CASE \E p \in Programs, script \in Words \ {<<>>} : x = Lines!PowerShell(p, script)
        <3>1. PICK p \in Programs, script \in Words : x = Lines!PowerShell(p, script)
            BY <2>2
        <3>2. Lines!PowerShell(p, script) \in CommandArgvs
            BY <1>4
        <3> QED BY Zenon, <3>1, <3>2
    <2>3. (\E p \in Programs, args \in Lines!Lists : x = Lines!Exec(p, args))
          \/ (\E p \in Programs, script \in Words \ {<<>>} : x = Lines!PowerShell(p, script))
        <3> DEFINE U == {Lines!Exec(p, args) : p \in Programs, args \in Lines!Lists}
                   V == {Lines!PowerShell(p, script) : p \in Programs, script \in Words \ {<<>>}}
        <3>1. Lines!Argvs = U \cup V
            BY DEF Lines!Argvs
        <3>2. x \in U => \E p \in Programs, args \in Lines!Lists : x = Lines!Exec(p, args)
            OBVIOUS
        <3>3. x \in V => \E p \in Programs, script \in Words \ {<<>>} : x = Lines!PowerShell(p, script)
            OBVIOUS
        <3> HIDE DEF U, V
        <3> QED BY <3>1, <3>2, <3>3
    <2> QED BY Zenon, <2>1, <2>2, <2>3
<1> QED BY <1>5

(* CommandsArriveWhole of CommandLine: a program gets the arguments meant  *)
(* for it, whatever quotes, backslashes and blanks are in them, and its    *)
(* exit code is reported as it was.                                        *)
THEOREM CommandsAlwaysArrive == Lines!Spec => []Lines!CommandsArriveWhole
<1>0. Half \in Nat \ {0}
    BY CommandsAssumption
<1>1. Lines!Init => CommandInv
    <2> SUFFICES ASSUME Lines!Init PROVE CommandInv
        OBVIOUS
    <2>1. Lines!Normalized(0) = 0
        BY <1>0 DEF Lines!Normalized
    <2> QED
        BY <2>1, ArgvsAreCommands
        DEF Lines!Init, CommandInv, Lines!CommandsArriveWhole
<1>2. CommandInv /\ [Lines!Next]_(Lines!vars) => CommandInv'
    <2> SUFFICES ASSUME CommandInv, [Lines!Next]_(Lines!vars) PROVE CommandInv'
        OBVIOUS
    <2>1. CASE Lines!Build
        BY <2>1
        DEF Lines!Build, CommandInv, Lines!CommandsArriveWhole, Lines!Normalized
    <2>2. CASE Lines!Split
        <3>1. line = Lines!CommandLine(argv) /\ argv \in CommandArgvs
            BY <2>2 DEF Lines!Split, CommandInv
        <3>2. Lines!Parts(line) = argv
            BY <3>1, RoundTrip
        <3>3. /\ received' = argv /\ argv' = argv /\ line' = line /\ status' = status
              /\ exit' = exit
            BY <2>2, <3>2 DEF Lines!Split
        <3> QED
            BY <3>1, <3>3
            DEF CommandInv, Lines!CommandsArriveWhole, Lines!Normalized
    <2>3. CASE Lines!Ends
        <3>1. PICK code \in -Half..(Half - 1) : status' = code % (2 * Half) /\ exit' = code
            BY <2>3 DEF Lines!Ends
        <3>2. Lines!Normalized(status') = exit'
            BY <1>0, <3>1, SignComesBack
        <3> QED
            BY <2>3, <3>2
            DEF Lines!Ends, CommandInv, Lines!CommandsArriveWhole, Lines!Normalized
    <2>4. CASE UNCHANGED Lines!vars
        BY <2>4
        DEF Lines!vars, CommandInv, Lines!CommandsArriveWhole, Lines!Normalized
    <2> QED BY <2>1, <2>2, <2>3, <2>4 DEF Lines!Next
<1>3. CommandInv => Lines!CommandsArriveWhole
    BY DEF CommandInv
<1> QED BY <1>1, <1>2, <1>3, PTL DEF Lines!Spec

-----------------------------------------------------------------------------
(* The output of a command: what has been shown and what is held back are  *)
(* those of all that was written, wherever the chunks were cut.            *)

(* What can be shown: what a command writes, and the marks.                *)
Shown == Alphabet \cup {"nl", "#", "~"}

LEMMA ShownMarks == /\ Alphabet \subseteq Shown
                    /\ "nl" \in Shown /\ "#" \in Shown /\ "~" \in Shown
BY Zenon DEF Shown

LEMMA SecretIs ==
    ASSUME NEW v \in Secrets
    PROVE  v \in Seq(Shown) /\ Len(v) \in Nat /\ Len(v) > 0
<1>1. v \in Seq(Alphabet) /\ v # <<>>
    BY OutputAssumption
<1>2. v \in Seq(Shown)
    BY <1>1, ShownMarks, SeqMonotonic
<1> QED BY <1>1, <1>2

(* Ends of sequences.                                                      *)
LEMMA DropIs ==
    ASSUME NEW S, NEW s \in Seq(S), NEW n \in Nat, n <= Len(s)
    PROVE  /\ Collected!Drop(s, n) \in Seq(S) /\ Len(Collected!Drop(s, n)) = Len(s) - n
           /\ \A i \in 1..(Len(s) - n) : Collected!Drop(s, n)[i] = s[n + i]
<1>1. SubSeq(s, n + 1, Len(s)) \in Seq(S) /\ Len(SubSeq(s, n + 1, Len(s))) = Len(s) - n
    OBVIOUS
<1>2. \A i \in 1..(Len(s) - n) : SubSeq(s, n + 1, Len(s))[i] = s[n + i]
    OBVIOUS
<1> QED BY <1>1, <1>2 DEF Collected!Drop

LEMMA DropConcat ==
    ASSUME NEW S, NEW x \in Seq(S), NEW y \in Seq(S), NEW n \in Nat, n <= Len(x)
    PROVE  Collected!Drop(x \o y, n) = Collected!Drop(x, n) \o y
<1> DEFINE e == SubSeq(x \o y, n + 1, Len(x \o y))
           g == SubSeq(x, n + 1, Len(x)) \o y
<1>1. e \in Seq(S) /\ Len(e) = Len(x) + Len(y) - n
    OBVIOUS
<1>2. g \in Seq(S) /\ Len(g) = Len(x) + Len(y) - n
    OBVIOUS
<1>3. \A i \in 1..(Len(x) + Len(y) - n) : e[i] = g[i]
    OBVIOUS
<1> HIDE DEF e, g
<1>4. e = g
    BY <1>1, <1>2, <1>3, SeqEqual
<1> QED BY <1>4 DEF e, g, Collected!Drop

LEMMA DropDrop ==
    ASSUME NEW S, NEW s \in Seq(S), NEW m \in Nat, NEW n \in Nat, m + n <= Len(s)
    PROVE  Collected!Drop(Collected!Drop(s, m), n) = Collected!Drop(s, m + n)
<1> DEFINE a == SubSeq(s, m + 1, Len(s))
           e == SubSeq(a, n + 1, Len(a))
           g == SubSeq(s, m + n + 1, Len(s))
<1>1. a \in Seq(S) /\ Len(a) = Len(s) - m
    OBVIOUS
<1>2. e \in Seq(S) /\ Len(e) = Len(s) - m - n
    BY <1>1
<1>5. g \in Seq(S) /\ Len(g) = Len(s) - m - n
    OBVIOUS
<1>6. \A i \in 1..(Len(s) - m) : a[i] = s[m + i]
    OBVIOUS
<1> HIDE DEF a
<1>7. \A i \in 1..(Len(s) - m - n) : e[i] = a[n + i]
    BY <1>1
<1>8. \A i \in 1..(Len(s) - m - n) : g[i] = s[m + n + i]
    OBVIOUS
<1> HIDE DEF e, g
<1>3. ASSUME NEW i \in 1..(Len(s) - m - n) PROVE e[i] = g[i]
    <2>1. n + i \in 1..(Len(s) - m) /\ m + n + i = m + (n + i)
        OBVIOUS
    <2> QED BY <1>6, <1>7, <1>8, <2>1
<1>4. e = g
    BY <1>1, <1>2, <1>3, <1>5, SeqEqual
<1> QED BY <1>4 DEF a, e, g, Collected!Drop

LEMMA CutJoins ==
    ASSUME NEW S, NEW s \in Seq(S), NEW n \in Nat, n <= Len(s)
    PROVE  s = SubSeq(s, 1, n) \o Collected!Drop(s, n)
<1> DEFINE a == SubSeq(s, 1, n)
           e == SubSeq(s, n + 1, Len(s))
           g == a \o e
<1>1. e \in Seq(S) /\ Len(e) = Len(s) - n
    OBVIOUS
<1>2. \A i \in 1..(Len(s) - n) : e[i] = s[n + i]
    OBVIOUS
<1>3. a \in Seq(S) /\ Len(a) = n
    OBVIOUS
<1>4. \A i \in 1..n : a[i] = s[i]
    OBVIOUS
<1> HIDE DEF e, a
<1>5. g \in Seq(S) /\ Len(g) = Len(a) + Len(e)
    BY <1>1, <1>3
<1>6. Len(g) = Len(s)
    BY <1>1, <1>3, <1>5
<1>7. \A i \in 1..(Len(a) + Len(e)) : g[i] = IF i <= Len(a) THEN a[i] ELSE e[i - Len(a)]
    BY <1>1, <1>3, ConcatProperties
<1> HIDE DEF g
<1>8. ASSUME NEW i \in 1..Len(s) PROVE g[i] = s[i]
    <2>1. i \in 1..(Len(a) + Len(e))
        BY <1>1, <1>3
    <2>2. CASE i <= n
        BY <1>3, <1>4, <1>7, <2>1, <2>2
    <2>3. CASE ~(i <= n)
        <3>1. i - n \in 1..(Len(s) - n) /\ n + (i - n) = i
            BY <2>3
        <3> QED BY <1>2, <1>3, <1>7, <2>1, <2>3, <3>1
    <2> QED BY <2>2, <2>3
<1>9. s = g
    BY <1>5, <1>6, <1>8, SeqEqual
<1> QED BY <1>9 DEF a, e, g, Collected!Drop

(* Matches.                                                                *)
Match(s, p, v) ==
    /\ v \in Secrets /\ p \in Nat /\ p > 0 /\ p + Len(v) - 1 <= Len(s)
    /\ \A i \in 1..Len(v) : s[p + i - 1] = v[i]

Unmatched(s) == \A p \in Nat, v \in Secrets : ~Match(s, p, v)

First(s, p, v) ==
    /\ Match(s, p, v)
    /\ \A q \in Nat, w \in Secrets : Match(s, q, w) => p < q \/ (p = q /\ Len(w) <= Len(v))

LEMMA AtIs ==
    ASSUME NEW s \in Seq(Shown), NEW v \in Secrets, NEW p \in Nat, p > 0
    PROVE  Match(s, p, v) <=> p \in 1..Len(s) /\ Collected!At(s, v, p)
<1>1. v \in Seq(Shown) /\ Len(v) \in Nat /\ Len(v) > 0
    BY SecretIs
<1>2. CASE p + Len(v) - 1 <= Len(s)
    <2> DEFINE t == SubSeq(s, p, p + Len(v) - 1)
    <2>1. t \in Seq(Shown) /\ Len(t) = Len(v)
        BY <1>1, <1>2
    <2>2. \A i \in 1..Len(v) : t[i] = s[p + i - 1]
        BY <1>1, <1>2
    <2> HIDE DEF t
    <2>3. t = v <=> \A i \in 1..Len(v) : s[p + i - 1] = v[i]
        BY <1>1, <2>1, <2>2, SeqEqual
    <2>4. p \in 1..Len(s)
        BY <1>1, <1>2
    <2> QED BY <1>2, <2>3, <2>4 DEF Match, Collected!At, t
<1>3. CASE ~(p + Len(v) - 1 <= Len(s))
    BY <1>3 DEF Match, Collected!At
<1> QED BY <1>2, <1>3

LEMMA MatchesAre ==
    ASSUME NEW s \in Seq(Shown)
    PROVE  /\ \A m \in Collected!Matches(s) : m = <<m[1], m[2]>> /\ m[1] \in Nat /\ m[2] \in Secrets
                                    /\ Match(s, m[1], m[2])
           /\ \A p, v : Match(s, p, v) => <<p, v>> \in Collected!Matches(s)
<1>1. ASSUME NEW m \in Collected!Matches(s)
      PROVE  m = <<m[1], m[2]>> /\ m[1] \in Nat /\ m[2] \in Secrets /\ Match(s, m[1], m[2])
    <2>1. m \in (1..Len(s)) \X Secrets /\ Collected!At(s, m[2], m[1])
        BY DEF Collected!Matches
    <2>2. m = <<m[1], m[2]>> /\ m[1] \in 1..Len(s) /\ m[2] \in Secrets
        BY <2>1
    <2>3. m[1] \in Nat /\ m[1] > 0
        BY <2>2
    <2> QED BY <2>1, <2>2, <2>3, AtIs
<1>2. ASSUME NEW p, NEW v, Match(s, p, v) PROVE <<p, v>> \in Collected!Matches(s)
    <2>1. v \in Secrets /\ p \in Nat /\ p > 0
        BY <1>2 DEF Match
    <2>2. p \in 1..Len(s) /\ Collected!At(s, v, p)
        BY <1>2, <2>1, AtIs
    <2> QED BY <2>1, <2>2 DEF Collected!Matches
<1> QED BY <1>1, <1>2

LEMMA UnmatchedIs ==
    ASSUME NEW s \in Seq(Shown)
    PROVE  Unmatched(s) <=> Collected!Matches(s) = {}
<1>1. ASSUME Unmatched(s), NEW m \in Collected!Matches(s) PROVE FALSE
    BY <1>1, MatchesAre DEF Unmatched
<1>2. ASSUME Collected!Matches(s) = {}, NEW p \in Nat, NEW v \in Secrets, Match(s, p, v) PROVE FALSE
    BY <1>2, MatchesAre
<1> QED BY <1>1, <1>2 DEF Unmatched

LEMMA EarliestIs ==
    ASSUME NEW s \in Seq(Shown), NEW p, NEW v, First(s, p, v)
    PROVE  Collected!Earliest(s) = <<p, v>> /\ Collected!Matches(s) # {}
<1>1. Match(s, p, v) /\ v \in Secrets /\ p \in Nat
    BY DEF First, Match
<1> DEFINE LeastFirst(m) == \A n \in Collected!Matches(s) : m[1] < n[1] \/ (m[1] = n[1] /\ Len(m[2]) >= Len(n[2]))
<1>2. <<p, v>> \in Collected!Matches(s)
    BY <1>1, MatchesAre
<1>3. LeastFirst(<<p, v>>)
    <2> SUFFICES ASSUME NEW n \in Collected!Matches(s)
                 PROVE  p < n[1] \/ (p = n[1] /\ Len(v) >= Len(n[2]))
        OBVIOUS
    <2>1. n[1] \in Nat /\ n[2] \in Secrets /\ Match(s, n[1], n[2])
        BY MatchesAre
    <2>2. p < n[1] \/ (p = n[1] /\ Len(n[2]) <= Len(v))
        BY <2>1 DEF First
    <2>3. Len(v) \in Nat /\ Len(n[2]) \in Nat
        BY <1>1, <2>1, SecretIs
    <2> QED BY <2>2, <2>3
<1>4. ASSUME NEW m \in Collected!Matches(s), LeastFirst(m) PROVE m = <<p, v>>
    <2>1. m = <<m[1], m[2]>> /\ m[1] \in Nat /\ m[2] \in Secrets /\ Match(s, m[1], m[2])
        BY MatchesAre
    <2>2. PICK q \in Nat, w \in Secrets : q = m[1] /\ w = m[2]
        BY <2>1
    <2>3. q < p \/ (q = p /\ Len(w) >= Len(v))
        <3>1. m[1] < <<p, v>>[1] \/ (m[1] = <<p, v>>[1] /\ Len(m[2]) >= Len(<<p, v>>[2]))
            BY <1>2, <1>4
        <3> QED BY <2>2, <3>1
    <2>4. p < q \/ (p = q /\ Len(w) <= Len(v))
        BY <2>1, <2>2 DEF First
    <2>5. /\ v \in Seq(Shown) /\ Len(v) \in Nat
          /\ w \in Seq(Shown) /\ Len(w) \in Nat
        BY <1>1, <2>2, SecretIs
    <2>6. p = q /\ Len(v) = Len(w)
        BY <1>1, <2>3, <2>4, <2>5
    <2>7. \A i \in 1..Len(v) : v[i] = w[i]
        <3>1. \A i \in 1..Len(v) : s[p + i - 1] = v[i]
            BY <1>1 DEF Match
        <3>2. \A i \in 1..Len(w) : s[q + i - 1] = w[i]
            BY <2>1, <2>2 DEF Match
        <3> QED BY <2>6, <3>1, <3>2
    <2>8. v = w
        BY <2>5, <2>6, <2>7, SeqEqual
    <2> QED BY <2>1, <2>2, <2>6, <2>8
<1>5. Collected!Earliest(s) = CHOOSE m \in Collected!Matches(s) : LeastFirst(m)
    BY Zenon DEF Collected!Earliest
<1> HIDE DEF LeastFirst
<1>6. Collected!Earliest(s) = <<p, v>>
    BY Zenon, <1>2, <1>3, <1>4, <1>5
<1> QED BY <1>2, <1>6

(* A text with a match has a first, and of those there a longest.          *)
LEMMA FirstExists ==
    ASSUME NEW s \in Seq(Shown), ~Unmatched(s)
    PROVE  \E p \in Nat, v \in Secrets : First(s, p, v)
<1> DEFINE P == {p \in Nat : \E v \in Secrets : Match(s, p, v)}
<1>1. P # {} /\ P \subseteq Nat
    BY DEF Unmatched
<1>2. PICK p \in P : \A q \in P : p <= q
    <2> HIDE DEF P
    <2> QED BY <1>1, HasLeast
<1> DEFINE V == {v \in Secrets : Match(s, p, v)}
           D == {Len(s) - Len(v) : v \in V}
<1>3. PICK u \in V : TRUE
    BY <1>2
<1>4. ASSUME NEW v \in V PROVE Len(v) \in Nat /\ Len(s) - Len(v) \in Nat
    <2>1. Len(v) \in Nat /\ Len(v) > 0
        BY SecretIs
    <2>2. p + Len(v) - 1 <= Len(s) /\ p > 0 /\ p \in Nat
        BY DEF Match
    <2> QED BY <2>1, <2>2
<1>5. D # {} /\ D \subseteq Nat
    BY <1>3, <1>4
<1>6. PICK d \in D : \A e \in D : d <= e
    <2> HIDE DEF D
    <2> QED BY <1>5, HasLeast
<1>7. PICK v \in V : d = Len(s) - Len(v)
    BY <1>6
<1>8. ASSUME NEW q \in Nat, NEW w \in Secrets, Match(s, q, w)
      PROVE  p < q \/ (p = q /\ Len(w) <= Len(v))
    <2>1. q \in P
        BY <1>8
    <2>2. p <= q /\ p \in Nat
        BY <1>2, <2>1
    <2>3. CASE p = q
        <3>1. w \in V
            BY <1>8, <2>3
        <3>2. Len(s) - Len(w) \in D
            BY <3>1
        <3>3. Len(s) - Len(v) <= Len(s) - Len(w)
            BY <1>6, <1>7, <3>2
        <3>4. Len(v) \in Nat /\ Len(w) \in Nat /\ Len(s) \in Nat
            BY <1>4, <3>1
        <3> QED BY <2>3, <3>3, <3>4
    <2> QED BY <2>2, <2>3
<1>9. p \in Nat /\ v \in Secrets /\ Match(s, p, v)
    OBVIOUS
<1> QED BY <1>8, <1>9 DEF First

-----------------------------------------------------------------------------
(* A function of 0..n that looks only further on exists, and one that      *)
(* looks at the rest of the same is its rest.                              *)
Follows(f, n, J, G, B) == \A i \in 0..n : f[i] = IF J[i] <= n THEN G[i][f[J[i]]] ELSE B[i]

LEMMA Descends ==
    ASSUME NEW T, NEW n \in Nat, NEW J \in [0..n -> Nat], \A i \in 0..n : i < J[i],
           NEW G \in [0..n -> [T -> T]], NEW B \in [0..n -> T]
    PROVE  \E f \in [0..n -> T] : Follows(f, n, J, G, B)
<1> DEFINE From(m, f) == \A i \in m..n : f[i] = IF J[i] <= n THEN G[i][f[J[i]]] ELSE B[i]
           There(m) == \E f \in [m..n -> T] : From(m, f)
           S == {k \in Nat : k <= n => There(n - k)}
<1>1. 0 \in S
    <2> DEFINE f == [i \in n..n |-> B[n]]
    <2>1. f \in [n..n -> T] /\ f[n] = B[n]
        OBVIOUS
    <2>2. ~(J[n] <= n)
        OBVIOUS
    <2> HIDE DEF f
    <2>3. From(n, f)
        BY <2>1, <2>2
    <2>4. n - 0 = n
        OBVIOUS
    <2> QED BY <2>1, <2>3, <2>4
<1>2. ASSUME NEW k \in Nat, k \in S PROVE k + 1 \in S
    <2> SUFFICES ASSUME k + 1 <= n PROVE There(n - (k + 1))
        <3> HIDE DEF There
        <3> QED BY DEF S
    <2>1. PICK m \in 0..n : m = n - (k + 1) /\ m + 1 = n - k /\ m + 1 \in 0..n
        OBVIOUS
    <2>2. PICK f \in [(m + 1)..n -> T] : From(m + 1, f)
        BY <1>2, <2>1
    <2>3. J[m] \in Nat /\ m + 1 <= J[m]
        BY <2>1
    <2>4. PICK e \in T : e = IF J[m] <= n THEN G[m][f[J[m]]] ELSE B[m]
        <3>1. CASE J[m] <= n
            <4>1. J[m] \in (m + 1)..n
                BY <2>3, <3>1
            <4>2. f[J[m]] \in T
                BY <4>1
            <4>3. G[m] \in [T -> T]
                BY <2>1
            <4>4. G[m][f[J[m]]] \in T
                BY <4>2, <4>3
            <4> QED BY <3>1, <4>4
        <3>2. CASE ~(J[m] <= n)
            BY <3>2
        <3> QED BY <3>1, <3>2
    <2> DEFINE g == [i \in m..n |-> IF i = m THEN e ELSE f[i]]
    <2>5. \A i \in m..n : g[i] = IF i = m THEN e ELSE f[i]
        OBVIOUS
    <2>6. g \in [m..n -> T]
        OBVIOUS
    <2> HIDE DEF g
    <2>7. ASSUME NEW i \in m..n PROVE g[i] = IF J[i] <= n THEN G[i][g[J[i]]] ELSE B[i]
        <3>1. i \in 0..n /\ J[i] \in Nat /\ i < J[i]
            OBVIOUS
        <3>2. J[i] <= n => J[i] \in m..n /\ g[J[i]] = f[J[i]]
            BY <2>5, <3>1
        <3>3. CASE i = m
            BY <2>4, <2>5, <3>2, <3>3
        <3>4. CASE i # m
            <4>1. i \in (m + 1)..n
                BY <3>4
            <4>2. f[i] = IF J[i] <= n THEN G[i][f[J[i]]] ELSE B[i]
                BY <2>2, <4>1
            <4> QED BY <2>5, <3>2, <3>4, <4>2
        <3> QED BY <3>3, <3>4
    <2> QED BY <2>1, <2>6, <2>7
<1> HIDE DEF S, There
<1>3. There(0)
    <2>1. Nat \subseteq S
        BY <1>1, <1>2, InductionOverASet
    <2>2. n - n = 0 /\ n <= n
        OBVIOUS
    <2>3. There(n - n)
        BY <2>1, <2>2 DEF S
    <2> QED BY Zenon, <2>2, <2>3
<1> QED BY <1>3 DEF There, Follows

Splits(n, c, l) == n \in Nat /\ c \in 0..n /\ l = n - c
Rises(n, J) == \A i \in 0..n : J[i] \in Nat /\ i < J[i]
Lowered(l, c, K, J) == \A i \in 0..l : K[i] = J[c + i] - c
Shifted(l, c, H, G) == \A i \in 0..l : H[i] = G[c + i]

LEMMA FollowsRest ==
    ASSUME NEW n, NEW c, NEW l, Splits(n, c, l),
           NEW J, Rises(n, J), NEW K, Lowered(l, c, K, J),
           NEW G, NEW H, Shifted(l, c, H, G), NEW B, NEW D, Shifted(l, c, D, B),
           NEW f, Follows(f, n, J, G, B), NEW g, Follows(g, l, K, H, D)
    PROVE  g[0] = f[c]
<1> DEFINE S == {k \in Nat : \A i \in 0..l : l - i <= k => g[i] = f[c + i]}
<1>0. n \in Nat /\ c \in 0..n /\ l = n - c /\ l \in Nat
    BY DEF Splits
<1>1. ASSUME NEW i \in 0..l, \A j \in 0..l : i < j => g[j] = f[c + j]
      PROVE  g[i] = f[c + i]
    <2>1. c + i \in 0..n /\ J[c + i] \in Nat /\ c + i < J[c + i]
        BY <1>0 DEF Rises
    <2>2. PICK j \in Nat : j = K[i] /\ J[c + i] = c + j /\ i < j
        <3>1. K[i] = J[c + i] - c
            BY <1>0 DEF Lowered
        <3> QED BY <1>0, <2>1, <3>1
    <2>3. j <= l <=> J[c + i] <= n
        BY <1>0, <2>1, <2>2
    <2>4. g[i] = IF j <= l THEN G[c + i][g[j]] ELSE B[c + i]
        <3>1. H[i] = G[c + i] /\ D[i] = B[c + i]
            BY DEF Shifted
        <3>2. g[i] = IF K[i] <= l THEN H[i][g[K[i]]] ELSE D[i]
            BY DEF Follows
        <3> QED BY Zenon, <2>2, <3>1, <3>2
    <2>5. f[c + i] = IF J[c + i] <= n THEN G[c + i][f[c + j]] ELSE B[c + i]
        BY <2>1, <2>2 DEF Follows
    <2>6. j <= l => g[j] = f[c + j]
        BY <1>0, <1>1, <2>2
    <2> QED BY <2>3, <2>4, <2>5, <2>6
<1>2. 0 \in S
    <2> SUFFICES ASSUME NEW i \in 0..l, l - i <= 0 PROVE g[i] = f[c + i]
        OBVIOUS
    <2>1. \A j \in 0..l : ~(i < j)
        BY <1>0
    <2> QED BY <1>1, <2>1
<1>3. ASSUME NEW k \in Nat, k \in S PROVE k + 1 \in S
    <2> SUFFICES ASSUME NEW i \in 0..l, l - i <= k + 1 PROVE g[i] = f[c + i]
        OBVIOUS
    <2>1. ASSUME NEW j \in 0..l, i < j PROVE g[j] = f[c + j]
        <3>1. l - j <= k
            BY <1>0, <2>1
        <3> QED BY <1>3, <3>1
    <2> QED BY <1>1, <2>1
<1> HIDE DEF S
<1>4. l \in S
    <2>1. Nat \subseteq S
        BY <1>2, <1>3, InductionOverASet
    <2> QED BY <1>0, <2>1
<1> QED BY <1>0, <1>4 DEF S

-----------------------------------------------------------------------------
(* One step of a redaction: where there is no match it stops, and holds     *)
(* back what may begin a value; else it goes on behind the first match.    *)
Redactions == [text : Seq(Shown), kept : Seq(Shown)]
Kept(rest, final) == IF final THEN 0 ELSE Collected!Pending(rest)
Stop(rest, final) ==
    [text |-> Collected!Prefix(rest, Len(rest) - Kept(rest, final)), kept |-> Collected!Suffix(rest, Kept(rest, final))]
Past(rest) == Collected!Earliest(rest)[1] + Len(Collected!Earliest(rest)[2]) - 1
With(rest, more) ==
    [text |-> Collected!Prefix(rest, Collected!Earliest(rest)[1] - 1) \o <<"#", "#">> \o more.text, kept |-> more.kept]

RedactsBy(f, s, final) ==
    f = [i \in 0..Len(s) |-> IF Collected!Matches(Collected!Drop(s, i)) # {}
                             THEN With(Collected!Drop(s, i), f[i + Collected!Earliest(Collected!Drop(s, i))[1] + Len(Collected!Earliest(Collected!Drop(s, i))[2]) - 1])
                             ELSE Stop(Collected!Drop(s, i), final)]

LEMMA RedactedIs ==
    ASSUME NEW s, NEW final
    PROVE  Collected!Redacted(s, final) = (CHOOSE f : RedactsBy(f, s, final))[0]
BY Zenon DEF Collected!Redacted, RedactsBy, With, Stop, Kept

(* What may be the beginning of a value.                                   *)
Begun(s, k) ==
    /\ k \in Nat /\ k > 0 /\ k <= Len(s)
    /\ \E v \in Secrets : k < Len(v) /\ \A i \in 1..k : s[Len(s) - k + i] = v[i]

LEMMA SuffixIs ==
    ASSUME NEW S, NEW s \in Seq(S), NEW k \in Nat, k <= Len(s)
    PROVE  Collected!Suffix(s, k) = Collected!Drop(s, Len(s) - k)
<1>1. CASE k < Len(s)
    BY <1>1 DEF Collected!Suffix, Collected!Drop
<1>2. CASE k = Len(s)
    BY <1>2 DEF Collected!Suffix, Collected!Drop
<1> QED BY <1>1, <1>2

LEMMA BegunIs ==
    ASSUME NEW s \in Seq(Shown), NEW k \in 1..Len(s)
    PROVE  Begun(s, k) <=> \E v \in Secrets : k < Len(v) /\ Collected!Prefix(v, k) = Collected!Suffix(s, k)
<1>1. ASSUME NEW v \in Secrets, k < Len(v)
      PROVE  Collected!Prefix(v, k) = Collected!Suffix(s, k) <=> \A i \in 1..k : s[Len(s) - k + i] = v[i]
    <2> DEFINE a == SubSeq(v, 1, k)
               b == Collected!Drop(s, Len(s) - k)
    <2>0. v \in Seq(Shown) /\ Len(v) \in Nat
        BY SecretIs
    <2>1. a \in Seq(Shown) /\ Len(a) = k /\ \A i \in 1..k : a[i] = v[i]
        BY <1>1, <2>0
    <2>2. b \in Seq(Shown) /\ Len(b) = k /\ \A i \in 1..k : b[i] = s[Len(s) - k + i]
        <3>1. PICK n \in Nat : n = Len(s) - k /\ n <= Len(s) /\ Len(s) - n = k
            OBVIOUS
        <3>2. /\ Collected!Drop(s, n) \in Seq(Shown)
              /\ Len(Collected!Drop(s, n)) = Len(s) - n
              /\ \A i \in 1..(Len(s) - n) : Collected!Drop(s, n)[i] = s[n + i]
            BY <3>1, DropIs
        <3> QED BY <3>1, <3>2
    <2>4. Collected!Prefix(v, k) = a
        BY <1>1, <2>0 DEF Collected!Prefix
    <2>5. Collected!Suffix(s, k) = b
        BY SuffixIs
    <2> HIDE DEF a, b
    <2> QED BY <2>1, <2>2, <2>4, <2>5, SeqEqual
<1>2. k \in Nat /\ k > 0 /\ k <= Len(s)
    OBVIOUS
<1> QED BY <1>1, <1>2 DEF Begun

LEMMA PendingIs ==
    ASSUME NEW s \in Seq(Shown)
    PROVE  /\ Collected!Pending(s) \in Nat /\ Collected!Pending(s) <= Len(s)
           /\ Collected!Pending(s) = 0 \/ Begun(s, Collected!Pending(s))
           /\ \A k : Begun(s, k) => k <= Collected!Pending(s)
<1> DEFINE sizes == {k \in 1..Len(s) : \E v \in Secrets : k < Len(v) /\ Collected!Prefix(v, k) = Collected!Suffix(s, k)}
<1>1. \A k : k \in sizes <=> Begun(s, k)
    <2>1. ASSUME NEW k, k \in sizes PROVE Begun(s, k)
        BY <2>1, BegunIs
    <2>2. ASSUME NEW k, Begun(s, k) PROVE k \in sizes
        <3>1. k \in 1..Len(s)
            BY <2>2 DEF Begun
        <3> QED BY <2>2, <3>1, BegunIs
    <2> QED BY <2>1, <2>2
<1>2. sizes \subseteq 1..Len(s)
    OBVIOUS
<1>3. Collected!Pending(s) = IF sizes = {} THEN 0 ELSE CHOOSE k \in sizes : \A l \in sizes : l <= k
    BY Zenon DEF Collected!Pending
<1> HIDE DEF sizes
<1>4. CASE sizes = {}
    <2>1. Collected!Pending(s) = 0
        BY <1>3, <1>4
    <2> QED BY <1>1, <1>4, <2>1
<1>5. CASE sizes # {}
    <2> DEFINE D == {Len(s) - k : k \in sizes}
    <2>1. D # {} /\ D \subseteq Nat
        <3>1. ASSUME NEW k \in sizes PROVE Len(s) - k \in Nat
            <4>1. k \in 1..Len(s)
                BY <1>2
            <4> QED BY <4>1
        <3>2. D # {}
            BY <1>5
        <3> QED BY <3>1, <3>2
    <2>2. PICK d \in D : \A e \in D : d <= e
        <3> HIDE DEF D
        <3> QED BY <2>1, HasLeast
    <2>3. PICK m \in sizes : d = Len(s) - m
        OBVIOUS
    <2>4. ASSUME NEW l \in sizes PROVE l <= m
        <3>1. Len(s) - l \in D
            OBVIOUS
        <3>2. d <= Len(s) - l
            BY <2>2, <3>1
        <3>3. l \in Nat /\ m \in Nat /\ Len(s) \in Nat
            BY <1>2, <2>3
        <3> QED BY <2>3, <3>2, <3>3
    <2>5. PICK k \in sizes : k = (CHOOSE j \in sizes : \A l \in sizes : l <= j) /\ \A l \in sizes : l <= k
        BY <2>3, <2>4
    <2>6. Collected!Pending(s) = k
        BY <1>3, <1>5, <2>5
    <2>7. k \in 1..Len(s)
        BY <1>2, <2>5
    <2>8. Begun(s, k)
        BY <1>1, <2>5
    <2>9. ASSUME NEW j, Begun(s, j) PROVE j <= k
        <3>1. j \in sizes
            BY <1>1, <2>9
        <3> QED BY <2>5, <3>1
    <2>10. k \in Nat /\ k <= Len(s)
        BY <2>7
    <2> QED BY Zenon, <2>6, <2>8, <2>9, <2>10
<1> QED BY <1>4, <1>5

LEMMA KeptIs ==
    ASSUME NEW s \in Seq(Shown), NEW final
    PROVE  Kept(s, final) \in Nat /\ Kept(s, final) <= Len(s)
<1>1. /\ Collected!Pending(s) \in Nat /\ Collected!Pending(s) <= Len(s) /\ 0 \in Nat
      /\ 0 <= Len(s)
    BY PendingIs
<1>2. Kept(s, final) = 0 \/ Kept(s, final) = Collected!Pending(s)
    BY Zenon DEF Kept
<1> QED BY <1>1, <1>2

LEMMA StopIs ==
    ASSUME NEW s \in Seq(Shown), NEW final
    PROVE  /\ Stop(s, final) \in Redactions
           /\ Stop(s, final).text = SubSeq(s, 1, Len(s) - Kept(s, final))
           /\ Stop(s, final).kept = Collected!Drop(s, Len(s) - Kept(s, final))
<1>1. PICK k \in Nat : k = Kept(s, final) /\ k <= Len(s)
    BY KeptIs
<1>2. Stop(s, final) = [text |-> Collected!Prefix(s, Len(s) - k), kept |-> Collected!Suffix(s, k)]
    BY Zenon, <1>1 DEF Stop
<1>3. Collected!Prefix(s, Len(s) - k) = SubSeq(s, 1, Len(s) - k)
    BY <1>1 DEF Collected!Prefix
<1>4. Collected!Suffix(s, k) = Collected!Drop(s, Len(s) - k)
    BY <1>1, SuffixIs
<1>5. SubSeq(s, 1, Len(s) - k) \in Seq(Shown)
    BY <1>1
<1>6. Collected!Drop(s, Len(s) - k) \in Seq(Shown)
    BY <1>1, DropIs
<1>7. Stop(s, final) = [text |-> SubSeq(s, 1, Len(s) - k), kept |-> Collected!Drop(s, Len(s) - k)]
    BY Zenon, <1>2, <1>3, <1>4
<1>8. /\ Stop(s, final).text = SubSeq(s, 1, Len(s) - k)
      /\ Stop(s, final).kept = Collected!Drop(s, Len(s) - k)
    BY <1>7
<1>9. Stop(s, final) \in Redactions
    BY <1>5, <1>6, <1>7 DEF Redactions
<1> QED BY Zenon, <1>1, <1>8, <1>9

LEMMA MarkIs == <<"#", "#">> \in Seq(Shown)
<1>1. PICK c \in Shown : c = "#"
    BY ShownMarks
<1>2. <<c, c>> \in Seq(Shown)
    OBVIOUS
<1> QED BY <1>1, <1>2

LEMMA WithIs ==
    ASSUME NEW s \in Seq(Shown), NEW p, NEW v, First(s, p, v), NEW r \in Redactions
    PROVE  /\ Past(s) \in 1..Len(s) /\ Past(s) = p + Len(v) - 1
           /\ With(s, r) \in Redactions
           /\ With(s, r).text = SubSeq(s, 1, p - 1) \o <<"#", "#">> \o r.text
           /\ With(s, r).kept = r.kept
<1>1. Collected!Earliest(s) = <<p, v>>
    BY EarliestIs
<1>2. v \in Secrets /\ p \in Nat /\ p > 0 /\ p + Len(v) - 1 <= Len(s)
    BY DEF First, Match
<1>3. Len(v) \in Nat /\ Len(v) > 0
    BY <1>2, SecretIs
<1>4. Past(s) \in 1..Len(s) /\ Past(s) = p + Len(v) - 1
    BY <1>1, <1>2, <1>3 DEF Past
<1>5. p - 1 \in Nat /\ p - 1 <= Len(s)
    BY <1>2, <1>3
<1>6. Collected!Prefix(s, Collected!Earliest(s)[1] - 1) = SubSeq(s, 1, p - 1)
    BY <1>1, <1>5 DEF Collected!Prefix
<1>7. SubSeq(s, 1, p - 1) \in Seq(Shown)
    BY <1>5
<1>8. PICK a \in Seq(Shown), b \in Seq(Shown), t \in Seq(Shown), k \in Seq(Shown) :
        a = SubSeq(s, 1, p - 1) /\ b = <<"#", "#">> /\ t = r.text /\ k = r.kept
    BY <1>7, MarkIs DEF Redactions
<1>9. a \o b \o t \in Seq(Shown)
    OBVIOUS
<1>10. With(s, r) = [text |-> a \o b \o t, kept |-> k]
    BY Zenon, <1>6, <1>8 DEF With
<1>11. [text |-> a \o b \o t, kept |-> k] \in Redactions
    BY Zenon, <1>8, <1>9 DEF Redactions
<1>12. With(s, r).text = a \o b \o t /\ With(s, r).kept = k
    BY <1>10
<1> QED BY Zenon, <1>4, <1>8, <1>10, <1>11, <1>12

(* The recursion of Redacted, as one over positions.                       *)
Ahead(s) ==
    [i \in 0..Len(s) |-> IF Collected!Matches(Collected!Drop(s, i)) # {} THEN i + Past(Collected!Drop(s, i)) ELSE Len(s) + 1]
Adding(s) ==
    [i \in 0..Len(s) |-> [r \in Redactions |->
        IF Collected!Matches(Collected!Drop(s, i)) # {} THEN With(Collected!Drop(s, i), r) ELSE r]]
Ending(s, final) == [i \in 0..Len(s) |-> Stop(Collected!Drop(s, i), final)]

LEMMA HasFirst ==
    ASSUME NEW s \in Seq(Shown), Collected!Matches(s) # {}
    PROVE  \E p \in Nat, v \in Secrets : First(s, p, v)
BY UnmatchedIs, FirstExists

LEMMA AheadIs ==
    ASSUME NEW s \in Seq(Shown), NEW i \in 0..Len(s)
    PROVE  /\ Collected!Drop(s, i) \in Seq(Shown)
           /\ Ahead(s)[i] = IF Collected!Matches(Collected!Drop(s, i)) # {} THEN i + Past(Collected!Drop(s, i)) ELSE Len(s) + 1
           /\ Ahead(s)[i] \in Nat /\ i < Ahead(s)[i]
           /\ Collected!Matches(Collected!Drop(s, i)) # {} <=> Ahead(s)[i] <= Len(s)
<1>1. Collected!Drop(s, i) \in Seq(Shown) /\ Len(Collected!Drop(s, i)) = Len(s) - i
    BY DropIs
<1>2. Ahead(s)[i] = IF Collected!Matches(Collected!Drop(s, i)) # {} THEN i + Past(Collected!Drop(s, i)) ELSE Len(s) + 1
    BY DEF Ahead
<1>3. CASE Collected!Matches(Collected!Drop(s, i)) # {}
    <2>1. PICK p \in Nat, v \in Secrets : First(Collected!Drop(s, i), p, v)
        BY <1>1, <1>3, HasFirst
    <2>2. Redactions # {}
        <3>1. PICK x \in Seq(Shown) : TRUE
            BY MarkIs
        <3>2. [text |-> x, kept |-> x] \in Redactions
            BY DEF Redactions
        <3> QED BY <3>2
    <2>3. Past(Collected!Drop(s, i)) \in 1..Len(Collected!Drop(s, i))
        BY <1>1, <2>1, <2>2, WithIs
    <2> QED BY <1>1, <1>2, <1>3, <2>3
<1>4. CASE ~(Collected!Matches(Collected!Drop(s, i)) # {})
    BY <1>1, <1>2, <1>4
<1> QED BY <1>1, <1>2, <1>3, <1>4

LEMMA AddingIs ==
    ASSUME NEW s \in Seq(Shown), NEW i \in 0..Len(s), NEW r \in Redactions
    PROVE  /\ Collected!Matches(Collected!Drop(s, i)) # {} => Adding(s)[i][r] = With(Collected!Drop(s, i), r)
           /\ Adding(s)[i][r] \in Redactions
<1>1. Collected!Drop(s, i) \in Seq(Shown)
    BY DropIs
<1>2. Adding(s)[i][r] = IF Collected!Matches(Collected!Drop(s, i)) # {} THEN With(Collected!Drop(s, i), r) ELSE r
    BY DEF Adding
<1>3. CASE Collected!Matches(Collected!Drop(s, i)) # {}
    <2>1. PICK p \in Nat, v \in Secrets : First(Collected!Drop(s, i), p, v)
        BY <1>1, <1>3, HasFirst
    <2>2. With(Collected!Drop(s, i), r) \in Redactions
        BY <1>1, <2>1, WithIs
    <2> QED BY <1>2, <1>3, <2>2
<1>4. CASE ~(Collected!Matches(Collected!Drop(s, i)) # {})
    BY <1>2, <1>4
<1> QED BY <1>2, <1>3, <1>4

LEMMA StepsAre ==
    ASSUME NEW s \in Seq(Shown), NEW final
    PROVE  /\ Ahead(s) \in [0..Len(s) -> Nat]
           /\ Adding(s) \in [0..Len(s) -> [Redactions -> Redactions]]
           /\ Ending(s, final) \in [0..Len(s) -> Redactions]
<1>1. \A i \in 0..Len(s) : Ahead(s)[i] \in Nat
    BY AheadIs
<1>2. Ahead(s) \in [0..Len(s) -> Nat]
    BY <1>1 DEF Ahead
<1>3. ASSUME NEW i \in 0..Len(s)
      PROVE  [r \in Redactions |-> IF Collected!Matches(Collected!Drop(s, i)) # {} THEN With(Collected!Drop(s, i), r) ELSE r]
             \in [Redactions -> Redactions]
    <2>1. ASSUME NEW r \in Redactions
          PROVE  (IF Collected!Matches(Collected!Drop(s, i)) # {} THEN With(Collected!Drop(s, i), r) ELSE r) \in Redactions
        <3>1. Adding(s)[i][r] = IF Collected!Matches(Collected!Drop(s, i)) # {} THEN With(Collected!Drop(s, i), r) ELSE r
            BY DEF Adding
        <3>2. Adding(s)[i][r] \in Redactions
            BY AddingIs
        <3> QED BY <3>1, <3>2
    <2> QED BY <2>1
<1>4. Adding(s) \in [0..Len(s) -> [Redactions -> Redactions]]
    BY <1>3 DEF Adding
<1>5. ASSUME NEW i \in 0..Len(s) PROVE Stop(Collected!Drop(s, i), final) \in Redactions
    <2>1. Collected!Drop(s, i) \in Seq(Shown)
        BY DropIs
    <2> QED BY <2>1, StopIs
<1>6. Ending(s, final) \in [0..Len(s) -> Redactions]
    BY <1>5 DEF Ending
<1> QED BY <1>2, <1>4, <1>6

LEMMA RedactionExists ==
    ASSUME NEW s \in Seq(Shown), NEW final
    PROVE  \E f \in [0..Len(s) -> Redactions] :
              Follows(f, Len(s), Ahead(s), Adding(s), Ending(s, final))
<1>1. \A i \in 0..Len(s) : i < Ahead(s)[i]
    BY AheadIs
<1>2. Len(s) \in Nat
    OBVIOUS
<1> QED BY <1>1, <1>2, StepsAre, Descends

LEMMA RedactionFollows ==
    ASSUME NEW s \in Seq(Shown), NEW final, NEW f \in [0..Len(s) -> Redactions]
    PROVE  RedactsBy(f, s, final) <=> Follows(f, Len(s), Ahead(s), Adding(s), Ending(s, final))
<1> DEFINE By(i) == IF Collected!Matches(Collected!Drop(s, i)) # {}
                    THEN With(Collected!Drop(s, i), f[i + Collected!Earliest(Collected!Drop(s, i))[1] + Len(Collected!Earliest(Collected!Drop(s, i))[2]) - 1])
                    ELSE Stop(Collected!Drop(s, i), final)
           To(i) == IF Ahead(s)[i] <= Len(s) THEN Adding(s)[i][f[Ahead(s)[i]]] ELSE Ending(s, final)[i]
<1>1. ASSUME NEW i \in 0..Len(s) PROVE By(i) = To(i)
    <2>1. CASE Collected!Matches(Collected!Drop(s, i)) # {}
        <3>1. PICK k : k = i + Past(Collected!Drop(s, i)) /\ k = Ahead(s)[i] /\ k \in 0..Len(s)
            BY <2>1, AheadIs
        <3>2. PICK p \in Nat, v \in Secrets : First(Collected!Drop(s, i), p, v)
            BY <2>1, AheadIs, HasFirst
        <3>3. Collected!Earliest(Collected!Drop(s, i)) = <<p, v>> /\ Len(v) \in Nat
            BY <3>2, AheadIs, EarliestIs, SecretIs
        <3>4. k = i + Collected!Earliest(Collected!Drop(s, i))[1] + Len(Collected!Earliest(Collected!Drop(s, i))[2]) - 1
            BY <3>1, <3>3 DEF Past
        <3>5. f[k] \in Redactions
            BY <3>1
        <3>6. Adding(s)[i][f[k]] = With(Collected!Drop(s, i), f[k])
            BY <2>1, <3>5, AddingIs
        <3>7. To(i) = Adding(s)[i][f[k]]
            BY <3>1
        <3>8. By(i) = With(Collected!Drop(s, i), f[k])
            BY Zenon, <2>1, <3>4
        <3> QED BY Zenon, <3>6, <3>7, <3>8
    <2>2. CASE ~(Collected!Matches(Collected!Drop(s, i)) # {})
        <3>1. ~(Ahead(s)[i] <= Len(s))
            BY <2>2, AheadIs
        <3>2. Ending(s, final)[i] = Stop(Collected!Drop(s, i), final)
            BY DEF Ending
        <3> QED BY Zenon, <2>2, <3>1, <3>2
    <2> QED BY <2>1, <2>2
<1>2. RedactsBy(f, s, final) <=> f = [i \in 0..Len(s) |-> By(i)]
    BY Zenon DEF RedactsBy
<1>3. Follows(f, Len(s), Ahead(s), Adding(s), Ending(s, final)) <=> \A i \in 0..Len(s) : f[i] = To(i)
    BY Zenon DEF Follows
<1> HIDE DEF By, To
<1>4. f = [i \in 0..Len(s) |-> By(i)] <=> \A i \in 0..Len(s) : f[i] = By(i)
    OBVIOUS
<1>5. (\A i \in 0..Len(s) : f[i] = By(i)) <=> \A i \in 0..Len(s) : f[i] = To(i)
    BY <1>1
<1> QED BY <1>2, <1>3, <1>4, <1>5

SameIf(n, J, f, g) == \A i \in 0..n : J[i] <= n /\ f[J[i]] = g[J[i]] => f[i] = g[i]
SameAtEnd(n, J, f, g) == \A i \in 0..n : ~(J[i] <= n) => f[i] = g[i]

LEMMA Agree ==
    ASSUME NEW n \in Nat, NEW J, Rises(n, J), NEW f, NEW g,
           SameIf(n, J, f, g), SameAtEnd(n, J, f, g)
    PROVE  \A i \in 0..n : f[i] = g[i]
<1> DEFINE S == {k \in Nat : \A i \in 0..n : n - i <= k => f[i] = g[i]}
<1>1. ASSUME NEW i \in 0..n, \A j \in 0..n : i < j => f[j] = g[j] PROVE f[i] = g[i]
    <2>1. CASE J[i] <= n
        <3>1. J[i] \in 0..n /\ i < J[i]
            BY <2>1 DEF Rises
        <3> QED BY <1>1, <2>1, <3>1 DEF SameIf
    <2>2. CASE ~(J[i] <= n)
        BY <2>2 DEF SameAtEnd
    <2> QED BY <2>1, <2>2
<1>2. 0 \in S
    <2> SUFFICES ASSUME NEW i \in 0..n, n - i <= 0 PROVE f[i] = g[i]
        OBVIOUS
    <2>1. \A j \in 0..n : ~(i < j)
        OBVIOUS
    <2> QED BY <1>1, <2>1
<1>3. ASSUME NEW k \in Nat, k \in S PROVE k + 1 \in S
    <2> SUFFICES ASSUME NEW i \in 0..n, n - i <= k + 1 PROVE f[i] = g[i]
        OBVIOUS
    <2>1. ASSUME NEW j \in 0..n, i < j PROVE f[j] = g[j]
        <3>1. n - j <= k
            BY <2>1
        <3> QED BY <1>3, <3>1
    <2> QED BY <1>1, <2>1
<1> HIDE DEF S
<1>4. n \in S
    <2>1. Nat \subseteq S
        BY <1>2, <1>3, InductionOverASet
    <2> QED BY <2>1
<1> QED BY <1>4 DEF S

(* The redaction of s, by a function of its positions.                     *)
LEMMA RedactionIs ==
    ASSUME NEW s \in Seq(Shown), NEW final
    PROVE  \E f \in [0..Len(s) -> Redactions] :
              /\ Follows(f, Len(s), Ahead(s), Adding(s), Ending(s, final))
              /\ Collected!Redacted(s, final) = f[0]
<1>1. PICK f \in [0..Len(s) -> Redactions] :
        Follows(f, Len(s), Ahead(s), Adding(s), Ending(s, final))
    BY RedactionExists
<1>2. RedactsBy(f, s, final)
    BY <1>1, RedactionFollows
<1>3. PICK g : g = (CHOOSE h : RedactsBy(h, s, final)) /\ RedactsBy(g, s, final)
    BY <1>2
<1> DEFINE Of(h, i) ==
        IF Collected!Matches(Collected!Drop(s, i)) # {}
        THEN With(Collected!Drop(s, i), h[i + Collected!Earliest(Collected!Drop(s, i))[1] + Len(Collected!Earliest(Collected!Drop(s, i))[2]) - 1])
        ELSE Stop(Collected!Drop(s, i), final)
<1>4. f = [i \in 0..Len(s) |-> Of(f, i)] /\ g = [i \in 0..Len(s) |-> Of(g, i)]
    BY Zenon, <1>2, <1>3 DEF RedactsBy
<1>5. \A i \in 0..Len(s) : f[i] = Of(f, i) /\ g[i] = Of(g, i)
    <2> HIDE DEF Of
    <2> QED BY <1>4
<1>6. ASSUME NEW i \in 0..Len(s), Ahead(s)[i] <= Len(s) /\ f[Ahead(s)[i]] = g[Ahead(s)[i]]
      PROVE  f[i] = g[i]
    <2>1. Collected!Matches(Collected!Drop(s, i)) # {}
        BY <1>6, AheadIs
    <2>2. PICK k : k = i + Past(Collected!Drop(s, i)) /\ k = Ahead(s)[i] /\ k \in 0..Len(s)
        BY <1>6, <2>1, AheadIs
    <2>3. PICK p \in Nat, v \in Secrets : First(Collected!Drop(s, i), p, v)
        BY <2>1, AheadIs, HasFirst
    <2>4. Collected!Earliest(Collected!Drop(s, i)) = <<p, v>> /\ Len(v) \in Nat
        BY <2>3, AheadIs, EarliestIs, SecretIs
    <2>5. k = i + Collected!Earliest(Collected!Drop(s, i))[1] + Len(Collected!Earliest(Collected!Drop(s, i))[2]) - 1
        BY <2>2, <2>4 DEF Past
    <2>6. f[k] = g[k]
        BY <1>6, <2>2
    <2>7. /\ Of(f, i) = With(Collected!Drop(s, i), f[k])
          /\ Of(g, i) = With(Collected!Drop(s, i), g[k])
        BY Zenon, <2>1, <2>5
    <2> HIDE DEF Of
    <2> QED BY <1>5, <2>6, <2>7
<1>7. ASSUME NEW i \in 0..Len(s), ~(Ahead(s)[i] <= Len(s))
      PROVE  f[i] = g[i]
    <2>1. ~(Collected!Matches(Collected!Drop(s, i)) # {})
        BY <1>7, AheadIs
    <2>2. /\ Of(f, i) = Stop(Collected!Drop(s, i), final)
          /\ Of(g, i) = Stop(Collected!Drop(s, i), final)
        BY Zenon, <2>1
    <2> HIDE DEF Of
    <2> QED BY <1>5, <2>2
<1>8. f[0] = g[0]
    <2>1. \A i \in 0..Len(s) : Ahead(s)[i] \in Nat /\ i < Ahead(s)[i]
        BY AheadIs
    <2>2. SameIf(Len(s), Ahead(s), f, g)
        BY <1>6 DEF SameIf
    <2>3. SameAtEnd(Len(s), Ahead(s), f, g)
        BY <1>7 DEF SameAtEnd
    <2>4. Rises(Len(s), Ahead(s))
        BY <2>1 DEF Rises
    <2>5. Len(s) \in Nat /\ 0 \in 0..Len(s)
        OBVIOUS
    <2>6. \A i \in 0..Len(s) : f[i] = g[i]
        BY <2>2, <2>3, <2>4, <2>5, Agree
    <2> QED BY <2>5, <2>6
<1>9. Collected!Redacted(s, final) = g[0]
    BY Zenon, <1>3, RedactedIs
<1> QED BY <1>1, <1>8, <1>9

LEMMA DropNone ==
    ASSUME NEW s \in Seq(Shown)
    PROVE  Collected!Drop(s, 0) = s
<1>1. SubSeq(s, 1, Len(s)) = s
    OBVIOUS
<1> QED BY <1>1 DEF Collected!Drop

(* What holds of a redaction: without a match it ends, and with one it     *)
(* goes on behind the first.                                               *)
LEMMA RedactedTypes ==
    ASSUME NEW s \in Seq(Shown), NEW final
    PROVE  /\ Collected!Redacted(s, final) \in Redactions
           /\ Collected!Redacted(s, final).text \in Seq(Shown)
           /\ Collected!Redacted(s, final).kept \in Seq(Shown)
<1>1. PICK f \in [0..Len(s) -> Redactions] : Collected!Redacted(s, final) = f[0]
    BY RedactionIs
<1>2. f[0] \in Redactions
    OBVIOUS
<1> QED BY <1>1, <1>2 DEF Redactions

LEMMA RedactedEnds ==
    ASSUME NEW s \in Seq(Shown), NEW final, Unmatched(s)
    PROVE  Collected!Redacted(s, final) = Stop(s, final)
<1>1. PICK f \in [0..Len(s) -> Redactions] :
              /\ Follows(f, Len(s), Ahead(s), Adding(s), Ending(s, final))
              /\ Collected!Redacted(s, final) = f[0]
    BY RedactionIs
<1>2. 0 \in 0..Len(s)
    OBVIOUS
<1>3. Collected!Matches(Collected!Drop(s, 0)) = {}
    BY DropNone, UnmatchedIs
<1>4. ~(Ahead(s)[0] <= Len(s))
    BY <1>2, <1>3, AheadIs
<1>5. f[0] = Ending(s, final)[0]
    BY <1>1, <1>2, <1>4 DEF Follows
<1>6. Ending(s, final)[0] = Stop(Collected!Drop(s, 0), final)
    BY <1>2 DEF Ending
<1> QED BY Zenon, <1>1, <1>5, <1>6, DropNone

LEMMA RedactedGoesOn ==
    ASSUME NEW s \in Seq(Shown), NEW final, NEW p, NEW v, First(s, p, v)
    PROVE  Collected!Redacted(s, final) = With(s, Collected!Redacted(Collected!Drop(s, p + Len(v) - 1), final))
<1>1. PICK f \in [0..Len(s) -> Redactions] :
              /\ Follows(f, Len(s), Ahead(s), Adding(s), Ending(s, final))
              /\ Collected!Redacted(s, final) = f[0]
    BY RedactionIs
<1>2. 0 \in 0..Len(s)
    OBVIOUS
<1>3. Collected!Matches(Collected!Drop(s, 0)) # {}
    BY DropNone, EarliestIs
<1>4. PICK x \in Redactions : TRUE
    BY <1>1, <1>2
<1>5. PICK c \in 1..Len(s) : c = Past(s) /\ c = p + Len(v) - 1
    BY <1>4, WithIs
<1>6. Ahead(s)[0] = c
    <2>1. Ahead(s)[0] = 0 + Past(Collected!Drop(s, 0))
        BY <1>2, <1>3, AheadIs
    <2>2. Past(Collected!Drop(s, 0)) = c
        BY <1>5, DropNone
    <2> QED BY <2>1, <2>2
<1>7. f[0] = Adding(s)[0][f[c]]
    BY <1>1, <1>2, <1>6 DEF Follows
<1>8. Adding(s)[0][f[c]] = With(s, f[c])
    BY <1>2, <1>3, AddingIs, DropNone
<1>9. PICK t \in Seq(Shown) : t = Collected!Drop(s, c) /\ Len(t) = Len(s) - c
    BY DropIs
<1>10. PICK g \in [0..Len(t) -> Redactions] :
              /\ Follows(g, Len(t), Ahead(t), Adding(t), Ending(t, final))
              /\ Collected!Redacted(t, final) = g[0]
    BY RedactionIs
<1>11. ASSUME NEW i \in 0..Len(t)
       PROVE  /\ Ahead(t)[i] = Ahead(s)[c + i] - c /\ Adding(t)[i] = Adding(s)[c + i]
              /\ Ending(t, final)[i] = Ending(s, final)[c + i]
    <2>1. c + i \in 0..Len(s) /\ c + i <= Len(s) /\ c \in Nat /\ i \in Nat
        BY <1>9
    <2>2. Collected!Drop(t, i) = Collected!Drop(s, c + i)
        BY <1>9, <2>1, DropDrop
    <2>3. Adding(t)[i] = Adding(s)[c + i]
        BY <2>1, <2>2 DEF Adding
    <2>4. Ending(t, final)[i] = Ending(s, final)[c + i]
        BY <2>1, <2>2 DEF Ending
    <2>5. Ahead(t)[i] = IF Collected!Matches(Collected!Drop(s, c + i)) # {} THEN i + Past(Collected!Drop(s, c + i)) ELSE Len(t) + 1
        BY <2>2, AheadIs
    <2>6. Ahead(s)[c + i] = IF Collected!Matches(Collected!Drop(s, c + i)) # {} THEN (c + i) + Past(Collected!Drop(s, c + i)) ELSE Len(s) + 1
        BY <2>1, AheadIs
    <2>7. CASE Collected!Matches(Collected!Drop(s, c + i)) # {}
        <3>1. PICK a \in Nat, b \in Secrets : First(Collected!Drop(s, c + i), a, b)
            BY <2>1, <2>7, AheadIs, HasFirst
        <3>2. Past(Collected!Drop(s, c + i)) \in 1..Len(Collected!Drop(s, c + i))
            BY <1>4, <2>1, <3>1, AheadIs, WithIs
        <3>3. PICK m \in Nat : m = Past(Collected!Drop(s, c + i))
            BY <2>1, <3>2, AheadIs
        <3>4. Ahead(t)[i] = i + m /\ Ahead(s)[c + i] = (c + i) + m
            BY <2>5, <2>6, <2>7, <3>3
        <3> QED BY <2>1, <2>3, <2>4, <3>3, <3>4
    <2>8. CASE ~(Collected!Matches(Collected!Drop(s, c + i)) # {})
        <3>1. Ahead(t)[i] = Len(t) + 1 /\ Ahead(s)[c + i] = Len(s) + 1
            BY <2>5, <2>6, <2>8
        <3> QED BY <1>9, <2>3, <2>4, <3>1
    <2> QED BY <2>7, <2>8
<1>12. g[0] = f[c]
    <2>1. PICK n \in Nat, l \in Nat : n = Len(s) /\ l = Len(t) /\ l = n - c /\ c \in 0..n
        BY <1>9
    <2>2. Rises(n, Ahead(s))
        BY <2>1, AheadIs DEF Rises
    <2>3. Lowered(l, c, Ahead(t), Ahead(s))
        BY <1>11, <2>1 DEF Lowered
    <2>4. Shifted(l, c, Adding(t), Adding(s))
        BY <1>11, <2>1 DEF Shifted
    <2>5. Shifted(l, c, Ending(t, final), Ending(s, final))
        BY <1>11, <2>1 DEF Shifted
    <2>6. Follows(f, n, Ahead(s), Adding(s), Ending(s, final))
        BY Zenon, <1>1, <2>1
    <2>7. Follows(g, l, Ahead(t), Adding(t), Ending(t, final))
        BY Zenon, <1>10, <2>1
    <2>8. Splits(n, c, l)
        BY <2>1 DEF Splits
    <2> QED BY <2>2, <2>3, <2>4, <2>5, <2>6, <2>7, <2>8, FollowsRest
<1> QED BY Zenon, <1>1, <1>5, <1>7, <1>8, <1>9, <1>10, <1>12

(* A cut inside a sequence.                                                *)
LEMMA DropPast ==
    ASSUME NEW S, NEW u \in Seq(S), NEW w \in Seq(S), NEW e \in Nat, e <= Len(w)
    PROVE  Collected!Drop(u \o w, Len(u) + e) = Collected!Drop(w, e)
<1> DEFINE a == SubSeq(u \o w, Len(u) + e + 1, Len(u \o w))
           b == SubSeq(w, e + 1, Len(w))
<1>1. a \in Seq(S) /\ Len(a) = Len(w) - e
    OBVIOUS
<1>2. b \in Seq(S) /\ Len(b) = Len(w) - e
    OBVIOUS
<1>3. \A i \in 1..(Len(w) - e) : a[i] = b[i]
    OBVIOUS
<1> HIDE DEF a, b
<1>4. a = b
    BY <1>1, <1>2, <1>3, SeqEqual
<1> QED BY <1>4 DEF a, b, Collected!Drop

LEMMA PrefixPast ==
    ASSUME NEW S, NEW u \in Seq(S), NEW w \in Seq(S), NEW e \in Nat, e <= Len(w)
    PROVE  SubSeq(u \o w, 1, Len(u) + e) = u \o SubSeq(w, 1, e)
<1> DEFINE a == SubSeq(u \o w, 1, Len(u) + e)
           b == SubSeq(w, 1, e)
           g == u \o b
<1>1. a \in Seq(S) /\ Len(a) = Len(u) + e
    OBVIOUS
<1>2. b \in Seq(S) /\ Len(b) = e
    OBVIOUS
<1>3. \A i \in 1..e : b[i] = w[i]
    OBVIOUS
<1>4. \A i \in 1..(Len(u) + e) : a[i] = IF i <= Len(u) THEN u[i] ELSE w[i - Len(u)]
    OBVIOUS
<1> HIDE DEF a, b
<1>5. g \in Seq(S) /\ Len(g) = Len(u) + e
    BY <1>2
<1>6. \A i \in 1..(Len(u) + e) : g[i] = IF i <= Len(u) THEN u[i] ELSE b[i - Len(u)]
    BY <1>2
<1> HIDE DEF g
<1>7. ASSUME NEW i \in 1..(Len(u) + e) PROVE a[i] = g[i]
    <2>1. CASE i <= Len(u)
        BY <1>4, <1>6, <2>1
    <2>2. CASE ~(i <= Len(u))
        <3>1. i - Len(u) \in 1..e
            BY <2>2
        <3> QED BY <1>3, <1>4, <1>6, <2>2, <3>1
    <2> QED BY <2>1, <2>2
<1>8. a = g
    BY <1>1, <1>5, <1>7, SeqEqual
<1> QED BY <1>8 DEF a, b, g

LEMMA PrefixWithin ==
    ASSUME NEW S, NEW x \in Seq(S), NEW y \in Seq(S), NEW n \in Nat, n <= Len(x)
    PROVE  SubSeq(x \o y, 1, n) = SubSeq(x, 1, n)
<1> DEFINE a == SubSeq(x \o y, 1, n)
           b == SubSeq(x, 1, n)
<1>1. a \in Seq(S) /\ Len(a) = n
    OBVIOUS
<1>2. b \in Seq(S) /\ Len(b) = n
    OBVIOUS
<1>3. \A i \in 1..n : a[i] = b[i]
    OBVIOUS
<1> HIDE DEF a, b
<1>4. a = b
    BY <1>1, <1>2, <1>3, SeqEqual
<1> QED BY <1>4 DEF a, b

(* Matches in a part of a sequence.                                        *)
LEMMA MatchIs ==
    ASSUME NEW s, NEW p, NEW v, Match(s, p, v)
    PROVE  /\ v \in Secrets /\ v \in Seq(Shown) /\ Len(v) \in Nat /\ Len(v) > 0
           /\ p \in Nat /\ p > 0 /\ p + Len(v) - 1 <= Len(s)
           /\ \A i \in 1..Len(v) : s[p + i - 1] = v[i]
BY SecretIs DEF Match

LEMMA MatchStays ==
    ASSUME NEW x \in Seq(Shown), NEW y \in Seq(Shown), NEW p, NEW v, Match(x, p, v)
    PROVE  Match(x \o y, p, v)
<1>1. /\ v \in Secrets /\ Len(v) \in Nat /\ Len(v) > 0
      /\ p \in Nat /\ p > 0 /\ p + Len(v) - 1 <= Len(x)
    BY MatchIs
<1>2. \A i \in 1..Len(v) : x[p + i - 1] = v[i]
    BY MatchIs
<1>3. ASSUME NEW i \in 1..Len(v) PROVE (x \o y)[p + i - 1] = v[i]
    <2>1. p + i - 1 \in 1..Len(x)
        BY <1>1
    <2>2. (x \o y)[p + i - 1] = x[p + i - 1]
        BY <2>1
    <2> QED BY <1>2, <2>2
<1>4. p + Len(v) - 1 <= Len(x \o y)
    BY <1>1
<1> QED BY <1>1, <1>3, <1>4 DEF Match

LEMMA MatchWithin ==
    ASSUME NEW x \in Seq(Shown), NEW y \in Seq(Shown), NEW p, NEW v, Match(x \o y, p, v),
           p + Len(v) - 1 <= Len(x)
    PROVE  Match(x, p, v)
<1>1. v \in Secrets /\ Len(v) \in Nat /\ Len(v) > 0 /\ p \in Nat /\ p > 0
    BY MatchIs
<1>2. \A i \in 1..Len(v) : (x \o y)[p + i - 1] = v[i]
    BY DEF Match
<1>3. ASSUME NEW i \in 1..Len(v) PROVE x[p + i - 1] = v[i]
    <2>1. p + i - 1 \in 1..Len(x)
        BY <1>1
    <2>2. (x \o y)[p + i - 1] = x[p + i - 1]
        BY <2>1
    <2> QED BY <1>2, <2>2
<1> QED BY <1>1, <1>3 DEF Match

LEMMA MatchMoves ==
    ASSUME NEW u \in Seq(Shown), NEW w \in Seq(Shown), NEW p, NEW v, Match(w, p, v)
    PROVE  Match(u \o w, Len(u) + p, v)
<1>1. /\ v \in Secrets /\ Len(v) \in Nat /\ Len(v) > 0
      /\ p \in Nat /\ p > 0 /\ p + Len(v) - 1 <= Len(w)
    BY MatchIs
<1>2. \A i \in 1..Len(v) : w[p + i - 1] = v[i]
    BY MatchIs
<1>3. ASSUME NEW i \in 1..Len(v) PROVE (u \o w)[(Len(u) + p) + i - 1] = v[i]
    <2>1. PICK j \in 1..Len(w) : j = p + i - 1
        BY <1>1
    <2>2. (Len(u) + p) + i - 1 = Len(u) + j
        BY <1>1, <2>1
    <2>3. (u \o w)[Len(u) + j] = w[j]
        OBVIOUS
    <2> QED BY <1>2, <2>1, <2>2, <2>3
<1>4. Len(u) + p \in Nat /\ Len(u) + p > 0 /\ (Len(u) + p) + Len(v) - 1 <= Len(u \o w)
    BY <1>1
<1> QED BY <1>1, <1>3, <1>4 DEF Match

LEMMA MatchMovesBack ==
    ASSUME NEW u \in Seq(Shown), NEW w \in Seq(Shown), NEW p \in Nat, p > 0, NEW v,
           Match(u \o w, Len(u) + p, v)
    PROVE  Match(w, p, v)
<1>1. /\ v \in Secrets /\ Len(v) \in Nat /\ Len(v) > 0
      /\ (Len(u) + p) + Len(v) - 1 <= Len(u \o w)
    BY MatchIs
<1>2. \A i \in 1..Len(v) : (u \o w)[(Len(u) + p) + i - 1] = v[i]
    BY DEF Match
<1>3. p + Len(v) - 1 <= Len(w)
    BY <1>1
<1>4. ASSUME NEW i \in 1..Len(v) PROVE w[p + i - 1] = v[i]
    <2>1. PICK j \in 1..Len(w) : j = p + i - 1
        BY <1>1, <1>3
    <2>2. (Len(u) + p) + i - 1 = Len(u) + j
        BY <1>1, <2>1
    <2>3. (u \o w)[Len(u) + j] = w[j]
        OBVIOUS
    <2> QED BY <1>2, <2>1, <2>2, <2>3
<1> QED BY <1>1, <1>3, <1>4 DEF Match

(* A value ends at the end of a value it occurs in, of values apart.       *)
LEMMA EndsTogether ==
    ASSUME Collected!ValuesApart, NEW v \in Secrets, NEW w \in Secrets, NEW i, Match(w, i, v)
    PROVE  i + Len(v) - 1 = Len(w)
<1>1. i \in Nat /\ i > 0 /\ w \in Seq(Shown)
    BY MatchIs, SecretIs
<1>2. i \in 1..Len(w) /\ Collected!At(w, v, i)
    BY <1>1, AtIs
<1> QED BY <1>2 DEF Collected!ValuesApart

(* Two matches at which one begins no earlier and ends before the other:   *)
(* it would be inside.                                                     *)
LEMMA NoneInside ==
    ASSUME Collected!ValuesApart, NEW s \in Seq(Shown), NEW p, NEW v, Match(s, p, v), NEW q, NEW w, Match(s, q, w),
           q <= p
    PROVE  q + Len(w) <= p + Len(v)
<1>1. /\ v \in Secrets /\ w \in Secrets /\ Len(v) \in Nat /\ Len(v) > 0
      /\ Len(w) \in Nat /\ Len(w) > 0 /\ p \in Nat /\ q \in Nat /\ q > 0
    BY MatchIs
<1> SUFFICES ASSUME ~(q + Len(w) <= p + Len(v)) PROVE FALSE
    OBVIOUS
<1>2. PICK i \in Nat : i = p - q + 1 /\ i > 0
    BY <1>1
<1>3. i + Len(v) - 1 < Len(w)
    BY <1>1, <1>2
<1>4. ASSUME NEW j \in 1..Len(v) PROVE w[i + j - 1] = v[j]
    <2>1. PICK m \in 1..Len(w) : m = i + j - 1
        BY <1>1, <1>2, <1>3
    <2>2. s[q + m - 1] = w[m]
        BY MatchIs
    <2>3. s[p + j - 1] = v[j]
        BY MatchIs
    <2>4. q + m - 1 = p + j - 1
        BY <1>1, <1>2, <2>1
    <2> QED BY <2>1, <2>2, <2>3, <2>4
<1>5. i + Len(v) - 1 <= Len(w)
    BY <1>1, <1>2, <1>3
<1>6. Match(w, i, v)
    BY <1>1, <1>2, <1>4, <1>5 DEF Match
<1>7. i + Len(v) - 1 = Len(w)
    BY <1>1, <1>6, EndsTogether
<1> QED BY <1>1, <1>2, <1>3, <1>7

(* The first match of a beginning is the first of the whole.               *)
LEMMA FirstStays ==
    ASSUME Collected!ValuesApart, NEW x \in Seq(Shown), NEW y \in Seq(Shown), NEW p, NEW v, First(x, p, v)
    PROVE  First(x \o y, p, v)
<1>1. Match(x, p, v) /\ Match(x \o y, p, v)
    BY MatchStays DEF First
<1>2. Len(v) \in Nat /\ p \in Nat /\ p + Len(v) - 1 <= Len(x) /\ x \o y \in Seq(Shown)
    BY <1>1, MatchIs, Joining
<1>3. ASSUME NEW q \in Nat, NEW w \in Secrets, Match(x \o y, q, w)
      PROVE  p < q \/ (p = q /\ Len(w) <= Len(v))
    <2>1. Len(w) \in Nat
        BY SecretIs
    <2>2. CASE q <= p
        <3>1. q + Len(w) <= p + Len(v)
            BY <1>1, <1>2, <1>3, <2>2, NoneInside
        <3>2. q + Len(w) - 1 <= Len(x)
            BY <1>2, <2>1, <3>1
        <3>3. Match(x, q, w)
            BY <1>3, <3>2, MatchWithin
        <3> QED BY <3>3 DEF First
    <2>3. CASE ~(q <= p)
        BY <1>2, <2>3
    <2> QED BY <2>2, <2>3
<1> QED BY <1>1, <1>3 DEF First

-----------------------------------------------------------------------------
(* A text that goes on, and one that is complete.                          *)
Held(s) == Collected!Redacted(s, FALSE)
Ended(s) == Collected!Redacted(s, TRUE)

LEMMA HeldTypes ==
    ASSUME NEW s \in Seq(Shown)
    PROVE  Held(s) \in Redactions /\ Held(s).text \in Seq(Shown) /\ Held(s).kept \in Seq(Shown)
BY Zenon, RedactedTypes DEF Held

LEMMA HeldGoesOn ==
    ASSUME NEW s \in Seq(Shown), NEW p, NEW v, First(s, p, v)
    PROVE  Held(s) = With(s, Held(Collected!Drop(s, p + Len(v) - 1)))
BY Zenon, RedactedGoesOn DEF Held

LEMMA HeldEnds ==
    ASSUME NEW s \in Seq(Shown), Unmatched(s)
    PROVE  /\ Held(s).text = SubSeq(s, 1, Len(s) - Collected!Pending(s))
           /\ Held(s).kept = Collected!Drop(s, Len(s) - Collected!Pending(s))
<1>1. Collected!Redacted(s, FALSE) = Stop(s, FALSE)
    BY Zenon, RedactedEnds
<1>2. Kept(s, FALSE) = Collected!Pending(s)
    BY Zenon DEF Kept
<1>3. /\ Stop(s, FALSE).text = SubSeq(s, 1, Len(s) - Kept(s, FALSE))
      /\ Stop(s, FALSE).kept = Collected!Drop(s, Len(s) - Kept(s, FALSE))
    BY Zenon, StopIs
<1> QED BY Zenon, <1>1, <1>2, <1>3 DEF Held

(* What a match leaves: what is before it, the mark, what is behind it.    *)
Around(c, a) == c \o <<"#", "#">> \o a

LEMMA AroundIn ==
    ASSUME NEW S, <<"#", "#">> \in Seq(S),
           NEW c \in Seq(S), NEW a \in Seq(S), NEW t \in Seq(S)
    PROVE  Around(c, a) \in Seq(S) /\ Around(c, a \o t) = Around(c, a) \o t
<1>1. PICK b \in Seq(S) : b = <<"#", "#">>
    OBVIOUS
<1>2. PICK m \in Seq(S) : m = c \o b
    BY Joining
<1>3. m \o (a \o t) = (m \o a) \o t
    BY ConcatAssociative, SMTT(30)
<1>4. m \o a \in Seq(S)
    OBVIOUS
<1> QED BY Zenon, <1>1, <1>2, <1>3, <1>4 DEF Around

LEMMA AroundIs ==
    ASSUME NEW c \in Seq(Shown), NEW a \in Seq(Shown), NEW t \in Seq(Shown)
    PROVE  Around(c, a) \in Seq(Shown) /\ Around(c, a \o t) = Around(c, a) \o t
<1>1. PICK S : S = Shown
    OBVIOUS
<1>2. PICK x \in Seq(S), y \in Seq(S), z \in Seq(S) : x = c /\ y = a /\ z = t
    BY <1>1
<1>3. <<"#", "#">> \in Seq(S)
    BY <1>1, MarkIs
<1>4. Around(x, y) \in Seq(S) /\ Around(x, y \o z) = Around(x, y) \o z
    BY <1>3, AroundIn
<1> QED BY Zenon, <1>1, <1>2, <1>4

LEMMA WithMark ==
    ASSUME NEW s \in Seq(Shown), NEW p, NEW v, First(s, p, v), NEW r \in Redactions
    PROVE  /\ With(s, r).text = Around(SubSeq(s, 1, p - 1), r.text)
           /\ With(s, r).kept = r.kept
BY Zenon, WithIs DEF Around

MarksAt(s, final, p, r) ==
    /\ Collected!Redacted(s, final).text = Around(SubSeq(s, 1, p - 1), r.text)
    /\ Collected!Redacted(s, final).kept = r.kept

LEMMA GoesOnFrom ==
    ASSUME NEW s \in Seq(Shown), NEW final, NEW p, NEW v, First(s, p, v),
           NEW d, d = Collected!Drop(s, p + Len(v) - 1), NEW r \in Redactions, r = Collected!Redacted(d, final)
    PROVE  MarksAt(s, final, p, r)
<1>1. Collected!Redacted(s, final) = With(s, Collected!Redacted(Collected!Drop(s, p + Len(v) - 1), final))
    BY RedactedGoesOn
<1>2. Collected!Redacted(s, final) = With(s, r)
    BY Zenon, <1>1
<1>3. With(s, r).text = Around(SubSeq(s, 1, p - 1), r.text) /\ With(s, r).kept = r.kept
    BY WithMark
<1> QED BY Zenon, <1>2, <1>3 DEF MarksAt

(* The redaction of x \o y: what x alone shows, then what is held of x with *)
(* y behind it.                                                            *)
Splices(x, y, final) ==
    /\ Collected!Redacted(x \o y, final).text = Held(x).text \o Collected!Redacted(Held(x).kept \o y, final).text
    /\ Collected!Redacted(x \o y, final).kept = Collected!Redacted(Held(x).kept \o y, final).kept

(* With a match at the beginning, the rest decides.                        *)
LEMMA SplicesOn ==
    ASSUME Collected!ValuesApart, NEW x \in Seq(Shown), NEW y \in Seq(Shown), NEW final, NEW p, NEW v, First(x, p, v),
           Splices(Collected!Drop(x, p + Len(v) - 1), y, final)
    PROVE  Splices(x, y, final)
<1>1. /\ Len(v) \in Nat /\ Len(v) > 0 /\ p \in Nat /\ p > 0 /\ p + Len(v) - 1 <= Len(x)
    BY MatchIs DEF First
<1>2. PICK e \in Nat : e = p + Len(v) - 1 /\ e <= Len(x)
    BY <1>1
<1>3. PICK d \in Seq(Shown) : d = Collected!Drop(x, e)
    BY <1>2, DropIs
<1>4. PICK z \in Seq(Shown), f \in Seq(Shown) : z = x \o y /\ f = d \o y
    BY <1>3, Joining
<1>5. f = Collected!Drop(z, p + Len(v) - 1)
    BY <1>2, <1>3, <1>4, DropConcat
<1>6. First(z, p, v)
    BY <1>4, FirstStays
<1>7. PICK r \in Redactions : r = Collected!Redacted(f, final)
    BY <1>4, RedactedTypes
<1>8. PICK h \in Redactions : h = Collected!Redacted(d, FALSE)
    BY Zenon, <1>3, HeldTypes DEF Held
<1>9. PICK k \in Seq(Shown), a \in Seq(Shown) : k = h.kept /\ a = h.text
    BY <1>8 DEF Redactions
<1>10. PICK o \in Redactions : o = Collected!Redacted(k \o y, final)
    BY <1>9, Joining, RedactedTypes
<1>11. PICK t \in Seq(Shown) : t = o.text
    BY <1>10 DEF Redactions
<1>12. r.text = a \o t /\ r.kept = o.kept
    BY Zenon, <1>2, <1>3, <1>4, <1>7, <1>8, <1>9, <1>10, <1>11 DEF Splices, Held
<1>13. PICK c \in Seq(Shown) : c = SubSeq(x, 1, p - 1) /\ c = SubSeq(z, 1, p - 1)
    <2>1. p - 1 \in Nat /\ p - 1 <= Len(x)
        BY <1>1
    <2>2. SubSeq(z, 1, p - 1) = SubSeq(x, 1, p - 1)
        BY <1>4, <2>1, PrefixWithin
    <2>3. SubSeq(x, 1, p - 1) \in Seq(Shown)
        BY <2>1
    <2> QED BY <2>2, <2>3
<1>14. MarksAt(z, final, p, r)
    BY <1>5, <1>6, <1>7, GoesOnFrom
<1>15. MarksAt(x, FALSE, p, h)
    <2>1. d = Collected!Drop(x, p + Len(v) - 1)
        BY Zenon, <1>2, <1>3
    <2>2. PICK whole : whole = FALSE
        OBVIOUS
    <2>3. h = Collected!Redacted(d, whole)
        BY Zenon, <1>8, <2>2
    <2>4. MarksAt(x, whole, p, h)
        BY <2>1, <2>3, GoesOnFrom
    <2> QED BY Zenon, <2>2, <2>4
<1>16. Around(c, a \o t) = Around(c, a) \o t
    BY AroundIs
<1>17. Collected!Redacted(z, final).text = Around(c, a) \o t
    BY Zenon, <1>9, <1>12, <1>13, <1>14, <1>16 DEF MarksAt
<1>18. Collected!Redacted(z, final).kept = o.kept
    BY Zenon, <1>12, <1>14 DEF MarksAt
<1>19. Held(x).text = Around(c, a) /\ Held(x).kept = k
    BY Zenon, <1>9, <1>13, <1>15 DEF Held, MarksAt
<1> QED BY Zenon, <1>4, <1>10, <1>11, <1>17, <1>18, <1>19 DEF Splices

(* What comes behind a chars without a match: a value that begins in it     *)
(* begins in what is held of it.                                           *)
LEMMA MatchIsHeld ==
    ASSUME NEW x \in Seq(Shown), NEW y \in Seq(Shown), Unmatched(x), NEW q, NEW v, Match(x \o y, q, v)
    PROVE  q > Len(x) - Collected!Pending(x)
<1>1. /\ v \in Secrets /\ Len(v) \in Nat /\ Len(v) > 0 /\ q \in Nat /\ q > 0
    BY MatchIs
<1>2. \A i \in 1..Len(v) : (x \o y)[q + i - 1] = v[i]
    BY DEF Match
<1>3. ~(q + Len(v) - 1 <= Len(x))
    BY <1>1, MatchWithin DEF Unmatched
<1>4. Collected!Pending(x) \in Nat /\ \A k : Begun(x, k) => k <= Collected!Pending(x)
    BY PendingIs
<1>5. CASE q <= Len(x)
    <2>0. Len(x) - q + 1 \in 1..Len(x)
        BY <1>1, <1>5
    <2>1. PICK k \in 1..Len(x) : k = Len(x) - q + 1
        BY <2>0
    <2>2. k < Len(v)
        BY <1>1, <1>3, <2>1
    <2>3. ASSUME NEW i \in 1..k PROVE x[Len(x) - k + i] = v[i]
        <3>1. PICK j \in 1..Len(x) : j = q + i - 1 /\ j = Len(x) - k + i
            BY <1>1, <2>1
        <3>2. (x \o y)[j] = x[j]
            OBVIOUS
        <3>3. i \in 1..Len(v)
            BY <1>1, <2>2
        <3> QED BY <1>2, <3>1, <3>2, <3>3
    <2>4. Begun(x, k)
        BY <1>1, <2>2, <2>3 DEF Begun
    <2>5. k <= Collected!Pending(x)
        BY <1>4, <2>4
    <2> QED BY <1>1, <1>4, <2>1, <2>5
<1>6. CASE ~(q <= Len(x))
    BY <1>1, <1>4, <1>6
<1> QED BY <1>5, <1>6

LEMMA BegunIsHeld ==
    ASSUME NEW x \in Seq(Shown), NEW y \in Seq(Shown), NEW k, Begun(x \o y, k)
    PROVE  k <= Collected!Pending(x) + Len(y)
<1>1. k \in Nat /\ k > 0 /\ k <= Len(x) + Len(y)
    BY DEF Begun
<1>2. PICK v \in Secrets : k < Len(v) /\ \A i \in 1..k : (x \o y)[Len(x \o y) - k + i] = v[i]
    BY DEF Begun
<1>3. Len(v) \in Nat
    BY SecretIs
<1>4. Collected!Pending(x) \in Nat /\ \A j : Begun(x, j) => j <= Collected!Pending(x)
    BY PendingIs
<1>5. CASE k > Len(y)
    <2>1. PICK j \in 1..Len(x) : j = k - Len(y)
        BY <1>1, <1>5
    <2>2. j < Len(v)
        BY <1>1, <1>2, <1>3, <2>1
    <2>3. ASSUME NEW i \in 1..j PROVE x[Len(x) - j + i] = v[i]
        <3>1. PICK m \in 1..Len(x) : m = Len(x) - j + i /\ m = Len(x \o y) - k + i
            <4>1. Len(x \o y) = Len(x) + Len(y) /\ Len(x) \in Nat /\ Len(y) \in Nat
                OBVIOUS
            <4>2. /\ Len(x) - j + i \in 1..Len(x)
                  /\ Len(x) - j + i = Len(x) + Len(y) - k + i
                BY <1>1, <2>1, <4>1
            <4>3. Len(x) - j + i = Len(x \o y) - k + i
                BY <1>1, <2>1, <4>1, <4>2
            <4> QED BY Zenon, <4>2, <4>3
        <3>2. (x \o y)[m] = x[m]
            OBVIOUS
        <3>3. i \in 1..k
            BY <1>1, <2>1
        <3> QED BY <1>2, <3>1, <3>2, <3>3
    <2>4. Begun(x, j)
        BY <2>2, <2>3 DEF Begun
    <2>5. j <= Collected!Pending(x)
        BY <1>4, <2>4
    <2> QED BY <1>1, <1>4, <2>1, <2>5
<1>6. CASE ~(k > Len(y))
    BY <1>1, <1>4, <1>6
<1> QED BY <1>5, <1>6

(* Without a match, what is shown of x stands before everything else.      *)
LEMMA UnmatchedCut ==
    ASSUME NEW x \in Seq(Shown), Unmatched(x)
    PROVE  \E u \in Seq(Shown), z \in Seq(Shown) :
              /\ x = u \o z /\ Len(z) = Collected!Pending(x)
              /\ Len(u) = Len(x) - Collected!Pending(x)
              /\ Held(x).text = u /\ Held(x).kept = z
<1>1. PICK n \in Nat : n = Len(x) - Collected!Pending(x) /\ n <= Len(x) /\ Collected!Pending(x) = Len(x) - n
    BY PendingIs
<1>2. PICK u \in Seq(Shown) : u = SubSeq(x, 1, n) /\ Len(u) = n
    <2>1. n \in Nat /\ n <= Len(x)
        BY Zenon, <1>1
    <2>2. SubSeq(x, 1, n) \in Seq(Shown) /\ Len(SubSeq(x, 1, n)) = n
        BY <2>1
    <2> QED BY Zenon, <2>2
<1>3. PICK z \in Seq(Shown) : z = Collected!Drop(x, n) /\ Len(z) = Len(x) - n
    BY <1>1, DropIs
<1>4. x = u \o z
    BY <1>1, <1>2, <1>3, CutJoins
<1>5. Held(x).text = u /\ Held(x).kept = z
    BY <1>1, <1>2, <1>3, HeldEnds
<1> QED BY <1>1, <1>2, <1>3, <1>4, <1>5

LEMMA EndIs ==
    ASSUME NEW s \in Seq(Shown), NEW final, Unmatched(s)
    PROVE  /\ Collected!Redacted(s, final).text = SubSeq(s, 1, Len(s) - Kept(s, final))
           /\ Collected!Redacted(s, final).kept = Collected!Drop(s, Len(s) - Kept(s, final))
<1>1. Collected!Redacted(s, final) = Stop(s, final)
    BY RedactedEnds
<1> QED BY <1>1, StopIs

LEMMA BegunMoves ==
    ASSUME NEW u \in Seq(Shown), NEW w \in Seq(Shown), NEW k \in Nat, k <= Len(w)
    PROVE  Begun(u \o w, k) <=> Begun(w, k)
<1>1. Len(u \o w) = Len(u) + Len(w) /\ Len(u) \in Nat /\ Len(w) \in Nat
    OBVIOUS
<1>2. ASSUME NEW i \in 1..k PROVE (u \o w)[Len(u \o w) - k + i] = w[Len(w) - k + i]
    <2>1. PICK j \in 1..Len(w) : j = Len(w) - k + i
        <3>1. Len(w) - k + i \in 1..Len(w)
            BY <1>1
        <3> QED BY <3>1
    <2>2. Len(u \o w) - k + i = Len(u) + j
        BY <1>1, <2>1
    <2>3. (u \o w)[Len(u) + j] = w[j]
        OBVIOUS
    <2> QED BY <2>1, <2>2, <2>3
<1>3. ASSUME NEW v \in Secrets
      PROVE  (\A i \in 1..k : (u \o w)[Len(u \o w) - k + i] = v[i])
             <=> \A i \in 1..k : w[Len(w) - k + i] = v[i]
    BY Zenon, <1>2
<1>4. k <= Len(u \o w)
    BY <1>1
<1> QED BY Zenon, <1>3, <1>4 DEF Begun

LEMMA PendingMoves ==
    ASSUME NEW u \in Seq(Shown), NEW w \in Seq(Shown), Collected!Pending(u \o w) <= Len(w)
    PROVE  Collected!Pending(u \o w) = Collected!Pending(w)
<1>1. PICK s \in Seq(Shown) : s = u \o w
    BY Joining
<1>2. /\ Collected!Pending(s) \in Nat /\ Collected!Pending(s) <= Len(w)
      /\ Collected!Pending(s) = 0 \/ Begun(s, Collected!Pending(s))
      /\ \A k : Begun(s, k) => k <= Collected!Pending(s)
    BY <1>1, PendingIs
<1>3. /\ Collected!Pending(w) \in Nat /\ Collected!Pending(w) <= Len(w)
      /\ Collected!Pending(w) = 0 \/ Begun(w, Collected!Pending(w))
      /\ \A k : Begun(w, k) => k <= Collected!Pending(w)
    BY PendingIs
<1>4. PICK m \in Nat, n \in Nat : m = Collected!Pending(s) /\ n = Collected!Pending(w)
    BY <1>2, <1>3
<1>5. m = 0 \/ m <= n
    BY <1>1, <1>2, <1>3, <1>4, BegunMoves
<1>6. n = 0 \/ n <= m
    BY <1>1, <1>2, <1>3, <1>4, BegunMoves
<1> QED BY <1>1, <1>4, <1>5, <1>6

LEMMA UnmatchedMoves ==
    ASSUME NEW u \in Seq(Shown), NEW w \in Seq(Shown), Unmatched(u \o w)
    PROVE  Unmatched(w)
<1> SUFFICES ASSUME NEW p \in Nat, NEW v \in Secrets, Match(w, p, v) PROVE FALSE
    BY DEF Unmatched
<1>1. Match(u \o w, Len(u) + p, v)
    BY MatchMoves
<1>2. Len(u) + p \in Nat
    OBVIOUS
<1> QED BY <1>1, <1>2 DEF Unmatched

LEMMA FirstMovesBack ==
    ASSUME NEW u \in Seq(Shown), NEW w \in Seq(Shown), NEW p \in Nat, p > 0, NEW v,
           First(u \o w, Len(u) + p, v)
    PROVE  First(w, p, v)
<1>1. Match(u \o w, Len(u) + p, v)
    BY DEF First
<1>2. Match(w, p, v)
    BY <1>1, MatchMovesBack
<1>3. ASSUME NEW q \in Nat, NEW x \in Secrets, Match(w, q, x)
      PROVE  p < q \/ (p = q /\ Len(x) <= Len(v))
    <2>1. Match(u \o w, Len(u) + q, x)
        BY <1>3, MatchMoves
    <2>2. Len(u) + q \in Nat
        OBVIOUS
    <2>3. Len(u) + p < Len(u) + q \/ (Len(u) + p = Len(u) + q /\ Len(x) <= Len(v))
        BY <2>1, <2>2 DEF First
    <2>4. Len(u) \in Nat
        OBVIOUS
    <2> QED BY <2>3, <2>4
<1> QED BY <1>2, <1>3 DEF First

LEMMA JoinIs ==
    ASSUME NEW S, NEW x \in Seq(S), NEW y \in Seq(S)
    PROVE  /\ x \o y \in Seq(S) /\ Len(x \o y) = Len(x) + Len(y)
           /\ Len(x) \in Nat /\ Len(y) \in Nat
OBVIOUS

GoesBehind(u, w, final) ==
    /\ Collected!Redacted(u \o w, final).text = u \o Collected!Redacted(w, final).text
    /\ Collected!Redacted(u \o w, final).kept = Collected!Redacted(w, final).kept

(* Without a match anywhere.                                               *)
LEMMA SplicesEnd ==
    ASSUME NEW u \in Seq(Shown), NEW w \in Seq(Shown), NEW final, Unmatched(u \o w),
           Collected!Pending(u \o w) <= Len(w)
    PROVE  GoesBehind(u, w, final)
<1>1. PICK s \in Seq(Shown) : s = u \o w /\ Len(s) = Len(u) + Len(w)
    BY JoinIs
<1>2. Unmatched(s) /\ Unmatched(w)
    BY <1>1, UnmatchedMoves
<1>3. Collected!Pending(s) = Collected!Pending(w)
    BY <1>1, PendingMoves
<1>4. Kept(s, final) = Kept(w, final)
    BY Zenon, <1>3 DEF Kept
<1>5. PICK k \in Nat : k = Kept(w, final) /\ k <= Len(w)
    BY KeptIs
<1>6. PICK e \in Nat : e = Len(w) - k /\ e <= Len(w) /\ Len(s) - k = Len(u) + e
    BY <1>1, <1>5
<1>7. /\ Collected!Redacted(s, final).text = SubSeq(s, 1, Len(u) + e)
      /\ Collected!Redacted(s, final).kept = Collected!Drop(s, Len(u) + e)
    <2>1. /\ Collected!Redacted(s, final).text = SubSeq(s, 1, Len(s) - Kept(s, final))
          /\ Collected!Redacted(s, final).kept = Collected!Drop(s, Len(s) - Kept(s, final))
        BY <1>2, EndIs
    <2> QED BY Zenon, <1>4, <1>5, <1>6, <2>1
<1>8. /\ Collected!Redacted(w, final).text = SubSeq(w, 1, e)
      /\ Collected!Redacted(w, final).kept = Collected!Drop(w, e)
    <2>1. /\ Collected!Redacted(w, final).text = SubSeq(w, 1, Len(w) - Kept(w, final))
          /\ Collected!Redacted(w, final).kept = Collected!Drop(w, Len(w) - Kept(w, final))
        BY <1>2, EndIs
    <2> QED BY Zenon, <1>5, <1>6, <2>1
<1>9. SubSeq(s, 1, Len(u) + e) = u \o SubSeq(w, 1, e)
    BY <1>1, <1>6, PrefixPast
<1>10. Collected!Drop(s, Len(u) + e) = Collected!Drop(w, e)
    BY <1>1, <1>6, DropPast
<1> QED BY Zenon, <1>1, <1>7, <1>8, <1>9, <1>10 DEF GoesBehind

LEMMA AroundBehindIn ==
    ASSUME NEW S, <<"#", "#">> \in Seq(S),
           NEW c \in Seq(S), NEW a \in Seq(S), NEW u \in Seq(S)
    PROVE  Around(u \o c, a) = u \o Around(c, a)
<1>1. PICK b \in Seq(S) : b = <<"#", "#">>
    OBVIOUS
<1>2. PICK m \in Seq(S) : m = c \o b
    BY Joining
<1>3. (u \o m) \o a = u \o (m \o a)
    BY ConcatAssociative
<1>4. (u \o c) \o b = u \o (c \o b)
    BY ConcatAssociative
<1> QED BY Zenon, <1>1, <1>2, <1>3, <1>4 DEF Around

LEMMA AroundBehind ==
    ASSUME NEW c \in Seq(Shown), NEW a \in Seq(Shown), NEW u \in Seq(Shown)
    PROVE  Around(u \o c, a) = u \o Around(c, a)
<1>1. PICK S : S = Shown
    OBVIOUS
<1>2. PICK x \in Seq(S), y \in Seq(S), z \in Seq(S) : x = c /\ y = a /\ z = u
    BY <1>1
<1>3. <<"#", "#">> \in Seq(S)
    BY <1>1, MarkIs
<1>4. Around(z \o x, y) = z \o Around(x, y)
    BY <1>3, AroundBehindIn
<1> QED BY Zenon, <1>2, <1>4

(* With one, behind u.                                                     *)
LEMMA SplicesPast ==
    ASSUME NEW u \in Seq(Shown), NEW w \in Seq(Shown), NEW final, NEW p \in Nat, p > 0, NEW v,
           First(u \o w, Len(u) + p, v)
    PROVE  GoesBehind(u, w, final)
<1>1. PICK s \in Seq(Shown) : s = u \o w /\ Len(s) = Len(u) + Len(w)
    BY JoinIs
<1>2. First(s, Len(u) + p, v) /\ First(w, p, v)
    BY Zenon, <1>1, FirstMovesBack
<1>3. /\ Len(v) \in Nat /\ Len(v) > 0 /\ p + Len(v) - 1 <= Len(w)
    BY <1>2, MatchIs DEF First
<1>4. PICK e \in Nat : e = p + Len(v) - 1 /\ e <= Len(w) /\ (Len(u) + p) + Len(v) - 1 = Len(u) + e
    <2>1. PICK l \in Nat, m \in Nat : l = Len(v) /\ m = Len(u)
        BY <1>3
    <2>2. p + l - 1 \in Nat /\ p + l - 1 <= Len(w) /\ (m + p) + l - 1 = m + (p + l - 1)
        BY <1>3, <2>1
    <2> QED BY Zenon, <2>1, <2>2
<1>5. PICK d \in Seq(Shown) : d = Collected!Drop(w, e) /\ d = Collected!Drop(s, Len(u) + e)
    <2>1. Collected!Drop(w, e) \in Seq(Shown)
        BY <1>4, DropIs
    <2>2. Collected!Drop(s, Len(u) + e) = Collected!Drop(w, e)
        BY <1>1, <1>4, DropPast
    <2> QED BY <2>1, <2>2
<1>6. PICK r \in Redactions : r = Collected!Redacted(d, final)
    BY RedactedTypes
<1>7. MarksAt(w, final, p, r)
    <2>1. d = Collected!Drop(w, p + Len(v) - 1)
        BY Zenon, <1>4, <1>5
    <2>2. First(w, p, v)
        BY <1>2
    <2> QED BY <1>6, <2>1, <2>2, GoesOnFrom
<1>8. MarksAt(s, final, Len(u) + p, r)
    <2>1. d = Collected!Drop(s, (Len(u) + p) + Len(v) - 1)
        BY Zenon, <1>4, <1>5
    <2>2. PICK q : q = Len(u) + p
        OBVIOUS
    <2>3. First(s, q, v) /\ d = Collected!Drop(s, q + Len(v) - 1)
        BY Zenon, <1>2, <2>1, <2>2
    <2>4. MarksAt(s, final, q, r)
        BY <1>6, <2>3, GoesOnFrom
    <2> QED BY Zenon, <2>2, <2>4
<1>9. PICK m \in Nat : m = p - 1 /\ m <= Len(w) /\ (Len(u) + p) - 1 = Len(u) + m
    BY <1>3
<1>10. PICK c \in Seq(Shown) : c = SubSeq(w, 1, m)
    <2>1. SubSeq(w, 1, m) \in Seq(Shown)
        BY <1>9
    <2> QED BY <2>1
<1>11. SubSeq(s, 1, Len(u) + m) = u \o c
    BY <1>1, <1>9, <1>10, PrefixPast
<1>12. PICK t \in Seq(Shown) : t = r.text
    BY DEF Redactions
<1>13. Around(u \o c, t) = u \o Around(c, t)
    BY AroundBehind
<1> QED
    BY Zenon, <1>1, <1>7, <1>8, <1>9, <1>10, <1>11, <1>12, <1>13
    DEF GoesBehind, MarksAt

LEMMA SplicesUnmatched ==
    ASSUME NEW x \in Seq(Shown), NEW y \in Seq(Shown), NEW final, Unmatched(x)
    PROVE  Splices(x, y, final)
<1>1. PICK u \in Seq(Shown), z \in Seq(Shown) :
          /\ x = u \o z /\ Len(z) = Collected!Pending(x)
          /\ Len(u) = Len(x) - Collected!Pending(x)
          /\ Held(x).text = u /\ Held(x).kept = z
    BY UnmatchedCut
<1>2. PICK w \in Seq(Shown) : w = z \o y /\ Len(w) = Collected!Pending(x) + Len(y)
    <2>1. z \o y \in Seq(Shown) /\ Len(z \o y) = Len(z) + Len(y)
        BY JoinIs
    <2> QED BY Zenon, <1>1, <2>1
<1>3. PICK s \in Seq(Shown) : s = x \o y
    BY Joining
<1>4. s = u \o w
    <2>1. (u \o z) \o y = u \o (z \o y)
        BY Joining
    <2> QED BY Zenon, <1>1, <1>2, <1>3, <2>1
<1>5. /\ Collected!Redacted(s, final).text = u \o Collected!Redacted(w, final).text
      /\ Collected!Redacted(s, final).kept = Collected!Redacted(w, final).kept
    <2>1. CASE Unmatched(s)
        <3>1. Collected!Pending(s) = 0 \/ Begun(s, Collected!Pending(s))
            BY PendingIs
        <3>2. Collected!Pending(s) <= Len(w)
            <4>1. CASE Collected!Pending(s) = 0
                BY <4>1
            <4>2. CASE Begun(s, Collected!Pending(s))
                BY <1>2, <1>3, <4>2, BegunIsHeld
            <4> QED BY <3>1, <4>1, <4>2
        <3>3. GoesBehind(u, w, final)
            BY <1>4, <2>1, <3>2, SplicesEnd
        <3> QED BY Zenon, <1>4, <3>3 DEF GoesBehind
    <2>2. CASE ~Unmatched(s)
        <3>1. PICK q \in Nat, v \in Secrets : First(s, q, v)
            BY <2>2, FirstExists
        <3>2. q > Len(x) - Collected!Pending(x)
            BY <1>3, <3>1, MatchIsHeld DEF First
        <3>3. PICK p \in Nat : p = q - Len(u) /\ p > 0 /\ q = Len(u) + p
            <4>1. PICK m \in Nat : m = Len(u) /\ q > m
                BY <1>1, <3>2
            <4>2. q - m \in Nat /\ q - m > 0 /\ q = m + (q - m)
                BY <4>1
            <4> QED BY Zenon, <4>1, <4>2
        <3>4. First(u \o w, Len(u) + p, v)
            BY Zenon, <1>4, <3>1, <3>3
        <3>5. GoesBehind(u, w, final)
            <4>1. p > 0
                BY <3>3
            <4> QED BY <3>4, <4>1, SplicesPast
        <3> QED BY Zenon, <1>4, <3>5 DEF GoesBehind
    <2> QED BY <2>1, <2>2
<1> QED BY Zenon, <1>1, <1>2, <1>3, <1>5 DEF Splices

(* Redaction does not depend on where the chars is cut.                     *)
LEMMA RedactedSplices ==
    ASSUME Collected!ValuesApart, NEW x \in Seq(Shown), NEW y \in Seq(Shown), NEW final
    PROVE  Splices(x, y, final)
<1> DEFINE S == {n \in Nat : \A a \in Seq(Shown) : Len(a) <= n => Splices(a, y, final)}
<1>1. 0 \in S
    <2> SUFFICES ASSUME NEW a \in Seq(Shown), Len(a) <= 0 PROVE Splices(a, y, final)
        OBVIOUS
    <2>1. Unmatched(a)
        <3> SUFFICES ASSUME NEW p \in Nat, NEW v \in Secrets, Match(a, p, v) PROVE FALSE
            BY DEF Unmatched
        <3> QED BY MatchIs
    <2> QED BY <2>1, SplicesUnmatched
<1>2. ASSUME NEW n \in Nat, n \in S PROVE n + 1 \in S
    <2> SUFFICES ASSUME NEW a \in Seq(Shown), Len(a) <= n + 1 PROVE Splices(a, y, final)
        OBVIOUS
    <2>1. CASE Unmatched(a)
        BY <2>1, SplicesUnmatched
    <2>2. CASE ~Unmatched(a)
        <3>1. PICK p \in Nat, v \in Secrets : First(a, p, v)
            BY <2>2, FirstExists
        <3>2. Len(v) \in Nat /\ Len(v) > 0 /\ p > 0 /\ p + Len(v) - 1 <= Len(a)
            BY <3>1, MatchIs DEF First
        <3>3. PICK e \in Nat : e = p + Len(v) - 1 /\ e > 0 /\ e <= Len(a)
            <4>1. p + Len(v) - 1 \in Nat /\ p + Len(v) - 1 > 0
                BY <3>2
            <4> QED BY Zenon, <3>2, <4>1
        <3>4. /\ Collected!Drop(a, e) \in Seq(Shown)
              /\ Len(Collected!Drop(a, e)) = Len(a) - e
            BY <3>3, DropIs
        <3>5. Len(Collected!Drop(a, e)) <= n
            BY <3>3, <3>4
        <3>6. Splices(Collected!Drop(a, e), y, final)
            BY <1>2, <3>4, <3>5
        <3>7. Splices(Collected!Drop(a, p + Len(v) - 1), y, final)
            BY Zenon, <3>3, <3>6
        <3> QED BY <3>1, <3>7, SplicesOn
    <2> QED BY <2>1, <2>2
<1> HIDE DEF S
<1>3. Len(x) \in S
    <2>1. Nat \subseteq S
        BY <1>1, <1>2, InductionOverASet
    <2> QED BY <2>1
<1>4. Len(x) <= Len(x)
    OBVIOUS
<1> QED BY <1>3, <1>4 DEF S

-----------------------------------------------------------------------------
(* Whatever the values, none is shown.  What has been shown, with what is  *)
(* held back behind it, has no match; and no value begins in what has been *)
(* shown.                                                                  *)
Sealed(x, b) == Unmatched(x \o b) /\ \A k : Begun(x \o b, k) => k <= Len(b)

(* What is still to be redacted is y: a match, or what may be the          *)
(* beginning of one, begins in it.                                         *)
Starts(x, y) ==
    /\ \A p, v : Match(x \o y, p, v) => p > Len(x)
    /\ \A k : Begun(x \o y, k) => k <= Len(y)

Seals(x, r, final) ==
    /\ Unmatched((x \o r.text) \o r.kept)
    /\ final \/ Sealed(x \o r.text, r.kept)

LEMMA ValueIsWritten ==
    ASSUME NEW v \in Secrets, NEW i \in 1..Len(v)
    PROVE  v[i] \in Alphabet
<1>1. v \in Seq(Alphabet)
    BY OutputAssumption
<1> QED BY <1>1

LEMMA MatchIsWritten ==
    ASSUME NEW s, NEW p, NEW v, Match(s, p, v), NEW m \in Nat, p <= m, m <= p + Len(v) - 1
    PROVE  s[m] \in Alphabet
<1>1. /\ v \in Secrets /\ Len(v) \in Nat /\ p \in Nat
      /\ \A i \in 1..Len(v) : s[p + i - 1] = v[i]
    BY MatchIs
<1>2. PICK i \in 1..Len(v) : i = m - p + 1 /\ p + i - 1 = m
    <2>1. m - p + 1 \in 1..Len(v) /\ p + (m - p + 1) - 1 = m
        BY <1>1
    <2> QED BY <2>1
<1> QED BY <1>1, <1>2, ValueIsWritten

LEMMA BegunIsWritten ==
    ASSUME NEW s \in Seq(Shown), NEW k, Begun(s, k), NEW m \in Nat, m > Len(s) - k, m <= Len(s)
    PROVE  s[m] \in Alphabet
<1>1. k \in Nat /\ k <= Len(s) /\ Len(s) \in Nat
    BY DEF Begun
<1>2. PICK v \in Secrets : k < Len(v) /\ \A i \in 1..k : s[Len(s) - k + i] = v[i]
    BY DEF Begun
<1>3. PICK i \in 1..k : i = m - (Len(s) - k) /\ Len(s) - k + i = m
    <2>1. m - (Len(s) - k) \in 1..k /\ Len(s) - k + (m - (Len(s) - k)) = m
        BY <1>1
    <2> QED BY <2>1
<1>4. Len(v) \in Nat
    BY SecretIs
<1>5. i \in 1..Len(v)
    BY <1>1, <1>2, <1>4
<1> QED BY <1>2, <1>3, <1>5, ValueIsWritten

Rejoins(x, y, z) == (x \o y) \o z = x \o (y \o z)

LEMMA JoinsOn ==
    ASSUME NEW x \in Seq(Shown), NEW y \in Seq(Shown), NEW z \in Seq(Shown)
    PROVE  Rejoins(x, y, z) /\ x \o y \in Seq(Shown)
<1>1. (x \o y) \o z = x \o (y \o z)
    BY Joining
<1>2. x \o y \in Seq(Shown)
    BY Joining
<1> QED BY Zenon, <1>1, <1>2 DEF Rejoins

LEMMA MarkIsNot == "#" \notin Alphabet /\ "~" \notin Alphabet
BY OutputAssumption

(* A beginning of a text without a match has none.                         *)
LEMMA UnmatchedBefore ==
    ASSUME NEW x \in Seq(Shown), NEW y \in Seq(Shown), Unmatched(x \o y)
    PROVE  Unmatched(x)
BY MatchStays DEF Unmatched

LEMMA SealStarts ==
    ASSUME NEW x \in Seq(Shown), NEW b \in Seq(Shown), NEW c \in Seq(Shown), Sealed(x, b)
    PROVE  Starts(x, b \o c)
<1>0. PICK s \in Seq(Shown) : s = x \o b /\ Len(s) = Len(x) + Len(b)
    BY JoinIs
<1>1. PICK y \in Seq(Shown) : y = b \o c /\ Len(y) = Len(b) + Len(c)
    BY JoinIs
<1>2. x \o y = s \o c
    <2>1. Rejoins(x, b, c)
        BY Zenon, JoinsOn
    <2> QED BY Zenon, <1>0, <1>1, <2>1 DEF Rejoins
<1>3. Unmatched(s) /\ \A k : Begun(s, k) => k <= Len(b)
    BY Zenon, <1>0 DEF Sealed
<1>4. Len(x) \in Nat /\ Len(b) \in Nat /\ Len(c) \in Nat
    OBVIOUS
<1>5. Collected!Pending(s) \in Nat /\ Collected!Pending(s) <= Len(b)
    <2>1. /\ Collected!Pending(s) \in Nat
          /\ Collected!Pending(s) = 0 \/ Begun(s, Collected!Pending(s))
        BY PendingIs
    <2> QED BY <1>3, <1>4, <2>1
<1>6. ASSUME NEW p, NEW v, Match(x \o y, p, v) PROVE p > Len(x)
    <2>1. Match(s \o c, p, v)
        BY Zenon, <1>2, <1>6
    <2>2. p > Len(s) - Collected!Pending(s)
        BY <1>3, <2>1, MatchIsHeld
    <2>3. p \in Nat
        BY <1>6 DEF Match
    <2> QED BY <1>0, <1>1, <1>4, <1>5, <2>2, <2>3
<1>7. ASSUME NEW k, Begun(x \o y, k) PROVE k <= Len(y)
    <2>1. Begun(s \o c, k)
        BY Zenon, <1>2, <1>7
    <2>2. k <= Collected!Pending(s) + Len(c)
        BY <2>1, BegunIsHeld
    <2>3. k \in Nat
        BY <1>7 DEF Begun
    <2> QED BY <1>0, <1>1, <1>4, <1>5, <2>2, <2>3
<1>8. Starts(x, y)
    BY <1>6, <1>7 DEF Starts
<1> QED BY Zenon, <1>1, <1>8

(* Without a match in it, all of y goes on behind x.                       *)
LEMMA SealsEnd ==
    ASSUME NEW x \in Seq(Shown), NEW y \in Seq(Shown), NEW final \in BOOLEAN, Starts(x, y), Unmatched(y),
           NEW r, r = Collected!Redacted(y, final)
    PROVE  Seals(x, r, final)
<1>1. PICK k \in Nat : k = Kept(y, final) /\ k <= Len(y)
    BY KeptIs
<1>2. PICK n \in Nat : n = Len(y) - k /\ n <= Len(y) /\ Len(y) - n = k
    BY <1>1
<1>3. PICK t \in Seq(Shown), h \in Seq(Shown) :
          /\ t = SubSeq(y, 1, n) /\ h = Collected!Drop(y, n) /\ Len(h) = k
          /\ y = t \o h
    <2>1. SubSeq(y, 1, n) \in Seq(Shown)
        BY <1>2
    <2>2. Collected!Drop(y, n) \in Seq(Shown) /\ Len(Collected!Drop(y, n)) = Len(y) - n
        BY <1>2, DropIs
    <2>3. y = SubSeq(y, 1, n) \o Collected!Drop(y, n)
        BY <1>2, CutJoins
    <2> QED BY <1>2, <2>1, <2>2, <2>3
<1>4. r.text = t /\ r.kept = h
    <2>1. /\ Collected!Redacted(y, final).text = SubSeq(y, 1, Len(y) - Kept(y, final))
          /\ Collected!Redacted(y, final).kept = Collected!Drop(y, Len(y) - Kept(y, final))
        BY EndIs
    <2> QED BY Zenon, <1>1, <1>2, <1>3, <2>1
<1>5. PICK s \in Seq(Shown) : s = x \o y
    BY Joining
<1>6. (x \o t) \o h = s
    <2>1. (x \o t) \o h = x \o (t \o h)
        BY Joining
    <2> QED BY Zenon, <1>3, <1>5, <2>1
<1>7. Unmatched(s)
    <2> SUFFICES ASSUME NEW q \in Nat, NEW v \in Secrets, Match(s, q, v) PROVE FALSE
        BY DEF Unmatched
    <2>1. q > Len(x) /\ Len(x) \in Nat
        BY <1>5 DEF Starts
    <2>2. PICK p \in Nat : p > 0 /\ q = Len(x) + p
        <3>1. q - Len(x) \in Nat /\ q - Len(x) > 0 /\ q = Len(x) + (q - Len(x))
            BY <2>1
        <3> QED BY <3>1
    <2>3. Match(x \o y, Len(x) + p, v)
        BY Zenon, <1>5, <2>2
    <2>4. Match(y, p, v)
        <3>1. p > 0
            BY <2>2
        <3> QED BY <2>3, <3>1, MatchMovesBack
    <2> QED BY <2>4 DEF Unmatched
<1>8. ASSUME ~final, NEW j, Begun(s, j) PROVE j <= Len(h)
    <2>1. j \in Nat /\ j <= Len(y)
        BY <1>5, <1>8 DEF Starts, Begun
    <2>2. Begun(y, j)
        BY <1>5, <1>8, <2>1, BegunMoves
    <2>3. k = Collected!Pending(y)
        BY Zenon, <1>1, <1>8 DEF Kept
    <2>4. j <= Collected!Pending(y)
        BY <2>2, PendingIs
    <2> QED BY <1>3, <2>3, <2>4
<1>9. final \/ Sealed(x \o t, h)
    BY Zenon, <1>6, <1>7, <1>8 DEF Sealed
<1> QED BY Zenon, <1>4, <1>6, <1>7, <1>9 DEF Seals

(* What is put in the place of a match cuts the text in two.               *)
Marked(g) == g \o <<"#", "#">>

LEMMA MarkedIs ==
    ASSUME NEW g \in Seq(Shown)
    PROVE  /\ Marked(g) \in Seq(Shown) /\ Len(Marked(g)) = Len(g) + 2
           /\ Marked(g)[Len(g) + 1] = "#" /\ Marked(g)[Len(g) + 2] = "#"
<1>1. PICK m \in Seq(Shown) : m = <<"#", "#">>
    BY MarkIs
<1>2. Len(m) = 2 /\ m[1] = "#" /\ m[2] = "#"
    BY <1>1
<1>3. /\ g \o m \in Seq(Shown) /\ Len(g \o m) = Len(g) + 2
      /\ (g \o m)[Len(g) + 1] = m[1] /\ (g \o m)[Len(g) + 2] = m[2]
    <2>1. 1 \in 1..Len(m) /\ 2 \in 1..Len(m)
        BY <1>2
    <2>2. \A i \in 1..Len(m) : (g \o m)[Len(g) + i] = m[i]
        OBVIOUS
    <2>3. g \o m \in Seq(Shown) /\ Len(g \o m) = Len(g) + Len(m)
        BY JoinIs
    <2> QED BY <1>2, <2>1, <2>2, <2>3
<1> QED BY Zenon, <1>1, <1>2, <1>3 DEF Marked

LEMMA SealsMark ==
    ASSUME NEW x \in Seq(Shown), NEW y \in Seq(Shown), Starts(x, y), NEW p, NEW v, First(y, p, v),
           NEW c, c = SubSeq(y, 1, p - 1), NEW d \in Seq(Shown)
    PROVE  Starts(Marked(x \o c), d)
<1>0. /\ Match(y, p, v) /\ p \in Nat /\ p > 0 /\ Len(v) \in Nat /\ Len(v) > 0
      /\ p + Len(v) - 1 <= Len(y)
    BY MatchIs DEF First
<1>1. PICK m \in Nat : m = p - 1 /\ m <= Len(y)
    <2>1. p - 1 \in Nat /\ p - 1 <= Len(y)
        BY <1>0
    <2> QED BY <2>1
<1>2. c \in Seq(Shown) /\ Len(c) = m
    BY <1>1
<1>3. PICK g \in Seq(Shown) : g = x \o c /\ Len(g) = Len(x) + Len(c)
    BY <1>2, JoinIs
<1>4. PICK u \in Seq(Shown), n \in Nat :
          /\ u = Marked(g) /\ n = Len(g) /\ Len(u) = n + 2
          /\ u[n + 1] = "#" /\ u[n + 2] = "#"
    <2>1. Len(g) \in Nat
        OBVIOUS
    <2> QED BY <2>1, MarkedIs
<1>5. PICK s \in Seq(Shown) :
          /\ s = u \o d /\ Len(s) = Len(u) + Len(d) /\ s[n + 1] \notin Alphabet
          /\ s[n + 2] \notin Alphabet
    <2>1. PICK s \in Seq(Shown) : s = u \o d /\ Len(s) = Len(u) + Len(d)
        BY JoinIs
    <2>2. s[n + 1] = u[n + 1] /\ s[n + 2] = u[n + 2]
        BY <1>4, <2>1
    <2> QED BY <1>4, <2>1, <2>2, MarkIsNot
<1>6. ASSUME NEW q, NEW w, Match(s, q, w) PROVE q > Len(u)
    <2>1. q \in Nat /\ q > 0 /\ w \in Secrets /\ Len(w) \in Nat /\ Len(w) > 0
        BY <1>6, MatchIs
    <2>2. PICK e \in Nat : e = q + Len(w) - 1 /\ q <= e
        <3>1. q + Len(w) - 1 \in Nat /\ q <= q + Len(w) - 1
            BY <2>1
        <3> QED BY <3>1
    <2>3. ~(q <= n + 1 /\ n + 1 <= e) /\ ~(q <= n + 2 /\ n + 2 <= e)
        <3>1. ASSUME NEW i \in Nat, s[i] \notin Alphabet PROVE ~(q <= i /\ i <= e)
            <4>1. i <= e => i <= q + Len(w) - 1
                BY <2>2
            <4> QED BY <1>6, <3>1, <4>1, MatchIsWritten
        <3>2. n + 1 \in Nat /\ n + 2 \in Nat
            OBVIOUS
        <3> QED BY <1>5, <3>1, <3>2
    <2>4. CASE e <= n
        <3>1. PICK t \in Seq(Shown) : t = <<"#", "#">> \o d /\ s = g \o t
            <4>1. PICK k \in Seq(Shown) : k = <<"#", "#">>
                BY MarkIs
            <4>2. PICK t \in Seq(Shown) : t = k \o d
                BY JoinsOn
            <4>3. Rejoins(g, k, d)
                BY Zenon, JoinsOn
            <4> QED BY Zenon, <1>4, <1>5, <4>1, <4>2, <4>3 DEF Marked, Rejoins
        <3>2. Match(g, q, w)
            <4>1. Match(g \o t, q, w)
                BY <1>6, <3>1
            <4>2. q + Len(w) - 1 <= Len(g)
                BY <1>4, <2>2, <2>4
            <4> QED BY <4>1, <4>2, MatchWithin
        <3>3. PICK z \in Seq(Shown) : z = Collected!Drop(y, m) /\ y = c \o z
            <4>1. Collected!Drop(y, m) \in Seq(Shown)
                BY <1>1, DropIs
            <4>2. y = SubSeq(y, 1, m) \o Collected!Drop(y, m)
                BY <1>1, CutJoins
            <4> QED BY <1>1, <4>1, <4>2
        <3>4. x \o y = g \o z
            <4>1. Rejoins(x, c, z)
                BY Zenon, <1>2, JoinsOn
            <4> QED BY Zenon, <1>3, <3>3, <4>1 DEF Rejoins
        <3>5. Match(x \o y, q, w)
            BY <3>2, <3>3, <3>4, MatchStays
        <3>6. q > Len(x)
            BY <3>5 DEF Starts
        <3>7. PICK i \in Nat : i > 0 /\ q = Len(x) + i
            <4>1. q - Len(x) \in Nat /\ q - Len(x) > 0 /\ q = Len(x) + (q - Len(x))
                BY <2>1, <3>6
            <4> QED BY <4>1
        <3>8. Match(y, i, w)
            <4>1. i > 0 /\ Match(x \o y, Len(x) + i, w)
                BY <3>5, <3>7
            <4> QED BY <4>1, MatchMovesBack
        <3>9. p <= i
            BY <1>0, <2>1, <3>8 DEF First
        <3>10. i <= m
            BY <1>2, <1>3, <1>4, <2>2, <2>4, <3>7
        <3> QED BY <1>0, <1>1, <3>9, <3>10
    <2>5. CASE ~(e <= n)
        BY <1>4, <2>1, <2>2, <2>3, <2>5
    <2> QED BY <2>4, <2>5
<1>7. ASSUME NEW k, Begun(s, k) PROVE k <= Len(d)
    <2>1. k \in Nat /\ k <= Len(s)
        BY <1>7 DEF Begun
    <2>2. ~(n + 2 > Len(s) - k /\ n + 2 <= Len(s))
        <3>1. PICK i \in Nat : i = n + 2
            OBVIOUS
        <3>2. s[i] \notin Alphabet
            BY <1>5, <3>1
        <3>3. ~(i > Len(s) - k /\ i <= Len(s))
            BY <1>7, <3>2, BegunIsWritten
        <3> QED BY <3>1, <3>3
    <2> QED BY <1>4, <1>5, <2>1, <2>2
<1>8. Starts(u, d)
    BY Zenon, <1>5, <1>6, <1>7 DEF Starts
<1> QED BY Zenon, <1>3, <1>4, <1>8

Surrounds(x, c, t) == Marked(x \o c) \o t = x \o Around(c, t)

LEMMA MarkedAround ==
    ASSUME NEW x \in Seq(Shown), NEW c \in Seq(Shown), NEW t \in Seq(Shown)
    PROVE  Surrounds(x, c, t)
<1>1. Around(x \o c, t) = x \o Around(c, t)
    BY AroundBehind
<1>2. PICK g \in Seq(Shown), k \in Seq(Shown) : g = x \o c /\ k = <<"#", "#">>
    BY Joining, MarkIs
<1>3. Rejoins(g, k, t)
    BY Zenon, JoinsOn
<1>4. Marked(x \o c) \o t = x \o Around(c, t)
    BY Zenon, <1>1, <1>2, <1>3 DEF Marked, Around, Rejoins
<1> QED BY Zenon, <1>4 DEF Surrounds

SealsAll(y, final) ==
    \A x \in Seq(Shown) : Starts(x, y) => Seals(x, Collected!Redacted(y, final), final)

LEMMA RedactedSeals ==
    ASSUME NEW y \in Seq(Shown), NEW final \in BOOLEAN
    PROVE  SealsAll(y, final)
<1> DEFINE S == {n \in Nat : \A a \in Seq(Shown) : Len(a) <= n => SealsAll(a, final)}
<1>1. ASSUME NEW a \in Seq(Shown), Unmatched(a) PROVE SealsAll(a, final)
    BY <1>1, SealsEnd DEF SealsAll
<1>2. 0 \in S
    <2> SUFFICES ASSUME NEW a \in Seq(Shown), Len(a) <= 0 PROVE SealsAll(a, final)
        OBVIOUS
    <2>1. Unmatched(a)
        <3> SUFFICES ASSUME NEW p \in Nat, NEW v \in Secrets, Match(a, p, v) PROVE FALSE
            BY DEF Unmatched
        <3> QED BY MatchIs
    <2> QED BY <1>1, <2>1
<1>3. ASSUME NEW n \in Nat, n \in S PROVE n + 1 \in S
    <2> SUFFICES ASSUME NEW a \in Seq(Shown), Len(a) <= n + 1 PROVE SealsAll(a, final)
        OBVIOUS
    <2>1. CASE ~Unmatched(a)
        <3>1. PICK p \in Nat, v \in Secrets : First(a, p, v)
            BY <2>1, FirstExists
        <3>2. Len(v) \in Nat /\ Len(v) > 0 /\ p > 0 /\ p + Len(v) - 1 <= Len(a)
            BY <3>1, MatchIs DEF First
        <3>3. PICK e \in Nat : e = p + Len(v) - 1 /\ e > 0 /\ e <= Len(a)
            <4>1. p + Len(v) - 1 \in Nat /\ p + Len(v) - 1 > 0
                BY <3>2
            <4> QED BY Zenon, <3>2, <4>1
        <3>4. PICK d \in Seq(Shown) : d = Collected!Drop(a, e) /\ Len(d) = Len(a) - e
            BY <3>3, DropIs
        <3>5. SealsAll(d, final)
            <4>1. Len(d) <= n
                BY <3>3, <3>4
            <4> QED BY <1>3, <4>1
        <3>6. PICK r \in Redactions : r = Collected!Redacted(d, final) /\ r.text \in Seq(Shown) /\ r.kept \in Seq(Shown)
            BY RedactedTypes
        <3>7. MarksAt(a, final, p, r)
            <4>1. d = Collected!Drop(a, p + Len(v) - 1)
                BY Zenon, <3>3, <3>4
            <4> QED BY <3>1, <3>6, <4>1, GoesOnFrom
        <3>8. PICK c \in Seq(Shown) : c = SubSeq(a, 1, p - 1)
            <4>1. p - 1 \in Nat /\ p - 1 <= Len(a)
                BY <3>2
            <4>2. SubSeq(a, 1, p - 1) \in Seq(Shown)
                BY <4>1
            <4> QED BY <4>2
        <3>9. ASSUME NEW x \in Seq(Shown), Starts(x, a)
              PROVE  Seals(x, Collected!Redacted(a, final), final)
            <4>1. PICK u \in Seq(Shown) : u = Marked(x \o c) /\ Starts(u, d)
                <5>1. x \o c \in Seq(Shown)
                    BY Joining
                <5>2. Marked(x \o c) \in Seq(Shown)
                    BY <5>1, MarkedIs
                <5>3. Starts(Marked(x \o c), d)
                    BY <3>1, <3>8, <3>9, SealsMark
                <5> QED BY Zenon, <5>2, <5>3
            <4>2. Seals(u, r, final)
                BY Zenon, <3>5, <3>6, <4>1 DEF SealsAll
            <4>3. u \o r.text = x \o Around(c, r.text)
                <5>1. PICK t \in Seq(Shown) : t = r.text
                    BY <3>6
                <5>2. Surrounds(x, c, t)
                    BY Zenon, MarkedAround
                <5> QED BY Zenon, <4>1, <5>1, <5>2 DEF Surrounds
            <4> QED BY Zenon, <3>7, <3>8, <4>2, <4>3 DEF Seals, MarksAt
        <3> QED BY <3>9 DEF SealsAll
    <2> QED BY <1>1, <2>1
<1> HIDE DEF S
<1>4. Len(y) \in S
    <2>1. Nat \subseteq S
        BY <1>2, <1>3, InductionOverASet
    <2> QED BY <2>1
<1>5. Len(y) <= Len(y)
    OBVIOUS
<1> QED BY <1>4, <1>5 DEF S

(* What comes next leaves it so, and so does the end.                      *)
LEMMA StaysSealed ==
    ASSUME NEW x \in Seq(Shown), NEW b \in Seq(Shown), NEW c \in Seq(Shown), Sealed(x, b),
           NEW final \in BOOLEAN, NEW r, r = Collected!Redacted(b \o c, final)
    PROVE  Unmatched(x \o r.text) /\ (final \/ Sealed(x \o r.text, r.kept))
<1>1. PICK y \in Seq(Shown) : y = b \o c
    BY Joining
<1>2. Starts(x, y)
    BY <1>1, SealStarts
<1>3. Seals(x, r, final)
    BY Zenon, <1>1, <1>2, RedactedSeals DEF SealsAll
<1>4. PICK t \in Seq(Shown), k \in Seq(Shown) : t = r.text /\ k = r.kept
    BY <1>1, RedactedTypes
<1>5. PICK z \in Seq(Shown) : z = x \o t
    BY Joining
<1>6. Unmatched(z \o k)
    BY Zenon, <1>3, <1>4, <1>5 DEF Seals
<1>7. Unmatched(z)
    BY <1>6, UnmatchedBefore
<1> QED BY Zenon, <1>3, <1>4, <1>5, <1>7 DEF Seals

LEMMA NothingSealed ==
    ASSUME NEW n \in Seq(Shown), Len(n) = 0
    PROVE  Sealed(n, n) /\ Unmatched(n)
<1>1. n \o n \in Seq(Shown) /\ Len(n \o n) = 0
    BY JoinIs
<1>2. ASSUME NEW s \in Seq(Shown), Len(s) = 0 PROVE Unmatched(s) /\ \A k : ~Begun(s, k)
    <2>1. Unmatched(s)
        <3> SUFFICES ASSUME NEW p \in Nat, NEW v \in Secrets, Match(s, p, v) PROVE FALSE
            BY DEF Unmatched
        <3> QED BY <1>2, MatchIs
    <2>2. \A k : ~Begun(s, k)
        BY <1>2 DEF Begun
    <2> QED BY <2>1, <2>2
<1> QED BY <1>1, <1>2 DEF Sealed

(* All of a text at once.                                                  *)
LEMMA AllSealed ==
    ASSUME NEW s \in Seq(Shown)
    PROVE  Unmatched(Collected!Redacted(s, TRUE).text)
<1>1. PICK n \in Seq(Shown) : n = <<>> /\ Len(n) = 0
    <2>1. <<>> \in Seq(Shown) /\ Len(<<>>) = 0
        OBVIOUS
    <2> QED BY <2>1
<1>2. PICK yes \in BOOLEAN : yes = TRUE
    OBVIOUS
<1>3. PICK r \in Redactions : r = Collected!Redacted(s, yes) /\ r.text \in Seq(Shown)
    BY RedactedTypes
<1>4. n \o s = s
    BY <1>1
<1>5. n \o r.text = r.text
    <2>1. PICK t \in Seq(Shown) : t = r.text
        BY <1>3
    <2>2. n \o t = t
        BY <1>1
    <2> QED BY <2>1, <2>2
<1>6. Unmatched(n \o r.text)
    <2>1. Sealed(n, n)
        BY <1>1, NothingSealed
    <2>2. r = Collected!Redacted(n \o s, yes)
        BY Zenon, <1>3, <1>4
    <2> QED BY <2>1, <2>2, StaysSealed
<1> QED BY Zenon, <1>2, <1>3, <1>5, <1>6

-----------------------------------------------------------------------------
(* The cleaner.                                                            *)
Modes == {"text", "escape", "csi"}
St(m, r, b, o) == [mode |-> m, run |-> r, cr |-> b, out |-> o]
Cleaners == [mode : Modes, run : Nat, cr : BOOLEAN, out : Seq(Shown)]

LEMMA CleanersAre ==
    /\ \A m \in Modes, r \in Nat, b \in BOOLEAN, o \in Seq(Shown) : St(m, r, b, o) \in Cleaners
    /\ \A c \in Cleaners :
          /\ c.mode \in Modes /\ c.run \in Nat /\ c.cr \in BOOLEAN
          /\ c.out \in Seq(Shown)
          /\ c = St(c.mode, c.run, c.cr, c.out)
BY DEF Cleaners, St

InMode(c, e) == [c EXCEPT !.mode = e]
Returning(c, e) == [c EXCEPT !.cr = e]
Adds(c, e) == [c EXCEPT !.out = Append(@, e)]

LEMMA StMode ==
    ASSUME NEW m, NEW r, NEW b, NEW q, NEW e
    PROVE  InMode(St(m, r, b, q), e) = St(e, r, b, q)
BY DEF InMode, St

LEMMA StReturning ==
    ASSUME NEW m, NEW r, NEW b, NEW q, NEW e
    PROVE  Returning(St(m, r, b, q), e) = St(m, r, e, q)
BY DEF Returning, St

LEMMA StAdds ==
    ASSUME NEW m, NEW r, NEW b, NEW q, NEW e
    PROVE  Adds(St(m, r, b, q), e) = St(m, r, b, Append(q, e))
BY DEF Adds, St

LEMMA OneIs ==
    ASSUME NEW ch \in Shown
    PROVE  <<ch>> \in Seq(Shown) /\ \A o \in Seq(Shown) : Append(o, ch) = o \o <<ch>>
<1>1. <<ch>> \in Seq(Shown)
    OBVIOUS
<1>2. ASSUME NEW o \in Seq(Shown) PROVE Append(o, ch) = o \o <<ch>>
    OBVIOUS
<1> QED BY <1>1, <1>2

(* One character: what it adds and where it leaves the cleaner does not    *)
(* depend on what has come out so far.                                     *)
Takes(m, r, b, ch, m2, r2, b2, e) ==
    \A o \in Seq(Shown) : Collected!Consume(St(m, r, b, o), ch) = St(m2, r2, b2, o \o e)

LEMMA NothingAdded ==
    ASSUME NEW o \in Seq(Shown)
    PROVE  o \o <<>> = o /\ <<>> \in Seq(Shown)
OBVIOUS

LEMMA ConsumeIs ==
    ASSUME NEW m \in Modes, NEW r \in Nat, NEW b \in BOOLEAN, NEW ch \in Shown
    PROVE  \E m2 \in Modes, r2 \in Nat, b2 \in BOOLEAN, e \in Seq(Shown) :
              Takes(m, r, b, ch, m2, r2, b2, e)
<1> DEFINE none == <<>>
<1>0. none \in Seq(Shown) /\ \A o \in Seq(Shown) : o \o none = o
    BY NothingAdded
<1>1. PICK nl \in Shown : nl = "nl"
    BY ShownMarks
<1>2. /\ <<nl>> \in Seq(Shown) /\ \A o \in Seq(Shown) : Append(o, nl) = o \o <<nl>>
      /\ <<ch>> \in Seq(Shown) /\ \A o \in Seq(Shown) : Append(o, ch) = o \o <<ch>>
    BY OneIs
<1> HIDE DEF none
<1>6. PICK no \in BOOLEAN, yes \in BOOLEAN : no = FALSE /\ yes = TRUE
    OBVIOUS
<1>3. CASE m = "text"
    <2>1. ASSUME NEW o PROVE Collected!Consume(St(m, r, b, o), ch) = Collected!InText(St(m, r, b, o), ch)
        BY <1>3 DEF Collected!Consume, St
    <2>2. PICK p \in Seq(Shown) : \A o \in Seq(Shown) :
            o \o p = IF b THEN Append(o, "nl") ELSE o
        <3>1. CASE b
            BY <1>1, <1>2, <3>1
        <3>2. CASE ~b
            BY <1>0, <3>2
        <3> QED BY <3>1, <3>2
    <2> DEFINE Past1(o) == IF St(m, r, b, o).cr
                           THEN [St(m, r, b, o) EXCEPT !.cr = FALSE, !.out = Append(@, "nl")]
                           ELSE St(m, r, b, o)
    <2>3. ASSUME NEW o \in Seq(Shown) PROVE Past1(o) = St(m, r, no, o \o p)
        BY <1>6, <2>2 DEF St
    <2>4. CASE b /\ ch = "nl"
        <3>1. ASSUME NEW o \in Seq(Shown) PROVE Collected!InText(St(m, r, b, o), ch) = Past1(o)
            BY <2>4 DEF Collected!InText, St
        <3>2. Takes(m, r, b, ch, m, r, no, p)
            BY Zenon, <2>1, <2>3, <3>1 DEF Takes
        <3> QED BY Zenon, <3>2
    <2>5. CASE ch = "cr"
        <3>1. ASSUME NEW o \in Seq(Shown) PROVE Collected!InText(St(m, r, b, o), ch) = Returning(Past1(o), yes)
            BY <1>6, <2>5 DEF Collected!InText, St, Returning, InMode, Adds
        <3>2. ASSUME NEW o \in Seq(Shown) PROVE Collected!InText(St(m, r, b, o), ch) = St(m, r, yes, o \o p)
            <4>1. PICK q : q = o \o p
                OBVIOUS
            <4>2. Returning(St(m, r, no, q), yes) = St(m, r, yes, q)
                BY StReturning
            <4>3. Past1(o) = St(m, r, no, q)
                BY Zenon, <2>3, <4>1
            <4> HIDE DEF Past1
            <4> QED BY Zenon, <3>1, <4>1, <4>2, <4>3
        <3>3. Takes(m, r, b, ch, m, r, yes, p)
            BY Zenon, <2>1, <3>2 DEF Takes
        <3> QED BY Zenon, <3>3
    <2>6. CASE ch = "esc"
        <3>1. ASSUME NEW o \in Seq(Shown)
              PROVE  Collected!InText(St(m, r, b, o), ch) = InMode(Past1(o), "escape")
            BY <2>6 DEF Collected!InText, St, Returning, InMode, Adds
        <3>2. ASSUME NEW o \in Seq(Shown)
              PROVE  Collected!InText(St(m, r, b, o), ch) = St("escape", r, no, o \o p)
            <4>1. PICK q : q = o \o p
                OBVIOUS
            <4>2. InMode(St(m, r, no, q), "escape") = St("escape", r, no, q)
                BY StMode
            <4>3. Past1(o) = St(m, r, no, q)
                BY Zenon, <2>3, <4>1
            <4> HIDE DEF Past1
            <4> QED BY Zenon, <3>1, <4>1, <4>2, <4>3
        <3>3. Takes(m, r, b, ch, "escape", r, no, p)
            BY Zenon, <2>1, <3>2 DEF Takes
        <3> QED BY Zenon, <3>3 DEF Modes
    <2>7. CASE ~(b /\ ch = "nl") /\ ch # "cr" /\ ch # "esc"
        <3>1. ASSUME NEW o \in Seq(Shown)
              PROVE  Collected!InText(St(m, r, b, o), ch) = Adds(Past1(o), ch)
            BY <2>7 DEF Collected!InText, St, Returning, InMode, Adds
        <3>2. ASSUME NEW o \in Seq(Shown)
              PROVE  Collected!InText(St(m, r, b, o), ch) = St(m, r, no, Append(o \o p, ch))
            <4>1. PICK q : q = o \o p
                OBVIOUS
            <4>2. Adds(St(m, r, no, q), ch) = St(m, r, no, Append(q, ch))
                BY StAdds
            <4>3. Past1(o) = St(m, r, no, q)
                BY Zenon, <2>3, <4>1
            <4> HIDE DEF Past1
            <4> QED BY Zenon, <3>1, <4>1, <4>2, <4>3
        <3>3. PICK e \in Seq(Shown) : e = p \o <<ch>>
            BY <1>2, Joining
        <3>4. ASSUME NEW o \in Seq(Shown) PROVE Append(o \o p, ch) = o \o e
            <4>1. PICK l \in Seq(Shown), k \in Seq(Shown) : l = o \o p /\ k = <<ch>>
                BY <1>2, Joining
            <4>2. Append(l, ch) = l \o k
                BY <1>2, <4>1
            <4>3. (o \o p) \o k = o \o (p \o k)
                BY ConcatAssociative, SMTT(30)
            <4> QED BY Zenon, <3>3, <4>1, <4>2, <4>3
        <3>5. Takes(m, r, b, ch, m, r, no, e)
            BY Zenon, <2>1, <3>2, <3>4 DEF Takes
        <3> QED BY Zenon, <3>5
    <2> QED BY Zenon, <2>4, <2>5, <2>6, <2>7
<1>4. CASE m = "escape"
    <2>1. PICK m2 \in Modes : m2 = IF ch = "[" THEN "csi" ELSE "text"
        BY DEF Modes
    <2>2. ASSUME NEW o \in Seq(Shown) PROVE Collected!Consume(St(m, r, b, o), ch) = St(m2, 0, b, o)
        BY <1>4, <2>1 DEF Collected!Consume, St
    <2>3. Takes(m, r, b, ch, m2, 0, b, none)
        BY Zenon, <1>0, <2>2 DEF Takes
    <2> QED BY <1>0, <2>3
<1>5. CASE m = "csi"
    <2>1. PICK m2 \in Modes, r2 \in Nat :
            /\ m2 = IF ch \notin {"cr", "nl", "esc"} \/ r + 1 > MaxSequence THEN "text" ELSE "csi"
            /\ r2 = IF ch \notin {"cr", "nl", "esc"} \/ r + 1 > MaxSequence THEN 0 ELSE r + 1
        BY DEF Modes
    <2>2. ASSUME NEW o \in Seq(Shown) PROVE Collected!Consume(St(m, r, b, o), ch) = St(m2, r2, b, o)
        BY <1>5, <2>1 DEF Collected!Consume, St
    <2>3. Takes(m, r, b, ch, m2, r2, b, none)
        BY Zenon, <1>0, <2>2 DEF Takes
    <2> QED BY <1>0, <2>3
<1> QED BY <1>3, <1>4, <1>5 DEF Modes

(* A cleaner that has also put out o before, and one that has nothing out. *)
Onto(o, c) == St(c.mode, c.run, c.cr, o \o c.out)
Emptied(c) == [c EXCEPT !.out = <<>>]

LEMMA StFields ==
    ASSUME NEW m, NEW r, NEW b, NEW o
    PROVE  /\ St(m, r, b, o).mode = m /\ St(m, r, b, o).run = r
           /\ St(m, r, b, o).cr = b /\ St(m, r, b, o).out = o
BY DEF St

LEMMA EmptiedIs ==
    ASSUME NEW c \in Cleaners
    PROVE  /\ Emptied(c) = St(c.mode, c.run, c.cr, <<>>) /\ Emptied(c) \in Cleaners
           /\ Emptied(Emptied(c)) = Emptied(c)
           /\ c.out \in Seq(Shown) /\ Onto(c.out, Emptied(c)) = c
<1>1. PICK m \in Modes, r \in Nat, b \in BOOLEAN, o \in Seq(Shown) :
        c = St(m, r, b, o) /\ m = c.mode /\ r = c.run /\ b = c.cr /\ o = c.out
    BY CleanersAre
<1>2. PICK n \in Seq(Shown) : n = <<>> /\ o \o n = o
    BY NothingAdded
<1>3. [St(m, r, b, o) EXCEPT !.out = n] = St(m, r, b, n)
    BY DEF St
<1>4. [St(m, r, b, n) EXCEPT !.out = n] = St(m, r, b, n)
    BY DEF St
<1>5. Emptied(c) = St(m, r, b, n)
    BY Zenon, <1>1, <1>2, <1>3 DEF Emptied
<1>6. Emptied(St(m, r, b, n)) = St(m, r, b, n)
    BY Zenon, <1>2, <1>4 DEF Emptied
<1>7. PICK d : d = St(m, r, b, n) /\ d.mode = m /\ d.run = r /\ d.cr = b /\ d.out = n
    BY StFields
<1>8. Onto(o, d) = St(m, r, b, o \o n)
    BY Zenon, <1>7 DEF Onto
<1>9. St(m, r, b, n) \in Cleaners
    BY CleanersAre
<1> QED BY Zenon, <1>1, <1>2, <1>5, <1>6, <1>7, <1>8, <1>9

LEMMA ConsumeOnto ==
    ASSUME NEW c \in Cleaners, NEW ch \in Shown, NEW o \in Seq(Shown)
    PROVE  Collected!Consume(c, ch) \in Cleaners /\ Collected!Consume(Onto(o, c), ch) = Onto(o, Collected!Consume(c, ch))
<1>1. PICK m \in Modes, r \in Nat, b \in BOOLEAN, t \in Seq(Shown) :
        c = St(m, r, b, t) /\ m = c.mode /\ r = c.run /\ b = c.cr /\ t = c.out
    BY CleanersAre
<1>2. PICK m2 \in Modes, r2 \in Nat, b2 \in BOOLEAN, e \in Seq(Shown) :
        Takes(m, r, b, ch, m2, r2, b2, e)
    BY ConsumeIs
<1>3. PICK p \in Seq(Shown), q \in Seq(Shown) : p = o \o t /\ q = t \o e
    BY Joining
<1>4. Collected!Consume(c, ch) = St(m2, r2, b2, q)
    BY Zenon, <1>1, <1>2, <1>3 DEF Takes
<1>5. Onto(o, c) = St(m, r, b, p)
    BY Zenon, <1>1, <1>3 DEF Onto
<1>6. Collected!Consume(St(m, r, b, p), ch) = St(m2, r2, b2, p \o e)
    BY Zenon, <1>2 DEF Takes
<1>7. PICK d : d = St(m2, r2, b2, q) /\ d.mode = m2 /\ d.run = r2 /\ d.cr = b2 /\ d.out = q
    BY StFields
<1>8. Onto(o, d) = St(m2, r2, b2, o \o q)
    BY Zenon, <1>7 DEF Onto
<1>9. (o \o t) \o e = o \o (t \o e)
    BY Joining
<1>10. St(m2, r2, b2, q) \in Cleaners
    BY CleanersAre
<1> QED BY Zenon, <1>3, <1>4, <1>5, <1>6, <1>7, <1>8, <1>9, <1>10

(* The recursion of Cleaned.                                               *)
CleansBy(f, c, chars) ==
    f = [i \in 0..Len(chars) |-> IF i = 0 THEN Emptied(c) ELSE Collected!Consume(f[i - 1], chars[i])]
Cleansed(f, c, chars, n) ==
    f[0] = Emptied(c) /\ \A i \in 1..n : f[i] = Collected!Consume(f[i - 1], chars[i])

LEMMA CleanedBy ==
    ASSUME NEW c, NEW chars
    PROVE  Collected!Cleaned(c, chars) = (CHOOSE f : CleansBy(f, c, chars))[Len(chars)]
BY Zenon DEF Collected!Cleaned, CleansBy, Emptied

LEMMA CleansingExists ==
    ASSUME NEW c \in Cleaners, NEW chars \in Seq(Shown)
    PROVE  \E f \in [0..Len(chars) -> Cleaners] : Cleansed(f, c, chars, Len(chars))
<1> DEFINE There(n) == \E f \in [0..n -> Cleaners] : Cleansed(f, c, chars, n)
           S == {n \in Nat : n <= Len(chars) => There(n)}
<1>1. 0 \in S
    <2> DEFINE f == [i \in 0..0 |-> Emptied(c)]
    <2>1. f \in [0..0 -> Cleaners] /\ f[0] = Emptied(c)
        BY EmptiedIs
    <2> HIDE DEF f
    <2>2. Cleansed(f, c, chars, 0)
        BY <2>1 DEF Cleansed
    <2> QED BY <2>1, <2>2
<1>2. ASSUME NEW n \in Nat, n \in S PROVE n + 1 \in S
    <2> SUFFICES ASSUME n + 1 <= Len(chars) PROVE There(n + 1)
        <3> HIDE DEF There
        <3> QED BY DEF S
    <2>1. PICK f \in [0..n -> Cleaners] : Cleansed(f, c, chars, n)
        BY <1>2
    <2>2. chars[n + 1] \in Shown /\ n \in 0..n
        OBVIOUS
    <2>3. PICK e \in Cleaners : e = Collected!Consume(f[n], chars[n + 1])
        <3>1. PICK o \in Seq(Shown) : o = <<>>
            BY NothingAdded
        <3> QED BY <2>2, ConsumeOnto
    <2> DEFINE g == [i \in 0..(n + 1) |-> IF i = n + 1 THEN e ELSE f[i]]
    <2>4. g \in [0..(n + 1) -> Cleaners]
        OBVIOUS
    <2>5. g[n + 1] = e /\ \A i \in 0..n : g[i] = f[i]
        OBVIOUS
    <2> HIDE DEF g
    <2>6. ASSUME NEW i \in 1..(n + 1) PROVE g[i] = Collected!Consume(g[i - 1], chars[i])
        <3>1. CASE i = n + 1
            <4>1. g[i] = e /\ g[i - 1] = f[n]
                BY <2>5, <3>1
            <4> QED BY <2>3, <3>1, <4>1
        <3>2. CASE i # n + 1
            <4>1. i \in 1..n /\ i \in 0..n /\ i - 1 \in 0..n
                BY <3>2
            <4>2. f[i] = Collected!Consume(f[i - 1], chars[i])
                BY <2>1, <4>1 DEF Cleansed
            <4> QED BY <2>5, <4>1, <4>2
        <3> QED BY <3>1, <3>2
    <2>7. g[0] = Emptied(c)
        BY <2>1, <2>5 DEF Cleansed
    <2>8. Cleansed(g, c, chars, n + 1)
        BY Zenon, <2>6, <2>7 DEF Cleansed
    <2> QED BY <2>4, <2>8
<1> HIDE DEF S, There
<1>3. Nat \subseteq S
    BY <1>1, <1>2, InductionOverASet
<1>4. There(Len(chars))
    BY <1>3 DEF S
<1> QED BY <1>4 DEF There

LEMMA CleansedOnce ==
    ASSUME NEW c, NEW chars, NEW n \in Nat, NEW f, Cleansed(f, c, chars, n),
           NEW g, Cleansed(g, c, chars, n)
    PROVE  \A i \in 0..n : f[i] = g[i]
<1> DEFINE S == {i \in Nat : i <= n => f[i] = g[i]}
<1>1. 0 \in S
    BY DEF Cleansed
<1>2. ASSUME NEW i \in Nat, i \in S PROVE i + 1 \in S
    <2> SUFFICES ASSUME i + 1 <= n PROVE f[i + 1] = g[i + 1]
        OBVIOUS
    <2>1. i + 1 \in 1..n /\ (i + 1) - 1 = i /\ i <= n
        OBVIOUS
    <2>2. /\ f[i + 1] = Collected!Consume(f[i], chars[i + 1])
          /\ g[i + 1] = Collected!Consume(g[i], chars[i + 1])
        BY <2>1 DEF Cleansed
    <2>3. f[i] = g[i]
        BY <1>2, <2>1
    <2> QED BY <2>2, <2>3
<1> HIDE DEF S
<1>3. Nat \subseteq S
    BY <1>1, <1>2, InductionOverASet
<1>4. ASSUME NEW i \in 0..n PROVE f[i] = g[i]
    BY <1>3 DEF S
<1> QED BY <1>4

LEMMA CleanedIs ==
    ASSUME NEW c \in Cleaners, NEW chars \in Seq(Shown)
    PROVE  \E f \in [0..Len(chars) -> Cleaners] :
              Cleansed(f, c, chars, Len(chars)) /\ Collected!Cleaned(c, chars) = f[Len(chars)]
<1>1. PICK f \in [0..Len(chars) -> Cleaners] : Cleansed(f, c, chars, Len(chars))
    BY CleansingExists
<1>2. PICK n \in Nat : n = Len(chars)
    OBVIOUS
<1>3. ASSUME NEW g PROVE CleansBy(g, c, chars) => Cleansed(g, c, chars, n)
    <2> SUFFICES ASSUME CleansBy(g, c, chars) PROVE Cleansed(g, c, chars, n)
        OBVIOUS
    <2>1. g = [i \in 0..n |-> IF i = 0 THEN Emptied(c) ELSE Collected!Consume(g[i - 1], chars[i])]
        BY Zenon, <1>2 DEF CleansBy
    <2> DEFINE G(i) == IF i = 0 THEN Emptied(c) ELSE Collected!Consume(g[i - 1], chars[i])
    <2>2. \A i \in 0..n : g[i] = G(i)
        <3> HIDE DEF G
        <3> QED BY <2>1 DEF G
    <2>3. g[0] = Emptied(c)
        BY <2>2
    <2>4. ASSUME NEW i \in 1..n PROVE g[i] = Collected!Consume(g[i - 1], chars[i])
        <3>1. i \in 0..n /\ i # 0
            OBVIOUS
        <3> QED BY <2>2, <3>1
    <2> QED BY Zenon, <2>3, <2>4 DEF Cleansed
<1>4. CleansBy(f, c, chars)
    <2> DEFINE G(i) == IF i = 0 THEN Emptied(c) ELSE Collected!Consume(f[i - 1], chars[i])
    <2>1. ASSUME NEW i \in 0..n PROVE f[i] = G(i)
        <3>1. CASE i = 0
            BY <1>1, <3>1 DEF Cleansed
        <3>2. CASE i # 0
            <4>1. i \in 1..Len(chars)
                BY <1>2, <3>2
            <4> QED BY <1>1, <3>2, <4>1 DEF Cleansed
        <3> QED BY <3>1, <3>2
    <2> HIDE DEF G
    <2>2. f = [i \in 0..n |-> G(i)]
        BY <1>2, <2>1
    <2> QED BY Zenon, <1>2, <2>2 DEF G, CleansBy
<1>5. PICK g : g = (CHOOSE h : CleansBy(h, c, chars)) /\ CleansBy(g, c, chars)
    BY <1>4
<1>6. Cleansed(g, c, chars, n) /\ Cleansed(f, c, chars, n)
    BY Zenon, <1>1, <1>2, <1>3, <1>5
<1>7. f[n] = g[n]
    BY <1>6, CleansedOnce
<1>8. Collected!Cleaned(c, chars) = f[n]
    BY Zenon, <1>2, <1>5, <1>7, CleanedBy
<1> QED BY Zenon, <1>1, <1>2, <1>8

LEMMA CleanedTypes ==
    ASSUME NEW c \in Cleaners, NEW chars \in Seq(Shown)
    PROVE  Collected!Cleaned(c, chars) \in Cleaners /\ Collected!Cleaned(c, chars).out \in Seq(Shown)
<1>1. PICK f \in [0..Len(chars) -> Cleaners] : Collected!Cleaned(c, chars) = f[Len(chars)]
    BY CleanedIs
<1>2. f[Len(chars)] \in Cleaners
    OBVIOUS
<1> QED BY <1>1, <1>2, CleanersAre

LEMMA OntoIs ==
    ASSUME NEW c \in Cleaners, NEW o \in Seq(Shown)
    PROVE  Onto(o, c) \in Cleaners
<1>1. c.mode \in Modes /\ c.run \in Nat /\ c.cr \in BOOLEAN /\ c.out \in Seq(Shown)
    BY CleanersAre
<1>2. PICK p \in Seq(Shown) : p = o \o c.out
    BY <1>1, Joining
<1> QED BY Zenon, <1>1, <1>2, CleanersAre DEF Onto

LEMMA EmptiedFirst ==
    ASSUME NEW c \in Cleaners, NEW chars \in Seq(Shown)
    PROVE  Collected!Cleaned(Emptied(c), chars) = Collected!Cleaned(c, chars)
<1>1. PICK d \in Cleaners : d = Emptied(c) /\ Emptied(d) = Emptied(c)
    BY EmptiedIs
<1>2. PICK f : Cleansed(f, c, chars, Len(chars)) /\ Collected!Cleaned(c, chars) = f[Len(chars)]
    BY CleanedIs
<1>3. PICK g : Cleansed(g, d, chars, Len(chars)) /\ Collected!Cleaned(d, chars) = g[Len(chars)]
    BY CleanedIs
<1>4. PICK n \in Nat : n = Len(chars) /\ n \in 0..n
    OBVIOUS
<1>5. Cleansed(f, c, chars, n)
    BY <1>2, <1>4
<1>6. Cleansed(g, c, chars, n)
    BY Zenon, <1>1, <1>3, <1>4 DEF Cleansed
<1>7. f[n] = g[n]
    <2>1. \A i \in 0..n : f[i] = g[i]
        BY <1>5, <1>6, CleansedOnce
    <2> QED BY <1>4, <2>1
<1> QED BY Zenon, <1>1, <1>2, <1>3, <1>4, <1>7

(* Cleaning does not depend on where the chars is cut.                      *)
LEMMA CleanedOn ==
    ASSUME NEW c \in Cleaners, NEW x \in Seq(Shown), NEW y \in Seq(Shown),
           NEW d, d = Collected!Cleaned(c, x)
    PROVE  Collected!Cleaned(c, x \o y) = Onto(d.out, Collected!Cleaned(d, y))
<1>0. d \in Cleaners /\ d.out \in Seq(Shown)
    BY CleanedTypes
<1>1. PICK z \in Seq(Shown) : z = x \o y /\ Len(z) = Len(x) + Len(y)
    BY JoinIs
<1>2. PICK m \in Nat, n \in Nat : m = Len(x) /\ n = Len(y) /\ Len(z) = m + n
    BY <1>1
<1>3. PICK f \in [0..(m + n) -> Cleaners] : Cleansed(f, c, z, m + n) /\ Collected!Cleaned(c, z) = f[m + n]
    BY <1>2, CleanedIs
<1>4. PICK g \in [0..m -> Cleaners] : Cleansed(g, c, x, m) /\ d = g[m]
    BY <1>2, CleanedIs
<1>5. PICK h \in [0..n -> Cleaners] : Cleansed(h, d, y, n) /\ Collected!Cleaned(d, y) = h[n]
    BY <1>0, <1>2, CleanedIs
<1>6. \A i \in 1..m : z[i] = x[i]
    BY <1>1, <1>2
<1>7. \A i \in 1..n : z[m + i] = y[i] /\ y[i] \in Shown
    BY <1>1, <1>2
<1>8. \A i \in 1..m : f[i] = Collected!Consume(f[i - 1], x[i])
    <2>1. \A i \in 1..(m + n) : f[i] = Collected!Consume(f[i - 1], z[i])
        BY <1>3 DEF Cleansed
    <2>2. \A i \in 1..m : i \in 1..(m + n)
        OBVIOUS
    <2> QED BY Zenon, <1>6, <2>1, <2>2
<1>9. Cleansed(f, c, x, m)
    BY <1>3, <1>8 DEF Cleansed
<1>10. f[m] = d
    <2>1. \A i \in 0..m : f[i] = g[i]
        BY <1>4, <1>9, CleansedOnce
    <2> QED BY <1>4, <2>1
<1> DEFINE S == {i \in Nat : i <= n => f[m + i] = Onto(d.out, h[i])}
<1>11. 0 \in S
    <2>1. h[0] = Emptied(d)
        BY <1>5 DEF Cleansed
    <2>2. Onto(d.out, Emptied(d)) = d
        BY <1>0, EmptiedIs
    <2>3. f[m + 0] = Onto(d.out, h[0])
        BY <1>10, <2>1, <2>2
    <2> QED BY <2>3
<1>12. ASSUME NEW i \in Nat, i \in S PROVE i + 1 \in S
    <2> SUFFICES ASSUME i + 1 <= n PROVE f[m + (i + 1)] = Onto(d.out, h[i + 1])
        OBVIOUS
    <2>1. /\ i + 1 \in 1..n /\ (i + 1) - 1 = i /\ i <= n /\ i \in 0..n
          /\ m + (i + 1) \in 1..(m + n) /\ (m + (i + 1)) - 1 = m + i
        OBVIOUS
    <2>2. f[m + (i + 1)] = Collected!Consume(f[m + i], z[m + (i + 1)])
        BY <1>3, <2>1 DEF Cleansed
    <2>3. h[i + 1] = Collected!Consume(h[i], y[i + 1])
        BY <1>5, <2>1 DEF Cleansed
    <2>4. f[m + i] = Onto(d.out, h[i])
        BY <1>12, <2>1
    <2>5. z[m + (i + 1)] = y[i + 1] /\ y[i + 1] \in Shown
        BY <1>7, <2>1
    <2>6. PICK ch \in Shown, k \in Cleaners : ch = y[i + 1] /\ k = h[i]
        BY <2>1, <2>5
    <2>7. PICK o \in Seq(Shown) : o = d.out
        BY <1>0
    <2>8. Collected!Consume(Onto(o, k), ch) = Onto(o, Collected!Consume(k, ch))
        BY ConsumeOnto
    <2> QED BY Zenon, <2>2, <2>3, <2>4, <2>5, <2>6, <2>7, <2>8
<1> HIDE DEF S
<1>13. n \in S
    <2>1. Nat \subseteq S
        BY <1>11, <1>12, InductionOverASet
    <2> QED BY <2>1
<1>14. f[m + n] = Onto(d.out, h[n])
    BY <1>13 DEF S
<1> QED BY Zenon, <1>1, <1>3, <1>5, <1>14

(* The end of a stream.                                                    *)
LEMMA FlushedIs ==
    ASSUME NEW c \in Cleaners, NEW o \in Seq(Shown)
    PROVE  /\ Collected!Flushed(c) \in Seq(Shown)
           /\ Collected!Flushed(Onto(o, c)) = o \o Collected!Flushed(c)
<1>1. PICK m \in Modes, r \in Nat, b \in BOOLEAN, t \in Seq(Shown) :
        c = St(m, r, b, t) /\ m = c.mode /\ r = c.run /\ b = c.cr /\ t = c.out
    BY CleanersAre
<1>2. PICK nl \in Shown : nl = "nl"
    BY ShownMarks
<1>3. PICK e \in Seq(Shown) : e = <<nl>> /\ \A s \in Seq(Shown) : Append(s, nl) = s \o e
    BY OneIs
<1>4. PICK p \in Seq(Shown), q \in Seq(Shown), l \in Seq(Shown) :
        p = o \o t /\ q = t \o e /\ l = p \o e
    BY Joining
<1>5. PICK k : k = St(m, r, b, p) /\ k.cr = b /\ k.out = p
    BY StFields
<1>6. Onto(o, c) = k
    BY Zenon, <1>1, <1>4, <1>5 DEF Onto
<1>7. (o \o t) \o e = o \o (t \o e)
    BY ConcatAssociative, SMTT(30)
<1>8. CASE b
    <2>1. Collected!Flushed(c) = q /\ Collected!Flushed(k) = l
        BY Zenon, <1>1, <1>2, <1>3, <1>4, <1>5, <1>8 DEF Collected!Flushed
    <2>2. l = o \o q
        BY Zenon, <1>4, <1>7
    <2> QED BY Zenon, <1>4, <1>6, <2>1, <2>2
<1>9. CASE ~b
    <2>1. Collected!Flushed(c) = t /\ Collected!Flushed(k) = p
        BY Zenon, <1>1, <1>5, <1>9 DEF Collected!Flushed
    <2> QED BY Zenon, <1>4, <1>6, <2>1
<1> QED BY <1>8, <1>9

(* What is held of a chars, and what is shown of a finished one.            *)
Came(w) == Collected!Cleaned(Collected!Clean, w)
ShownOf(w) == Held(Came(w).out).text
HeldOf(w) == Held(Came(w).out).kept
Finished(w) == Collected!Redacted(Collected!Flushed(Came(w)), TRUE).text

LEMMA NoneIs == <<>> \in Seq(Shown) /\ Len(<<>>) = 0
OBVIOUS

LEMMA CleanIs == Collected!Clean \in Cleaners /\ Emptied(Collected!Clean) = Collected!Clean /\ Collected!Clean.out = <<>>
<1>1. PICK m \in Modes, b \in BOOLEAN, n \in Seq(Shown) : m = "text" /\ b = FALSE /\ n = <<>>
    <2>1. "text" \in Modes
        BY DEF Modes
    <2>2. FALSE \in BOOLEAN
        OBVIOUS
    <2> QED BY Zenon, <2>1, <2>2, NoneIs
<1>2. Collected!Clean = St(m, 0, b, n)
    BY Zenon, <1>1 DEF Collected!Clean, St
<1>3. [St(m, 0, b, n) EXCEPT !.out = n] = St(m, 0, b, n)
    BY DEF St
<1>4. Emptied(Collected!Clean) = Collected!Clean
    BY Zenon, <1>1, <1>2, <1>3 DEF Emptied
<1>5. St(m, 0, b, n) \in Cleaners
    BY CleanersAre
<1>6. St(m, 0, b, n).out = n
    BY StFields
<1> QED BY Zenon, <1>1, <1>2, <1>4, <1>5, <1>6

LEMMA CameIs ==
    ASSUME NEW w \in Seq(Shown)
    PROVE  /\ Came(w) \in Cleaners /\ Came(w).out \in Seq(Shown)
           /\ ShownOf(w) \in Seq(Shown) /\ HeldOf(w) \in Seq(Shown)
           /\ Emptied(Came(w)) \in Cleaners
<1>1. Came(w) \in Cleaners /\ Came(w).out \in Seq(Shown)
    BY CleanIs, CleanedTypes DEF Came
<1>2. ShownOf(w) \in Seq(Shown) /\ HeldOf(w) \in Seq(Shown)
    BY Zenon, <1>1, HeldTypes DEF ShownOf, HeldOf
<1>3. Emptied(Came(w)) \in Cleaners
    BY <1>1, EmptiedIs
<1> QED BY <1>1, <1>2, <1>3

LEMMA NothingCame ==
    /\ Emptied(Came(<<>>)) = Collected!Clean /\ ShownOf(<<>>) = <<>>
    /\ HeldOf(<<>>) = <<>>
<1>1. PICK n \in Seq(Shown) : n = <<>> /\ Len(n) = 0
    BY NoneIs
<1>2. PICK f : Cleansed(f, Collected!Clean, n, Len(n)) /\ Collected!Cleaned(Collected!Clean, n) = f[Len(n)]
    BY CleanIs, CleanedIs
<1>3. Collected!Cleaned(Collected!Clean, n) = Collected!Clean
    BY Zenon, <1>1, <1>2, CleanIs DEF Cleansed
<1>4. Came(n) = Collected!Clean /\ Came(n).out = n
    BY Zenon, <1>1, <1>3, CleanIs DEF Came
<1>5. Unmatched(n)
    <2> SUFFICES ASSUME NEW p \in Nat, NEW v \in Secrets, Match(n, p, v) PROVE FALSE
        BY DEF Unmatched
    <2> QED BY <1>1, MatchIs
<1>6. Held(n).text = n /\ Held(n).kept = n
    <2>1. PICK u \in Seq(Shown), z \in Seq(Shown) :
          /\ n = u \o z /\ Len(z) = Collected!Pending(n)
          /\ Len(u) = Len(n) - Collected!Pending(n)
          /\ Held(n).text = u /\ Held(n).kept = z
        BY <1>5, UnmatchedCut
    <2>2. Len(u) = 0 /\ Len(z) = 0
        <3>1. Len(u \o z) = Len(u) + Len(z) /\ Len(u) \in Nat /\ Len(z) \in Nat
            BY JoinIs
        <3>2. Len(u \o z) = 0
            BY Zenon, <1>1, <2>1
        <3> QED BY <3>1, <3>2
    <2>3. u = n /\ z = n
        BY <1>1, <2>2
    <2> QED BY Zenon, <2>1, <2>3
<1> QED BY Zenon, <1>1, <1>4, <1>6, CleanIs DEF ShownOf, HeldOf

Comes(w, chunk, c, r) ==
    /\ Emptied(Came(w \o chunk)) = [c EXCEPT !.out = <<>>]
    /\ Collected!ValuesApart => ShownOf(w \o chunk) = ShownOf(w) \o r.text /\ HeldOf(w \o chunk) = r.kept

LEMMA MoreCame ==
    ASSUME NEW w \in Seq(Shown), NEW chunk \in Seq(Shown),
           NEW c, c = Collected!Cleaned(Emptied(Came(w)), chunk), NEW r, r = Held(HeldOf(w) \o c.out)
    PROVE  Comes(w, chunk, c, r)
<1>1. PICK d \in Cleaners : d = Came(w) /\ d.out \in Seq(Shown)
    BY CameIs
<1>2. c = Collected!Cleaned(d, chunk)
    BY Zenon, <1>1, EmptiedFirst
<1>3. c \in Cleaners /\ c.out \in Seq(Shown)
    BY <1>2, CleanedTypes
<1>4. Came(w \o chunk) = Onto(d.out, c)
    <2>1. d = Collected!Cleaned(Collected!Clean, w)
        BY Zenon, <1>1 DEF Came
    <2>2. Collected!Cleaned(Collected!Clean, w \o chunk) = Onto(d.out, Collected!Cleaned(d, chunk))
        BY <2>1, CleanIs, CleanedOn
    <2> QED BY Zenon, <1>2, <2>2 DEF Came
<1>5. PICK e \in Cleaners : e = Onto(d.out, c)
    BY <1>1, <1>3, OntoIs
<1>6. /\ e.mode = c.mode /\ e.run = c.run /\ e.cr = c.cr /\ e.out = d.out \o c.out
    <2>1. PICK m, n, b, o : m = c.mode /\ n = c.run /\ b = c.cr /\ o = d.out \o c.out
        OBVIOUS
    <2>2. e = St(m, n, b, o)
        BY Zenon, <1>5, <2>1 DEF Onto
    <2>3. /\ St(m, n, b, o).mode = m /\ St(m, n, b, o).run = n
          /\ St(m, n, b, o).cr = b /\ St(m, n, b, o).out = o
        BY StFields
    <2> QED BY Zenon, <2>1, <2>2, <2>3
<1>7. Emptied(e) = Emptied(c)
    BY Zenon, <1>3, <1>6, EmptiedIs
<1>8. PICK x \in Seq(Shown), y \in Seq(Shown) : x = d.out /\ y = c.out
    BY <1>1, <1>3
<1>9. PICK no : no = FALSE
    OBVIOUS
<1>10. Collected!ValuesApart => Splices(x, y, no)
    BY RedactedSplices
<1>11. Collected!ValuesApart => Held(x \o y).text = Held(x).text \o r.text /\ Held(x \o y).kept = r.kept
    BY Zenon, <1>1, <1>8, <1>9, <1>10 DEF Splices, Held, HeldOf
<1>12. e.out = x \o y
    BY Zenon, <1>6, <1>8
<1>13. Collected!ValuesApart => ShownOf(w \o chunk) = ShownOf(w) \o r.text /\ HeldOf(w \o chunk) = r.kept
    BY Zenon, <1>1, <1>4, <1>5, <1>8, <1>11, <1>12 DEF ShownOf, HeldOf
<1>14. Emptied(Came(w \o chunk)) = Emptied(c)
    BY Zenon, <1>4, <1>5, <1>7
<1> QED BY Zenon, <1>13, <1>14 DEF Emptied, Comes

LEMMA AllCame ==
    ASSUME NEW w \in Seq(Shown)
    PROVE  /\ Finished(w) \in Seq(Shown)
           /\ Collected!ValuesApart =>
                 Finished(w) = ShownOf(w) \o Collected!Redacted(HeldOf(w) \o Collected!Flushed(Emptied(Came(w))), TRUE).text
<1>1. PICK d \in Cleaners : d = Came(w) /\ d.out \in Seq(Shown)
    BY CameIs
<1>2. PICK k \in Cleaners : k = Emptied(d) /\ Onto(d.out, k) = d
    BY EmptiedIs
<1>3. PICK x \in Seq(Shown), y \in Seq(Shown) : x = d.out /\ y = Collected!Flushed(k)
    BY <1>1, FlushedIs
<1>4. Collected!Flushed(Onto(x, k)) = x \o Collected!Flushed(k)
    BY FlushedIs
<1>5. Collected!Flushed(d) = x \o y
    BY Zenon, <1>2, <1>3, <1>4
<1>6. PICK yes : yes = TRUE
    OBVIOUS
<1>7. Collected!ValuesApart => Splices(x, y, yes)
    BY RedactedSplices
<1>8. Collected!ValuesApart => Collected!Redacted(x \o y, TRUE).text = Held(x).text \o Collected!Redacted(Held(x).kept \o y, TRUE).text
    BY Zenon, <1>6, <1>7 DEF Splices
<1>9. Finished(w) = Collected!Redacted(x \o y, TRUE).text
    BY Zenon, <1>1, <1>5 DEF Finished
<1>10. PICK z \in Seq(Shown) : z = x \o y
    BY Joining
<1>11. Collected!Redacted(z, yes).text \in Seq(Shown)
    BY RedactedTypes
<1> QED
    BY Zenon, <1>1, <1>2, <1>3, <1>6, <1>8, <1>9, <1>10, <1>11
    DEF ShownOf, HeldOf

-----------------------------------------------------------------------------
(* The windows.                                                            *)
Windows == [total : Nat, head : Seq(Alphabet), tail : Seq(Alphabet)]

LEMMA LimitsAre ==
    /\ Collected!HeadLimit \in Nat /\ Collected!TailLimit \in Nat
    /\ Collected!HeadLimit + Collected!TailLimit = MaxReturn
BY OutputAssumption DEF Collected!HeadLimit, Collected!TailLimit

LEMMA PrefixIs ==
    ASSUME NEW S, NEW s \in Seq(S), NEW n \in Nat
    PROVE  Collected!Prefix(s, n) \in Seq(S) /\ Len(Collected!Prefix(s, n)) <= n /\ Len(Collected!Prefix(s, n)) \in Nat
<1>1. CASE n < Len(s)
    <2>1. Collected!Prefix(s, n) = SubSeq(s, 1, n)
        BY <1>1 DEF Collected!Prefix
    <2>2. SubSeq(s, 1, n) \in Seq(S) /\ Len(SubSeq(s, 1, n)) = n
        BY <1>1
    <2> QED BY <2>1, <2>2
<1>2. CASE ~(n < Len(s))
    <2>1. Collected!Prefix(s, n) = SubSeq(s, 1, Len(s))
        BY <1>2 DEF Collected!Prefix
    <2>2. SubSeq(s, 1, Len(s)) \in Seq(S) /\ Len(SubSeq(s, 1, Len(s))) = Len(s)
        OBVIOUS
    <2> QED BY <1>2, <2>1, <2>2
<1> QED BY <1>1, <1>2

LEMMA EndOf ==
    ASSUME NEW S, NEW s \in Seq(S), NEW n \in Nat
    PROVE  Collected!Suffix(s, n) \in Seq(S) /\ Len(Collected!Suffix(s, n)) <= n /\ Len(Collected!Suffix(s, n)) \in Nat
<1>1. CASE n < Len(s)
    <2>1. PICK m \in Nat : m = Len(s) - n /\ m <= Len(s) /\ n = Len(s) - m
        BY <1>1
    <2>2. Collected!Suffix(s, n) = Collected!Drop(s, m)
        BY <1>1, <2>1 DEF Collected!Suffix, Collected!Drop
    <2>3. Collected!Drop(s, m) \in Seq(S) /\ Len(Collected!Drop(s, m)) = Len(s) - m
        BY <2>1, DropIs
    <2> QED BY <2>1, <2>2, <2>3
<1>2. CASE ~(n < Len(s))
    <2>1. Collected!Suffix(s, n) = SubSeq(s, 1, Len(s))
        BY <1>2 DEF Collected!Suffix
    <2>2. SubSeq(s, 1, Len(s)) \in Seq(S) /\ Len(SubSeq(s, 1, Len(s))) = Len(s)
        OBVIOUS
    <2> QED BY <1>2, <2>1, <2>2
<1> QED BY <1>1, <1>2

LEMMA DropAny ==
    ASSUME NEW S, NEW s \in Seq(S), NEW n \in Nat
    PROVE  Collected!Drop(s, n) \in Seq(S)
<1>1. CASE n <= Len(s)
    BY <1>1, DropIs
<1>2. CASE ~(n <= Len(s))
    <2>1. SubSeq(s, n + 1, Len(s)) = <<>>
        BY <1>2
    <2>2. <<>> \in Seq(S)
        OBVIOUS
    <2> QED BY <2>1, <2>2 DEF Collected!Drop
<1> QED BY <1>1, <1>2

LEMMA RetainedIs ==
    ASSUME NEW w \in Windows, Len(w.head) <= Collected!HeadLimit, NEW chunk \in Seq(Alphabet)
    PROVE  /\ Collected!Retained(w, chunk) \in Windows
           /\ Collected!Retained(w, chunk).total = w.total + Len(chunk)
           /\ Len(Collected!Retained(w, chunk).head) <= Collected!HeadLimit
<1>1. PICK h \in Seq(Alphabet), t \in Seq(Alphabet), n \in Nat : h = w.head /\ t = w.tail /\ n = w.total
    BY DEF Windows
<1>2. PICK room \in Nat : room = Collected!HeadLimit - Len(h) /\ Len(h) + room = Collected!HeadLimit
    <2>1. PICK l \in Nat, n1 \in Nat : l = Collected!HeadLimit /\ n1 = Len(h) /\ n1 <= l
        <3>1. Collected!HeadLimit \in Nat /\ Len(h) \in Nat
            BY LimitsAre
        <3>2. Len(h) <= Collected!HeadLimit
            BY Zenon, <1>1
        <3> QED BY Zenon, <3>1, <3>2
    <2>2. l - n1 \in Nat /\ n1 + (l - n1) = l
        BY <2>1
    <2> QED BY Zenon, <2>1, <2>2
<1>3. PICK a \in Seq(Alphabet), b \in Seq(Alphabet) :
        a = Collected!Prefix(chunk, room) /\ Len(a) <= room /\ b = Collected!Drop(chunk, room)
    BY PrefixIs, DropAny
<1>4. PICK x \in Seq(Alphabet) : x = h \o a /\ Len(x) = Len(h) + Len(a)
    BY JoinIs
<1>5. PICK y \in Seq(Alphabet) : y = t \o b
    BY JoinIs
<1>6. PICK z \in Seq(Alphabet) : z = Collected!Suffix(y, Collected!TailLimit)
    BY EndOf, LimitsAre
<1>7. PICK l \in Nat : l = n + Len(chunk)
    OBVIOUS
<1>8. Collected!Retained(w, chunk) = [total |-> l, head |-> x, tail |-> z]
    BY Zenon, <1>1, <1>2, <1>3, <1>4, <1>5, <1>6, <1>7 DEF Collected!Retained
<1>9. Len(x) <= Collected!HeadLimit
    BY <1>2, <1>3, <1>4
<1>10. [total |-> l, head |-> x, tail |-> z] \in Windows
    BY DEF Windows
<1>11. Collected!Retained(w, chunk).total = l /\ Collected!Retained(w, chunk).head = x
    BY <1>8
<1> QED BY Zenon, <1>1, <1>7, <1>8, <1>9, <1>10, <1>11

(* What is returned of a stream keeps its budget.                          *)
LEMMA MarkerIs ==
    ASSUME NEW budget \in Nat
    PROVE  /\ Collected!Marker(budget) \in Seq(Shown)
           /\ Len(Collected!Marker(budget)) <= budget
           /\ Len(Collected!Marker(budget)) \in Nat
<1>1. PICK c \in Shown : c = "~"
    BY ShownMarks
<1>2. <<c>> \in Seq(Shown) /\ Len(<<c>>) = 1
    OBVIOUS
<1>3. CASE budget >= 3
    <2>1. Collected!Marker(budget) = <<c>>
        BY Zenon, <1>1, <1>3 DEF Collected!Marker
    <2> QED BY <1>2, <1>3, <2>1
<1>4. CASE ~(budget >= 3)
    <2>1. Collected!Marker(budget) = <<>>
        BY Zenon, <1>4 DEF Collected!Marker
    <2> QED BY <2>1, NoneIs
<1> QED BY <1>3, <1>4

LEMMA HalvesAre ==
    ASSUME NEW kept \in Nat
    PROVE  kept \div 2 \in Nat /\ kept - kept \div 2 \in Nat /\ kept \div 2 + (kept - kept \div 2) = kept
OBVIOUS

LEMMA CutToFit ==
    ASSUME NEW s \in Seq(Shown), NEW t \in Seq(Shown), NEW budget \in Nat,
           NEW kept, kept = budget - Len(Collected!Marker(budget))
    PROVE  /\ Collected!Prefix(s, kept \div 2) \o Collected!Marker(budget) \o Collected!Suffix(t, kept - kept \div 2) \in Seq(Shown)
           /\ Len(Collected!Prefix(s, kept \div 2) \o Collected!Marker(budget) \o Collected!Suffix(t, kept - kept \div 2)) <= budget
<1>1. PICK m \in Seq(Shown) : m = Collected!Marker(budget) /\ Len(m) <= budget
    BY MarkerIs
<1>2. PICK k \in Nat : k = kept /\ k + Len(m) = budget
    <2>1. PICK l \in Nat : l = Len(m) /\ l <= budget
        BY <1>1
    <2>2. budget - l \in Nat /\ (budget - l) + l = budget
        BY <2>1
    <2> QED BY Zenon, <1>1, <2>1, <2>2
<1>3. PICK i \in Nat, j \in Nat : i = k \div 2 /\ j = k - k \div 2 /\ i + j = k
    BY HalvesAre
<1>4. PICK a \in Seq(Shown) : a = Collected!Prefix(s, i) /\ Len(a) <= i
    BY PrefixIs
<1>5. PICK b \in Seq(Shown) : b = Collected!Suffix(t, j) /\ Len(b) <= j
    BY EndOf
<1>6. PICK c \in Seq(Shown) : c = a \o m /\ Len(c) = Len(a) + Len(m)
    BY JoinIs
<1>7. PICK d \in Seq(Shown) : d = c \o b /\ Len(d) = Len(c) + Len(b)
    BY JoinIs
<1>8. Len(d) <= budget
    BY <1>2, <1>3, <1>4, <1>5, <1>6, <1>7
<1> QED BY Zenon, <1>1, <1>2, <1>3, <1>4, <1>5, <1>6, <1>7, <1>8

LEMMA BoundedIs ==
    ASSUME NEW chars \in Seq(Shown), NEW budget \in Nat
    PROVE  Collected!Bounded(chars, budget) \in Seq(Shown) /\ Len(Collected!Bounded(chars, budget)) <= budget
<1> DEFINE kept == budget - Len(Collected!Marker(budget))
<1>1. CASE Len(chars) <= budget
    <2>1. Collected!Bounded(chars, budget) = chars
        BY Zenon, <1>1 DEF Collected!Bounded
    <2> QED BY <1>1, <2>1
<1>2. CASE ~(Len(chars) <= budget)
    <2>1. Collected!Bounded(chars, budget)
          = Collected!Prefix(chars, kept \div 2) \o Collected!Marker(budget) \o Collected!Suffix(chars, kept - kept \div 2)
        BY Zenon, <1>2 DEF Collected!Bounded
    <2> QED BY Zenon, <2>1, CutToFit
<1> QED BY <1>1, <1>2

(* It is cut out of a text without a match, and has none.                  *)
LEMMA PrefixBegins ==
    ASSUME NEW s \in Seq(Shown), NEW n \in Nat, Unmatched(s)
    PROVE  Unmatched(Collected!Prefix(s, n))
<1>1. PICK k \in Nat : k = (IF n < Len(s) THEN n ELSE Len(s)) /\ k <= Len(s)
    OBVIOUS
<1>2. Collected!Prefix(s, n) = SubSeq(s, 1, k)
    BY Zenon, <1>1 DEF Collected!Prefix
<1>3. PICK a \in Seq(Shown), z \in Seq(Shown) : a = SubSeq(s, 1, k) /\ s = a \o z
    <2>1. SubSeq(s, 1, k) \in Seq(Shown)
        BY <1>1
    <2>2. Collected!Drop(s, k) \in Seq(Shown)
        BY <1>1, DropIs
    <2>3. s = SubSeq(s, 1, k) \o Collected!Drop(s, k)
        BY <1>1, CutJoins
    <2> QED BY <2>1, <2>2, <2>3
<1>4. Unmatched(a)
    <2>1. Unmatched(a \o z)
        BY Zenon, <1>3
    <2> QED BY <2>1, UnmatchedBefore
<1> QED BY Zenon, <1>2, <1>3, <1>4

LEMMA SuffixEnds ==
    ASSUME NEW s \in Seq(Shown), NEW n \in Nat, Unmatched(s)
    PROVE  Unmatched(Collected!Suffix(s, n))
<1>1. PICK m \in Nat : m <= Len(s) /\ m + 1 = (IF n < Len(s) THEN Len(s) - n + 1 ELSE 1)
    <2>1. CASE n < Len(s)
        <3>1. Len(s) - n \in Nat /\ Len(s) - n <= Len(s)
            BY <2>1
        <3> QED BY <2>1, <3>1
    <2>2. CASE ~(n < Len(s))
        BY <2>2
    <2> QED BY <2>1, <2>2
<1>2. Collected!Suffix(s, n) = Collected!Drop(s, m)
    BY Zenon, <1>1 DEF Collected!Suffix, Collected!Drop
<1>3. PICK a \in Seq(Shown), z \in Seq(Shown) : z = Collected!Drop(s, m) /\ s = a \o z
    <2>1. SubSeq(s, 1, m) \in Seq(Shown)
        BY <1>1
    <2>2. Collected!Drop(s, m) \in Seq(Shown)
        BY <1>1, DropIs
    <2>3. s = SubSeq(s, 1, m) \o Collected!Drop(s, m)
        BY <1>1, CutJoins
    <2> QED BY <2>1, <2>2, <2>3
<1>4. Unmatched(z)
    <2>1. Unmatched(a \o z)
        BY Zenon, <1>3
    <2> QED BY <2>1, UnmatchedMoves
<1> QED BY Zenon, <1>2, <1>3, <1>4

LEMMA CutIsHidden ==
    ASSUME NEW a \in Seq(Shown), NEW b \in Seq(Shown), Unmatched(a), Unmatched(b)
    PROVE  Unmatched(a \o <<"~">> \o b)
<1>1. PICK m \in Seq(Shown) : m = <<"~">> /\ Len(m) = 1 /\ m[1] = "~"
    <2>1. PICK c \in Shown : c = "~"
        BY ShownMarks
    <2>2. <<c>> \in Seq(Shown) /\ Len(<<c>>) = 1
        OBVIOUS
    <2>3. PICK m : m = <<c>>
        OBVIOUS
    <2>4. m[1] = c
        BY <2>3
    <2> QED BY Zenon, <2>1, <2>2, <2>3, <2>4
<1>2. PICK u \in Seq(Shown), n \in Nat :
          u = a \o m /\ n = Len(a) /\ Len(u) = n + 1 /\ u[n + 1] = "~"
    <2>1. /\ a \o m \in Seq(Shown) /\ Len(a \o m) = Len(a) + 1
          /\ (a \o m)[Len(a) + 1] = m[1] /\ Len(a) \in Nat
        BY <1>1
    <2> QED BY <1>1, <2>1
<1>3. PICK s \in Seq(Shown) : s = u \o b /\ s[n + 1] \notin Alphabet
    <2>1. u \o b \in Seq(Shown)
        BY JoinIs
    <2>2. (u \o b)[n + 1] = u[n + 1]
        BY <1>2
    <2> QED BY <1>2, <2>1, <2>2, MarkIsNot
<1>4. ASSUME NEW q \in Nat, NEW w \in Secrets, Match(s, q, w) PROVE FALSE
    <2>1. Len(w) \in Nat /\ Len(w) > 0 /\ q > 0
        BY <1>4, MatchIs
    <2>2. PICK i \in Nat : i = n + 1
        BY <1>2
    <2>3. ~(q <= i /\ i <= q + Len(w) - 1)
        BY <1>3, <1>4, <2>2, MatchIsWritten
    <2>4. CASE q + Len(w) - 1 <= n
        <3>1. PICK t \in Seq(Shown) : t = m \o b
            BY Joining
        <3>2. Rejoins(a, m, b)
            BY Zenon, JoinsOn
        <3>3. Match(a \o t, q, w)
            BY Zenon, <1>2, <1>3, <1>4, <3>1, <3>2 DEF Rejoins
        <3>4. q + Len(w) - 1 <= Len(a)
            BY <1>2, <2>4
        <3>5. Match(a, q, w)
            BY <3>3, <3>4, MatchWithin
        <3> QED BY <3>5 DEF Unmatched
    <2>5. CASE ~(q + Len(w) - 1 <= n)
        <3>1. PICK p \in Nat : p > 0 /\ q = Len(u) + p
            <4>1. q - (n + 1) \in Nat /\ q - (n + 1) > 0 /\ q = (n + 1) + (q - (n + 1))
                BY <2>1, <2>2, <2>3, <2>5
            <4> QED BY <1>2, <4>1
        <3>2. p > 0 /\ Match(u \o b, Len(u) + p, w)
            BY Zenon, <1>3, <1>4, <3>1
        <3>3. Match(b, p, w)
            BY <3>2, MatchMovesBack
        <3> QED BY <3>3 DEF Unmatched
    <2> QED BY <2>4, <2>5
<1>5. Unmatched(s)
    BY <1>4 DEF Unmatched
<1> QED BY Zenon, <1>1, <1>2, <1>3, <1>5

LEMMA BoundedIsHidden ==
    ASSUME NEW s \in Seq(Shown), Unmatched(s), NEW budget \in Nat, budget >= 3
    PROVE  Unmatched(Collected!Bounded(s, budget))
<1> DEFINE kept == budget - Len(Collected!Marker(budget))
<1>1. Collected!Marker(budget) = <<"~">>
    BY Zenon DEF Collected!Marker
<1>2. PICK i \in Nat, j \in Nat : i = kept \div 2 /\ j = kept - kept \div 2
    <2>0. \A c : Len(<<c>>) = 1
        OBVIOUS
    <2>1. PICK m : m = <<"~">> /\ Len(m) = 1
        BY Zenon, <2>0
    <2>2. Len(Collected!Marker(budget)) = 1
        BY Zenon, <1>1, <2>1
    <2>3. kept \in Nat
        BY <2>2
    <2> HIDE DEF kept
    <2> QED BY <2>3, HalvesAre
<1>3. PICK a \in Seq(Shown), b \in Seq(Shown) :
          /\ a = Collected!Prefix(s, i) /\ b = Collected!Suffix(s, j)
          /\ Unmatched(a) /\ Unmatched(b)
    <2>1. Collected!Prefix(s, i) \in Seq(Shown) /\ Unmatched(Collected!Prefix(s, i))
        BY PrefixIs, PrefixBegins
    <2>2. Collected!Suffix(s, j) \in Seq(Shown) /\ Unmatched(Collected!Suffix(s, j))
        BY EndOf, SuffixEnds
    <2> QED BY <2>1, <2>2
<1>4. Unmatched(a \o <<"~">> \o b)
    BY <1>3, CutIsHidden
<1> QED BY Zenon, <1>1, <1>2, <1>3, <1>4 DEF Collected!Bounded

LEMMA PreviewIs ==
    ASSUME NEW w \in Windows, NEW budget \in Nat
    PROVE  Collected!Preview(w, budget) \in Seq(Shown)
<1> DEFINE kept == budget - Len(Collected!Marker(budget))
<1>1. w.head \in Seq(Alphabet) /\ w.tail \in Seq(Alphabet)
    BY DEF Windows
<1>2. PICK h \in Seq(Shown), t \in Seq(Shown) : h = w.head /\ t = w.tail
    BY <1>1, ShownMarks, SeqMonotonic
<1>3. CASE w.total <= budget
    <2>1. Collected!Preview(w, budget) = h \o t
        BY Zenon, <1>2, <1>3 DEF Collected!Preview
    <2>2. h \o t \in Seq(Shown)
        BY JoinIs
    <2> QED BY Zenon, <2>1, <2>2
<1>4. CASE ~(w.total <= budget)
    <2>1. Collected!Preview(w, budget) = Collected!Prefix(h, kept \div 2) \o Collected!Marker(budget) \o Collected!Suffix(t, kept - kept \div 2)
        BY Zenon, <1>2, <1>4 DEF Collected!Preview
    <2> QED BY Zenon, <2>1, CutToFit
<1> QED BY <1>3, <1>4

LEMMA ShareIs ==
    ASSUME NEW n \in Nat, NEW o \in Nat, NEW e \in Nat, e > 0
    PROVE  (n * o) \div (o + e) \in Nat /\ (n * o) \div (o + e) <= n
<1>1. PICK q \in Nat : q = (n * o) \div (o + e) /\ (o + e) * q <= n * o
    <2>1. PICK d \in Nat, p \in Nat : d = o + e /\ d > 0 /\ p = n * o
        OBVIOUS
    <2>2. p \div d \in Nat /\ d * (p \div d) <= p
        BY <2>1
    <2> QED BY <2>1, <2>2
<1>2. ASSUME q > n PROVE FALSE
    <2>1. PICK a \in Nat : q = n + 1 + a
        <3>1. q - n - 1 \in Nat /\ q = n + 1 + (q - n - 1)
            BY <1>2
        <3> QED BY <3>1
    <2>2. (o + e) * (n + 1 + a) = n * o + e * n + (o + e) + (o + e) * a
        OBVIOUS
    <2>3. e * n \in Nat /\ (o + e) * a \in Nat /\ n * o \in Nat
        OBVIOUS
    <2>4. (o + e) * (n + 1 + a) > n * o
        BY <2>2, <2>3
    <2>5. (o + e) * (n + 1 + a) <= n * o
        BY <1>1, <2>1
    <2> QED BY <2>3, <2>4, <2>5
<1> QED BY <1>1, <1>2

-----------------------------------------------------------------------------
(* The collector.                                                          *)
OutTypes ==
    /\ written \in [Collected!Streams -> Seq(Alphabet)]
    /\ raw \in [Collected!Streams -> Windows]
    /\ cleaner \in [Collected!Streams -> Cleaners]
    /\ buffer \in [Collected!Streams -> Seq(Shown)]
    /\ shown \in [Collected!Streams -> Seq(Shown)]
    /\ closed \in [Collected!Streams -> BOOLEAN]
    /\ exceeded \in BOOLEAN /\ signals \in Nat
Counted ==
    \A s \in Collected!Streams : raw[s].total = Len(written[s]) /\ Len(raw[s].head) <= Collected!HeadLimit
Signalled ==
    /\ exceeded <=> Collected!Written > MaxOutput
    /\ signals = IF exceeded THEN 1 ELSE 0
Shows(s) == shown[s] = ShownOf(written[s]) /\ buffer[s] = HeldOf(written[s])
Follow(s) ==
    /\ cleaner[s] = Emptied(Came(written[s]))
    /\ Collected!ValuesApart => Shows(s)
Complete(s) == Collected!ValuesApart => shown[s] = Finished(written[s])
Whatever == \A s \in Collected!Streams : IF closed[s] THEN Complete(s) ELSE Follow(s)
Hidden == \A s \in Collected!Streams : IF closed[s] THEN Unmatched(shown[s]) ELSE Sealed(shown[s], buffer[s])

OutInv == OutTypes /\ Counted /\ Signalled /\ Whatever /\ Hidden

LEMMA StreamsAre == "stdout" \in Collected!Streams /\ "stderr" \in Collected!Streams /\ "stdout" # "stderr"
BY DEF Collected!Streams

LEMMA ShownWritten == Seq(Alphabet) \subseteq Seq(Shown)
BY ShownMarks, SeqMonotonic

LEMMA WrittenIs ==
    ASSUME OutTypes
    PROVE  /\ Len(written["stdout"]) \in Nat /\ Len(written["stderr"]) \in Nat
           /\ Collected!Written = Len(written["stdout"]) + Len(written["stderr"])
           /\ Collected!Written \in Nat
<1>1. written["stdout"] \in Seq(Alphabet) /\ written["stderr"] \in Seq(Alphabet)
    BY StreamsAre DEF OutTypes
<1>2. PICK a \in Seq(Alphabet), b \in Seq(Alphabet) : a = written["stdout"] /\ b = written["stderr"]
    BY <1>1
<1>3. Len(a) \in Nat /\ Len(b) \in Nat /\ Len(a) + Len(b) \in Nat
    OBVIOUS
<1> QED BY Zenon, <1>2, <1>3 DEF Collected!Written

LEMMA OutStarts ==
    ASSUME Collected!Init
    PROVE  OutInv
<1> USE DEF Collected!Init
<1>1. PICK n \in Seq(Shown) : n = <<>> /\ Len(n) = 0 /\ n \in Seq(Alphabet)
    <2>1. <<>> \in Seq(Alphabet)
        OBVIOUS
    <2> QED BY <2>1, NoneIs
<1>2. PICK w : w = [total |-> 0, head |-> <<>>, tail |-> <<>>] /\ w \in Windows /\ w.total = 0 /\ w.head = n
    <2>1. PICK w : w = [total |-> 0, head |-> n, tail |-> n]
        OBVIOUS
    <2>2. w \in Windows /\ w.total = 0 /\ w.head = n
        BY <1>1, <2>1 DEF Windows
    <2> QED BY Zenon, <1>1, <2>1, <2>2
<1>3. /\ written = [s \in Collected!Streams |-> n]
      /\ buffer = [s \in Collected!Streams |-> n] /\ shown = [s \in Collected!Streams |-> n]
    BY Zenon, <1>1
<1>4. raw = [s \in Collected!Streams |-> w]
    BY Zenon, <1>2
<1>5. OutTypes
    <2>1. raw \in [Collected!Streams -> Windows]
        BY <1>2, <1>4
    <2>2. /\ written \in [Collected!Streams -> Seq(Alphabet)]
          /\ buffer \in [Collected!Streams -> Seq(Shown)]
          /\ shown \in [Collected!Streams -> Seq(Shown)]
        BY <1>1, <1>3
    <2>3. cleaner \in [Collected!Streams -> Cleaners]
        BY CleanIs
    <2>4. closed \in [Collected!Streams -> BOOLEAN]
        OBVIOUS
    <2>5. exceeded \in BOOLEAN /\ signals \in Nat
        OBVIOUS
    <2> QED BY <2>1, <2>2, <2>3, <2>4, <2>5 DEF OutTypes
<1>6. Counted
    <2>1. ASSUME NEW s \in Collected!Streams PROVE raw[s].total = Len(written[s]) /\ Len(raw[s].head) <= Collected!HeadLimit
        <3>1. raw[s] = w /\ written[s] = n
            BY <1>3, <1>4
        <3>2. Len(n) <= Collected!HeadLimit
            BY <1>1, LimitsAre
        <3> QED BY Zenon, <1>1, <1>2, <3>1, <3>2
    <2> QED BY <2>1 DEF Counted
<1>7. Signalled
    <2>1. written["stdout"] = n /\ written["stderr"] = n
        BY <1>3, StreamsAre
    <2>2. Collected!Written = 0
        <3>1. Collected!Written = Len(n) + Len(n)
            BY Zenon, <2>1 DEF Collected!Written
        <3> QED BY <1>1, <3>1
    <2>3. ~(Collected!Written > MaxOutput)
        BY <2>2, OutputAssumption
    <2>4. ~exceeded /\ signals = 0
        OBVIOUS
    <2> QED BY Zenon, <2>3, <2>4 DEF Signalled
<1>8. Whatever
    <2>1. ASSUME NEW s \in Collected!Streams PROVE ~closed[s] /\ Follow(s)
        <3>1. cleaner[s] = Collected!Clean /\ ~closed[s]
            OBVIOUS
        <3>2. written[s] = n /\ buffer[s] = n /\ shown[s] = n
            BY <1>3
        <3> QED BY Zenon, <1>1, <3>1, <3>2, NothingCame DEF Follow, Shows
    <2> QED BY Zenon, <2>1 DEF Whatever
<1>9. Hidden
    <2>1. ASSUME NEW s \in Collected!Streams PROVE ~closed[s] /\ Sealed(shown[s], buffer[s])
        <3>1. buffer[s] = n /\ shown[s] = n
            BY <1>3
        <3>2. Sealed(n, n)
            BY <1>1, NothingSealed
        <3> QED BY <3>1, <3>2
    <2> QED BY Zenon, <2>1 DEF Hidden
<1> QED BY <1>5, <1>6, <1>7, <1>8, <1>9 DEF OutInv

LEMMA ChunkIs ==
    ASSUME NEW chunk \in Collected!Chunks
    PROVE  chunk \in Seq(Alphabet)
<1>1. PICK n \in 1..MaxChunk : chunk \in [1..n -> Alphabet]
    BY DEF Collected!Chunks
<1> QED BY <1>1

(* The actions.                                                            *)
LEMMA FeedParts ==
    ASSUME OutInv, NEW s \in Collected!Streams, NEW chunk \in Collected!Chunks, Collected!Feed(s, chunk)
    PROVE  /\ ~closed[s] /\ UNCHANGED closed
           /\ written' = [written EXCEPT ![s] = written[s] \o chunk]
           /\ raw' = [raw EXCEPT ![s] = Collected!Retained(raw[s], chunk)]
           /\ cleaner' = [cleaner EXCEPT ![s] = [Collected!Cleaned(cleaner[s], chunk) EXCEPT !.out = <<>>]]
           /\ buffer' = [buffer EXCEPT ![s] =
                            Collected!Redacted(buffer[s] \o Collected!Cleaned(cleaner[s], chunk).out, FALSE).kept]
           /\ shown' = [shown EXCEPT ![s] = shown[s] \o
                            Collected!Redacted(buffer[s] \o Collected!Cleaned(cleaner[s], chunk).out, FALSE).text]
           /\ exceeded' = (exceeded \/ Collected!Written + Len(chunk) > MaxOutput)
           /\ signals' = IF Collected!Written + Len(chunk) > MaxOutput /\ ~exceeded THEN signals + 1 ELSE signals
BY Zenon DEF Collected!Feed

LEMMA FeedRetains ==
    ASSUME OutInv, NEW s \in Collected!Streams, NEW chunk \in Collected!Chunks, Collected!Feed(s, chunk)
    PROVE  OutInv'
<1>0. OutTypes /\ Counted /\ Signalled /\ Whatever /\ Hidden
    BY DEF OutInv
<1>1. PICK w \in Seq(Alphabet), k \in Seq(Alphabet) : w = written[s] /\ k = chunk
    BY <1>0, ChunkIs DEF OutTypes
<1>2. PICK x \in Seq(Alphabet) : x = w \o k /\ Len(x) = Len(w) + Len(k)
    BY JoinIs
<1>3. w \in Seq(Shown) /\ k \in Seq(Shown) /\ x \in Seq(Shown)
    BY ShownWritten
<1>4. ~closed[s]
    BY Zenon, FeedParts
<1>5. /\ cleaner[s] = Emptied(Came(w))
      /\ Collected!ValuesApart => shown[s] = ShownOf(w) /\ buffer[s] = HeldOf(w)
    BY Zenon, <1>0, <1>1, <1>4 DEF Whatever, Follow, Shows
<1>6. PICK c \in Cleaners : c = Collected!Cleaned(cleaner[s], chunk) /\ c.out \in Seq(Shown) /\ Emptied(c) \in Cleaners
    <2>1. PICK d \in Cleaners : d = cleaner[s]
        BY <1>0 DEF OutTypes
    <2>2. Collected!Cleaned(d, k) \in Cleaners
        BY <1>3, CleanedTypes
    <2>3. PICK c \in Cleaners : c = Collected!Cleaned(d, k)
        BY <2>2
    <2>4. c.out \in Seq(Shown) /\ Emptied(c) \in Cleaners
        BY CleanersAre, EmptiedIs
    <2> QED BY Zenon, <1>1, <2>1, <2>3, <2>4
<1>7. PICK no : no = FALSE
    OBVIOUS
<1>8. PICK r \in Redactions : r = Collected!Redacted(buffer[s] \o c.out, no) /\ r.text \in Seq(Shown) /\ r.kept \in Seq(Shown)
    <2>1. PICK b \in Seq(Shown), e \in Seq(Shown) : b = buffer[s] /\ e = c.out
        BY <1>0, <1>6 DEF OutTypes
    <2>2. PICK z \in Seq(Shown) : z = b \o e
        BY JoinIs
    <2>3. PICK r \in Redactions : r = Collected!Redacted(z, no) /\ r.text \in Seq(Shown) /\ r.kept \in Seq(Shown)
        BY RedactedTypes
    <2> QED BY Zenon, <2>1, <2>2, <2>3
<1>9. /\ Emptied(Came(x)) = Emptied(c)
      /\ Collected!ValuesApart => ShownOf(x) = ShownOf(w) \o r.text /\ HeldOf(x) = r.kept
    <2>1. c = Collected!Cleaned(Emptied(Came(w)), k)
        BY Zenon, <1>1, <1>5, <1>6
    <2>2. Collected!ValuesApart => r = Held(HeldOf(w) \o c.out)
        BY Zenon, <1>5, <1>7, <1>8 DEF Held
    <2>3. PICK h : h = Held(HeldOf(w) \o c.out)
        OBVIOUS
    <2>4. Comes(w, k, c, h)
        BY Zenon, <1>3, <2>1, <2>3, MoreCame
    <2> QED BY Zenon, <1>2, <2>2, <2>3, <2>4 DEF Emptied, Comes
<1>10. PICK u \in Seq(Shown) : u = shown[s] \o r.text
    <2>1. PICK t \in Seq(Shown), y \in Seq(Shown) : t = shown[s] /\ y = r.text
        BY <1>0, <1>8 DEF OutTypes
    <2>2. t \o y \in Seq(Shown)
        BY JoinIs
    <2> QED BY Zenon, <2>1, <2>2
<1>11. PICK a \in Windows : a = Collected!Retained(raw[s], chunk) /\ a.total = Len(x) /\ Len(a.head) <= Collected!HeadLimit
    <2>1. PICK v \in Windows : v = raw[s] /\ v.total = Len(w) /\ Len(v.head) <= Collected!HeadLimit
        BY <1>0, <1>1 DEF OutTypes, Counted
    <2>2. /\ Collected!Retained(v, k) \in Windows
          /\ Collected!Retained(v, k).total = v.total + Len(k)
          /\ Len(Collected!Retained(v, k).head) <= Collected!HeadLimit
        BY <2>1, RetainedIs
    <2> QED BY Zenon, <1>1, <1>2, <2>1, <2>2
<1>12. /\ written' = [written EXCEPT ![s] = x]
       /\ raw' = [raw EXCEPT ![s] = a]
       /\ cleaner' = [cleaner EXCEPT ![s] = Emptied(c)]
       /\ buffer' = [buffer EXCEPT ![s] = r.kept]
       /\ shown' = [shown EXCEPT ![s] = u]
       /\ closed' = closed
    BY Zenon, <1>1, <1>2, <1>6, <1>7, <1>8, <1>10, <1>11, FeedParts DEF Emptied
<1>13. ASSUME NEW q \in Collected!Streams
       PROVE  /\ closed'[q] = closed[q]
              /\ q = s => /\ written'[q] = x /\ raw'[q] = a /\ cleaner'[q] = Emptied(c)
                          /\ buffer'[q] = r.kept /\ shown'[q] = u
              /\ q # s => /\ written'[q] = written[q] /\ raw'[q] = raw[q] /\ cleaner'[q] = cleaner[q]
                          /\ buffer'[q] = buffer[q] /\ shown'[q] = shown[q]
    BY <1>0, <1>12 DEF OutTypes
<1>14. Collected!Written' = Collected!Written + Len(k)
    <2>1. CASE s = "stdout"
        <3>1. /\ written'["stdout"] = x /\ written'["stderr"] = written["stderr"]
              /\ written["stdout"] = w
            BY Zenon, <1>1, <1>13, <2>1, StreamsAre
        <3>2. /\ Collected!Written' = Len(x) + Len(written["stderr"])
              /\ Collected!Written = Len(w) + Len(written["stderr"])
            BY Zenon, <3>1 DEF Collected!Written
        <3>3. PICK n \in Nat : n = Len(written["stderr"])
            BY <1>0, WrittenIs
        <3>4. Collected!Written' = Len(x) + n /\ Collected!Written = Len(w) + n
            <4>1. n + Len(x) = Len(x) + n /\ n + Len(w) = Len(w) + n
                OBVIOUS
            <4> QED BY Zenon, <3>2, <3>3, <4>1
        <3> QED BY <1>2, <3>4
    <2>2. CASE s = "stderr"
        <3>1. /\ written'["stderr"] = x /\ written'["stdout"] = written["stdout"]
              /\ written["stderr"] = w
            BY Zenon, <1>1, <1>13, <2>2, StreamsAre
        <3>2. /\ Collected!Written' = Len(written["stdout"]) + Len(x)
              /\ Collected!Written = Len(written["stdout"]) + Len(w)
            BY Zenon, <3>1 DEF Collected!Written
        <3>3. PICK n \in Nat : n = Len(written["stdout"])
            BY <1>0, WrittenIs
        <3>4. Collected!Written' = Len(x) + n /\ Collected!Written = Len(w) + n
            <4>1. n + Len(x) = Len(x) + n /\ n + Len(w) = Len(w) + n
                OBVIOUS
            <4> QED BY Zenon, <3>2, <3>3, <4>1
        <3> QED BY <1>2, <3>4
    <2> QED BY <2>1, <2>2 DEF Collected!Streams
<1>15. PICK n \in Nat, l \in Nat : n = Collected!Written /\ l = Len(k) /\ Collected!Written' = n + l
    <2>1. Collected!Written \in Nat
        BY <1>0, WrittenIs
    <2>2. Len(k) \in Nat
        OBVIOUS
    <2> QED BY Zenon, <1>14, <2>1, <2>2
<1>16. exceeded' <=> exceeded \/ n + l > MaxOutput
    BY Zenon, <1>0, <1>1, <1>15, FeedParts DEF OutTypes
<1>17. signals' = IF n + l > MaxOutput /\ ~exceeded THEN signals + 1 ELSE signals
    BY Zenon, <1>1, <1>15, FeedParts
<1>18. Signalled'
    <2>1. (exceeded <=> n > MaxOutput) /\ signals = IF exceeded THEN 1 ELSE 0
        BY Zenon, <1>0, <1>15 DEF Signalled
    <2>2. n > MaxOutput => n + l > MaxOutput
        BY OutputAssumption
    <2>3. exceeded' <=> Collected!Written' > MaxOutput
        BY Zenon, <1>15, <1>16, <2>1, <2>2
    <2>4. 0 + 1 = 1
        OBVIOUS
    <2>5. signals' = IF exceeded' THEN 1 ELSE 0
        BY Zenon, <1>16, <1>17, <2>1, <2>4
    <2> QED BY Zenon, <2>3, <2>5 DEF Signalled
<1>19. OutTypes'
    <2>1. /\ written' \in [Collected!Streams -> Seq(Alphabet)]
          /\ raw' \in [Collected!Streams -> Windows]
          /\ cleaner' \in [Collected!Streams -> Cleaners]
          /\ buffer' \in [Collected!Streams -> Seq(Shown)]
          /\ shown' \in [Collected!Streams -> Seq(Shown)]
          /\ closed' \in [Collected!Streams -> BOOLEAN]
        BY <1>0, <1>6, <1>8, <1>12 DEF OutTypes
    <2>2. exceeded' \in BOOLEAN
        BY Zenon, FeedParts
    <2>3. signals' \in Nat
        <3>1. signals' = signals + 1 \/ signals' = signals
            BY Zenon, <1>17
        <3> QED BY <1>0, <3>1 DEF OutTypes
    <2> QED BY Zenon, <2>1, <2>2, <2>3 DEF OutTypes
<1>20. Counted'
    <2>1. ASSUME NEW q \in Collected!Streams PROVE raw'[q].total = Len(written'[q]) /\ Len(raw'[q].head) <= Collected!HeadLimit
        <3>1. CASE q = s
            BY Zenon, <1>11, <1>13, <3>1
        <3>2. CASE q # s
            BY Zenon, <1>0, <1>13, <3>2 DEF Counted
        <3> QED BY <3>1, <3>2
    <2> QED BY Zenon, <2>1 DEF Counted, Collected!HeadLimit
<1>21. Whatever'
    <2>1. ASSUME NEW q \in Collected!Streams
          PROVE  IF closed'[q] THEN Complete(q)' ELSE Follow(q)'
        <3>1. CASE q = s
            <4>1. ~closed'[q]
                BY Zenon, <1>4, <1>13, <3>1
            <4>2. Follow(q)'
                BY Zenon, <1>5, <1>9, <1>10, <1>13, <3>1 DEF Follow, Shows, Collected!ValuesApart, Collected!At
            <4> QED BY Zenon, <4>1, <4>2
        <3>2. CASE q # s
            <4>1. IF closed[q] THEN Complete(q) ELSE Follow(q)
                BY Zenon, <1>0 DEF Whatever
            <4> QED BY Zenon, <1>13, <3>2, <4>1 DEF Follow, Shows, Complete, Collected!ValuesApart, Collected!At
        <3> QED BY <3>1, <3>2
    <2> QED BY Zenon, <2>1 DEF Whatever
<1>22. Hidden'
    <2>1. PICK t \in Seq(Shown), b \in Seq(Shown), o \in Seq(Shown) :
              t = shown[s] /\ b = buffer[s] /\ o = c.out
        BY <1>0, <1>6 DEF OutTypes
    <2>2. Sealed(t, b)
        BY Zenon, <1>0, <1>4, <2>1 DEF Hidden
    <2>3. Sealed(t \o r.text, r.kept)
        <3>1. no \in BOOLEAN /\ ~no
            BY <1>7
        <3>2. r = Collected!Redacted(b \o o, no)
            BY Zenon, <1>8, <2>1
        <3> QED BY <2>2, <3>1, <3>2, StaysSealed
    <2>4. ASSUME NEW q \in Collected!Streams
          PROVE  IF closed'[q] THEN Unmatched(shown'[q]) ELSE Sealed(shown'[q], buffer'[q])
        <3>1. CASE q = s
            <4>1. ~closed'[q] /\ Sealed(shown'[q], buffer'[q])
                BY Zenon, <1>4, <1>10, <1>13, <2>1, <2>3, <3>1
            <4> QED BY Zenon, <4>1
        <3>2. CASE q # s
            BY Zenon, <1>0, <1>13, <3>2 DEF Hidden
        <3> QED BY <3>1, <3>2
    <2> QED BY Zenon, <2>4 DEF Hidden, Sealed, Unmatched, Match, Begun
<1> QED BY <1>18, <1>19, <1>20, <1>21, <1>22 DEF OutInv

LEMMA CloseParts ==
    ASSUME NEW s \in Collected!Streams, Collected!Close(s)
    PROVE  /\ ~closed[s] /\ closed' = [closed EXCEPT ![s] = TRUE]
           /\ shown' = [shown EXCEPT ![s] =
                            shown[s] \o Collected!Redacted(buffer[s] \o Collected!Flushed(cleaner[s]), TRUE).text]
           /\ buffer' = [buffer EXCEPT ![s] = <<>>]
           /\ cleaner' = [cleaner EXCEPT ![s] = Collected!Clean]
           /\ written' = written /\ raw' = raw /\ exceeded' = exceeded
           /\ signals' = signals
BY Zenon DEF Collected!Close

LEMMA CloseKeeps ==
    ASSUME OutInv, NEW s \in Collected!Streams, Collected!Close(s)
    PROVE  OutInv'
<1>0. OutTypes /\ Counted /\ Signalled /\ Whatever /\ Hidden
    BY DEF OutInv
<1>1. PICK w \in Seq(Shown) : w = written[s]
    BY <1>0, ShownWritten DEF OutTypes
<1>2. /\ cleaner[s] = Emptied(Came(w))
      /\ Collected!ValuesApart => shown[s] = ShownOf(w) /\ buffer[s] = HeldOf(w)
    BY Zenon, <1>0, <1>1, CloseParts DEF Whatever, Follow, Shows
<1>3. PICK u \in Seq(Shown) :
          /\ shown[s] \o Collected!Redacted(buffer[s] \o Collected!Flushed(cleaner[s]), TRUE).text = u
          /\ Unmatched(u)
    <2>1. PICK t \in Seq(Shown), b \in Seq(Shown), f \in Seq(Shown), yes \in BOOLEAN :
              t = shown[s] /\ b = buffer[s] /\ f = Collected!Flushed(cleaner[s]) /\ yes = TRUE
        <3>1. PICK d \in Cleaners : d = cleaner[s]
            BY <1>0 DEF OutTypes
        <3>2. Collected!Flushed(d) \in Seq(Shown)
            BY FlushedIs
        <3>3. shown[s] \in Seq(Shown) /\ buffer[s] \in Seq(Shown)
            BY <1>0 DEF OutTypes
        <3>4. TRUE \in BOOLEAN
            OBVIOUS
        <3> QED BY Zenon, <3>1, <3>2, <3>3, <3>4
    <2>2. Sealed(t, b)
        BY Zenon, <1>0, <2>1, CloseParts DEF Hidden
    <2>3. PICK z \in Seq(Shown) : z = b \o f
        BY Joining
    <2>4. PICK r \in Redactions : r = Collected!Redacted(z, yes) /\ r.text \in Seq(Shown)
        BY RedactedTypes
    <2>5. PICK o \in Seq(Shown) : o = r.text
        BY <2>4
    <2>6. PICK u \in Seq(Shown) : u = t \o o
        BY Joining
    <2>7. Unmatched(t \o r.text)
        <3>1. r = Collected!Redacted(b \o f, yes)
            BY Zenon, <2>3, <2>4
        <3> QED BY <2>2, <3>1, StaysSealed
    <2> QED BY Zenon, <2>1, <2>3, <2>4, <2>5, <2>6, <2>7
<1>4. Collected!ValuesApart => u = Finished(w)
    <2>1. Collected!ValuesApart =>
             Finished(w) = ShownOf(w) \o Collected!Redacted(HeldOf(w) \o Collected!Flushed(Emptied(Came(w))), TRUE).text
        BY AllCame
    <2> QED BY Zenon, <1>2, <1>3, <2>1
<1>5. PICK n \in Seq(Shown), c \in Cleaners, yes \in BOOLEAN : n = <<>> /\ c = Collected!Clean /\ yes = TRUE
    <2>1. TRUE \in BOOLEAN
        OBVIOUS
    <2> QED BY Zenon, <2>1, NoneIs, CleanIs
<1>6. /\ closed' = [closed EXCEPT ![s] = yes] /\ shown' = [shown EXCEPT ![s] = u]
      /\ buffer' = [buffer EXCEPT ![s] = n] /\ cleaner' = [cleaner EXCEPT ![s] = c]
    BY Zenon, <1>3, <1>5, CloseParts
<1>7. written' = written /\ raw' = raw /\ exceeded' = exceeded /\ signals' = signals
    BY Zenon, CloseParts
<1>8. ASSUME NEW q \in Collected!Streams
      PROVE  /\ q = s => closed'[q] = yes /\ shown'[q] = u
             /\ q # s => /\ closed'[q] = closed[q] /\ shown'[q] = shown[q]
                         /\ buffer'[q] = buffer[q] /\ cleaner'[q] = cleaner[q]
    BY <1>0, <1>6 DEF OutTypes
<1>9. OutTypes'
    BY <1>0, <1>6, <1>7 DEF OutTypes
<1>10. Counted'
    BY Zenon, <1>0, <1>7 DEF Counted, Collected!HeadLimit
<1>11. Signalled'
    BY Zenon, <1>0, <1>7 DEF Signalled, Collected!Written
<1>12. Whatever'
    <2>1. ASSUME NEW q \in Collected!Streams
          PROVE  IF closed'[q] THEN Complete(q)' ELSE Follow(q)'
        <3>1. CASE q = s
            <4>1. closed'[q] /\ Complete(q)'
                BY Zenon, <1>1, <1>4, <1>5, <1>7, <1>8, <3>1 DEF Complete, Collected!ValuesApart, Collected!At
            <4> QED BY Zenon, <4>1
        <3>2. CASE q # s
            <4>1. IF closed[q] THEN Complete(q) ELSE Follow(q)
                BY Zenon, <1>0 DEF Whatever
            <4> QED BY Zenon, <1>7, <1>8, <3>2, <4>1 DEF Follow, Shows, Complete, Collected!ValuesApart, Collected!At
        <3> QED BY <3>1, <3>2
    <2> QED BY Zenon, <2>1 DEF Whatever
<1>13. Hidden'
    <2>1. ASSUME NEW q \in Collected!Streams
          PROVE  IF closed'[q] THEN Unmatched(shown'[q]) ELSE Sealed(shown'[q], buffer'[q])
        <3>1. CASE q = s
            <4>1. closed'[q] /\ Unmatched(shown'[q])
                BY Zenon, <1>3, <1>5, <1>8, <3>1
            <4> QED BY Zenon, <4>1
        <3>2. CASE q # s
            BY Zenon, <1>0, <1>8, <3>2 DEF Hidden
        <3> QED BY <3>1, <3>2
    <2> QED BY Zenon, <2>1 DEF Hidden, Sealed, Unmatched, Match, Begun
<1> QED BY <1>9, <1>10, <1>11, <1>12, <1>13 DEF OutInv

LEMMA OutMoves ==
    ASSUME OutInv, [Collected!Next]_(Collected!vars)
    PROVE  OutInv'
<1>1. ASSUME NEW s \in Collected!Streams, Collected!Close(s) PROVE OutInv'
    BY <1>1, CloseKeeps
<1>2. ASSUME NEW s \in Collected!Streams, NEW chunk \in Collected!Chunks, Collected!Feed(s, chunk) PROVE OutInv'
    BY <1>2, FeedRetains
<1>3. CASE UNCHANGED Collected!vars
    <2>1. OutTypes' /\ Counted' /\ Signalled' /\ Whatever' /\ Hidden'
        BY Zenon, <1>3
        DEF OutInv, Collected!vars, OutTypes, Counted, Signalled, Whatever, Follow, Shows, Complete,
            Hidden, Sealed, Unmatched, Match, Begun,
            Collected!Written, Collected!HeadLimit, Collected!ValuesApart, Collected!At
    <2> QED BY <2>1 DEF OutInv
<1> QED BY Zenon, <1>1, <1>2, <1>3 DEF Collected!Next

(* What is returned.                                                       *)
LEMMA BudgetsAre ==
    ASSUME OutInv
    PROVE  /\ Collected!Budget("stdout") \in Nat /\ Collected!Budget("stderr") \in Nat
           /\ Collected!Budget("stdout") + Collected!Budget("stderr") <= MaxReturn
<1>1. PICK o \in Nat, e \in Nat, n \in Nat :
        o = raw["stdout"].total /\ e = raw["stderr"].total /\ n = MaxReturn
    <2>1. raw["stdout"] \in Windows /\ raw["stderr"] \in Windows
        BY StreamsAre DEF OutInv, OutTypes
    <2>2. raw["stdout"].total \in Nat /\ raw["stderr"].total \in Nat
        BY <2>1 DEF Windows
    <2> QED BY <2>2, OutputAssumption
<1>2. PICK first \in Nat : first = (IF e = 0 THEN n ELSE (n * o) \div (o + e)) /\ first <= n
    <2>1. CASE e = 0
        BY <2>1
    <2>2. CASE ~(e = 0)
        <3>1. e > 0
            BY <2>2
        <3>2. (n * o) \div (o + e) \in Nat /\ (n * o) \div (o + e) <= n
            BY <3>1, ShareIs
        <3> QED BY Zenon, <2>2, <3>2
    <2> QED BY <2>1, <2>2
<1>3. Collected!Budget("stdout") = IF o = 0 THEN 0 ELSE first
    BY Zenon, <1>1, <1>2 DEF Collected!Budget
<1>4. Collected!Budget("stderr") = IF e = 0 THEN 0 ELSE n - first
    BY Zenon, <1>1, <1>2, StreamsAre DEF Collected!Budget
<1>5. PICK a \in Nat, b \in Nat : a = (IF o = 0 THEN 0 ELSE first) /\ b = (IF e = 0 THEN 0 ELSE n - first) /\ a + b <= n
    BY <1>2
<1> QED BY Zenon, <1>1, <1>3, <1>4, <1>5

LEMMA ReturnedIs ==
    ASSUME OutInv, NEW s \in Collected!Streams
    PROVE  /\ Collected!Returned(s) \in Seq(Shown) /\ Len(Collected!Returned(s)) <= Collected!Budget(s)
           /\ Len(Collected!Returned(s)) \in Nat
           /\ Collected!Budget(s) >= 3 => Unmatched(Collected!Returned(s))
<1>1. PICK b \in Nat : b = Collected!Budget(s)
    <2>1. Collected!Budget("stdout") \in Nat /\ Collected!Budget("stderr") \in Nat
        BY BudgetsAre
    <2> QED BY Zenon, <2>1 DEF Collected!Streams
<1>2. PICK w \in Windows : w = raw[s]
    BY DEF OutInv, OutTypes
<1>3. PICK t \in Seq(Shown) : t = Collected!Preview(w, b)
    BY PreviewIs
<1>4. PICK u \in Seq(Shown) : u = Finished(t)
    BY AllCame
<1>5. Collected!Bounded(u, b) \in Seq(Shown) /\ Len(Collected!Bounded(u, b)) <= b
    BY BoundedIs
<1>6. Collected!Returned(s) = Collected!Bounded(u, b)
    BY Zenon, <1>1, <1>2, <1>3, <1>4 DEF Collected!Returned, Finished, Came
<1>7. Len(Collected!Bounded(u, b)) \in Nat
    BY <1>5
<1>8. Unmatched(u)
    <2>1. PICK y \in Seq(Shown) : y = Collected!Flushed(Came(t))
        BY CameIs, FlushedIs
    <2>2. Unmatched(Collected!Redacted(y, TRUE).text)
        BY AllSealed
    <2> QED BY Zenon, <1>4, <2>1, <2>2 DEF Finished
<1>9. b >= 3 => Unmatched(Collected!Bounded(u, b))
    BY <1>8, BoundedIsHidden
<1> QED BY Zenon, <1>1, <1>5, <1>6, <1>7, <1>9

LEMMA OutIsRight ==
    ASSUME OutInv
    PROVE  Collected!ChunkingDoesNotMatter /\ Collected!NoValueIsShown /\ Collected!ReturnIsBounded
<1>1. Collected!ChunkingDoesNotMatter
    BY Zenon DEF OutInv, Whatever, Complete, Collected!ChunkingDoesNotMatter, Finished, Came
<1>6. Collected!NoValueIsShown
    <2>1. ASSUME NEW s \in Collected!Streams
          PROVE  /\ Collected!Matches(shown[s]) = {}
                 /\ Collected!Budget(s) >= 3 => Collected!Matches(Collected!Returned(s)) = {}
        <3>1. PICK t \in Seq(Shown), b \in Seq(Shown) : t = shown[s] /\ b = buffer[s]
            BY DEF OutInv, OutTypes
        <3>2. Unmatched(t)
            <4>1. Unmatched(t) \/ Unmatched(t \o b)
                BY Zenon, <3>1 DEF OutInv, Hidden, Sealed
            <4> QED BY <4>1, UnmatchedBefore
        <3>3. Collected!Matches(t) = {}
            BY <3>2, UnmatchedIs
        <3>4. PICK u \in Seq(Shown) :
                  u = Collected!Returned(s) /\ (Collected!Budget(s) >= 3 => Unmatched(u))
            BY Zenon, ReturnedIs
        <3>5. Unmatched(u) => Collected!Matches(u) = {}
            BY UnmatchedIs
        <3> QED BY Zenon, <3>1, <3>3, <3>4, <3>5
    <2> QED BY Zenon, <2>1 DEF Collected!NoValueIsShown
<1>2. PICK a \in Nat, b \in Nat, m \in Nat, n \in Nat :
        /\ a = Len(Collected!Returned("stdout"))
        /\ b = Len(Collected!Returned("stderr"))
        /\ m = Collected!Budget("stdout") /\ n = Collected!Budget("stderr") /\ a <= m
        /\ b <= n /\ m + n <= MaxReturn
    BY Zenon, BudgetsAre, ReturnedIs, StreamsAre
<1>3. a + b <= MaxReturn
    BY <1>2, OutputAssumption
<1>4. /\ (exceeded <=> Collected!Written > MaxOutput)
      /\ signals = IF exceeded THEN 1 ELSE 0
    BY DEF OutInv, Signalled
<1>5. signals <= 1
    BY <1>4
<1> QED BY Zenon, <1>1, <1>2, <1>3, <1>4, <1>5, <1>6 DEF Collected!ReturnIsBounded

(* NoValueIsShown, ChunkingDoesNotMatter and ReturnIsBounded of Output, for *)
(* any values to redact: none of them stands in what is shown or returned, *)
(* in whatever pieces it came; if none lies in another but at its end,     *)
(* what is shown of a finished stream is the redaction of all that was     *)
(* written; and the texts returned keep the budget.                        *)
THEOREM OutputArrives ==
    Collected!Spec =>
        [](Collected!ChunkingDoesNotMatter /\ Collected!NoValueIsShown /\ Collected!ReturnIsBounded)
<1>1. Collected!Init => OutInv
    BY OutStarts
<1>2. OutInv /\ [Collected!Next]_(Collected!vars) => OutInv'
    BY OutMoves
<1>3. OutInv => Collected!ChunkingDoesNotMatter /\ Collected!NoValueIsShown /\ Collected!ReturnIsBounded
    BY OutIsRight
<1> QED BY <1>1, <1>2, <1>3, PTL DEF Collected!Spec
=============================================================================
