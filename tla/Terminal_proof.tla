--------------------------- MODULE Terminal_proof ---------------------------
(* Proofs about Terminal, for all values of its constants. *)
EXTENDS Terminal, SequenceTheorems, FiniteSetTheorems, TLAPS

USE TerminalAssumption

(***************************************************************************)
(* A set of numbers that is not empty has a least one: the sets 0..t are   *)
(* finite, so that one of them has no other inside it.                     *)
(***************************************************************************)
LEMMA LeastNumber ==
  ASSUME NEW T \in SUBSET Nat, T # {}
  PROVE  \E m \in T : \A t \in T : m <= t
<1> DEFINE U == {0..t : t \in T}
           R == StrictSubsetOrdering(Nat)
           F == FiniteSubsetsOf(Nat)
<1>1. U \subseteq F /\ U # {}
  <2>1. ASSUME NEW t \in T PROVE 0..t \in F
    <3>1. IsFiniteSet(0..t)
      BY FS_Interval
    <3>2. 0..t \subseteq Nat
      OBVIOUS
    <3> QED BY <3>1, <3>2 DEF FiniteSubsetsOf
  <2> HIDE DEF F
  <2> QED BY <2>1
<1>2. IsWellFoundedOn(R, F)
  BY FS_StrictSubsetOrderingWellFounded
<1>3. PICK u \in U : \A v \in U : <<v, u>> \notin R
  <2> HIDE DEF U, R, F
  <2> QED BY <1>1, <1>2, WFMin
<1>4. PICK m \in T : u = 0..m
  BY <1>3
<1>5. ASSUME NEW t \in T, t < m PROVE FALSE
  <2>1. /\ 0..t \in U /\ m \notin 0..t /\ m \in 0..m
        /\ 0..t \subseteq 0..m
    BY <1>5
  <2>2. <<0..t, 0..m>> \in R
    BY <2>1 DEF StrictSubsetOrdering
  <2> QED BY <1>3, <1>4, <2>1, <2>2
<1> QED BY <1>5

(***************************************************************************)
(* So a set of numbers that is not empty and has a bound has a greatest.   *)
(***************************************************************************)
LEMMA GreatestNumber ==
  ASSUME NEW n \in Nat, NEW T \in SUBSET (0..n), T # {}
  PROVE  \E m \in T : \A t \in T : t <= m
<1> DEFINE U == {n - t : t \in T}
<1>1. U \in SUBSET Nat /\ U # {}
  <2>1. \A t \in T : n - t \in Nat
    OBVIOUS
  <2> QED BY <2>1
<1>2. PICK u \in U : \A v \in U : u <= v
  <2> HIDE DEF U
  <2> QED BY <1>1, LeastNumber
<1>3. PICK m \in T : u = n - m
  BY <1>2
<1>4. \A t \in T : n - m <= n - t
  BY <1>2, <1>3
<1> QED BY <1>4

-----------------------------------------------------------------------------
(***************************************************************************)
(* The two parts of a line, at a place in it.                              *)
(***************************************************************************)
LEMMA BeforeLine ==
  ASSUME NEW S, NEW seq \in Seq(S), NEW n \in 0..Len(seq)
  PROVE  /\ Before(seq, n) \in Seq(S)
         /\ Len(Before(seq, n)) = n
         /\ \A i \in 1..n : Before(seq, n)[i] = seq[i]
<1>1. \A i \in 1..n : seq[i] \in S
  OBVIOUS
<1>2. /\ SubSeq(seq, 1, n) \in Seq(S)
      /\ Len(SubSeq(seq, 1, n)) = IF 1 <= n THEN n - 1 + 1 ELSE 0
      /\ \A i \in 1..(n - 1 + 1) : SubSeq(seq, 1, n)[i] = seq[1 + i - 1]
  BY <1>1, SubSeqProperties
<1>3. n \in Nat /\ n - 1 + 1 = n /\ (~ 1 <= n => n = 0) /\ \A i \in 1..n : 1 + i - 1 = i
  OBVIOUS
<1> QED BY <1>2, <1>3 DEF Before

LEMMA AfterLine ==
  ASSUME NEW S, NEW seq \in Seq(S), NEW n \in 0..Len(seq)
  PROVE  /\ After(seq, n) \in Seq(S)
         /\ Len(After(seq, n)) = Len(seq) - n
         /\ \A i \in 1..(Len(seq) - n) : After(seq, n)[i] = seq[n + i]
<1> DEFINE l == Len(seq)
<1>1. l \in Nat /\ n \in Nat /\ n <= l /\ \A i \in (n + 1)..l : seq[i] \in S
  OBVIOUS
<1>2. /\ SubSeq(seq, n + 1, l) \in Seq(S)
      /\ Len(SubSeq(seq, n + 1, l)) = IF n + 1 <= l THEN l - (n + 1) + 1 ELSE 0
      /\ \A i \in 1..(l - (n + 1) + 1) : SubSeq(seq, n + 1, l)[i] = seq[(n + 1) + i - 1]
  BY <1>1, SubSeqProperties
<1>3. /\ l - (n + 1) + 1 = l - n /\ (~ n + 1 <= l => l - n = 0)
      /\ \A i \in 1..(l - n) : (n + 1) + i - 1 = n + i
  BY <1>1
<1> QED BY <1>2, <1>3 DEF After

(***************************************************************************)
(* At and behind the end of a line, nothing is left of it.                 *)
(***************************************************************************)
LEMMA EndOfLine ==
  ASSUME NEW S, NEW seq \in Seq(S)
  PROVE  /\ Before(seq, Len(seq)) = seq
         /\ After(seq, Len(seq)) = <<>>
         /\ After(seq, Len(seq) + 1) = <<>>
<1>1. Before(seq, Len(seq)) = seq
  BY SubSeqFull DEF Before
<1>2. Len(seq) \in Nat
  OBVIOUS
<1>3. After(seq, Len(seq)) = <<>>
  BY <1>2, SubSeqEmpty DEF After
<1>4. After(seq, Len(seq) + 1) = <<>>
  BY <1>2, SubSeqEmpty DEF After
<1> QED BY <1>1, <1>3, <1>4

(***************************************************************************)
(* Lines put together are a line, as long as both.                         *)
(***************************************************************************)
LEMMA Joined ==
  ASSUME NEW a \in Lines, NEW b \in Lines
  PROVE  a \o b \in Lines /\ Len(a \o b) = Len(a) + Len(b)
BY ConcatProperties DEF Lines

(***************************************************************************)
(* A line in whose place n some text is put: the characters before it, the *)
(* text and the characters after a place m that is not before n.           *)
(***************************************************************************)
LEMMA Spliced ==
  ASSUME NEW line \in Lines, NEW n \in 0..Len(line), NEW m \in 0..Len(line), NEW text \in Lines
  PROVE  /\ Before(line, n) \o text \o After(line, m) \in Lines
         /\ Before(line, n) \o After(line, m) \in Lines
         /\ Len(Before(line, n) \o text \o After(line, m)) = n + Len(text) + (Len(line) - m)
         /\ Len(Before(line, n) \o After(line, m)) = n + (Len(line) - m)
<1> DEFINE a == Before(line, n)
           b == After(line, m)
<1>1. a \in Lines /\ Len(a) = n /\ b \in Lines /\ Len(b) = Len(line) - m
  BY BeforeLine, AfterLine DEF Lines
<1> HIDE DEF a, b
<1>2. a \o text \in Lines /\ Len(a \o text) = n + Len(text)
  BY <1>1, Joined
<1>3. a \o b \in Lines /\ Len(a \o b) = n + (Len(line) - m)
  BY <1>1, Joined
<1>4. (a \o text) \o b \in Lines /\ Len((a \o text) \o b) = n + Len(text) + (Len(line) - m)
  BY <1>1, <1>2, Joined
<1> QED BY <1>3, <1>4 DEF a, b

(***************************************************************************)
(* Trim returns a line, and the word before the cursor starts in the line. *)
(***************************************************************************)
LEMMA TrimLine == ASSUME NEW line \in Lines PROVE Trim(line) \in Lines
<1> DEFINE solid == {i \in DOMAIN line : line[i] # Blank}
<1>1. CASE solid = {}
  BY <1>1 DEF Trim, Lines
<1>2. CASE solid # {}
  <2>1. Len(line) \in Nat /\ solid \in SUBSET (0..Len(line)) /\ solid \in SUBSET Nat
    BY DEF Lines
  <2>2. Min(solid) \in solid
    <3> HIDE DEF solid
    <3>1. \E m \in solid : \A t \in solid : m <= t
      BY <1>2, <2>1, LeastNumber
    <3> QED BY <3>1 DEF Min
  <2>3. Max(solid) \in solid
    <3> HIDE DEF solid
    <3>1. \E m \in solid : \A t \in solid : t <= m
      BY <1>2, <2>1, GreatestNumber
    <3>2. \E m \in solid : \A t \in solid : m >= t
      BY <2>1, <3>1
    <3> QED BY <3>2 DEF Max
  <2>4. Min(solid) \in 1..Len(line) /\ Max(solid) \in 1..Len(line)
    BY <2>2, <2>3 DEF Lines
  <2>5. SubSeq(line, Min(solid), Max(solid)) \in Lines
    <3> DEFINE a == Min(solid)
               b == Max(solid)
    <3>1. a \in Int /\ b \in Int /\ \A i \in a..b : line[i] \in Letters \cup {Blank}
      <4> HIDE DEF a, b
      <4>1. a \in 1..Len(line) /\ b \in 1..Len(line)
        BY <2>4 DEF a, b
      <4> QED BY <4>1 DEF Lines
    <3> HIDE DEF a, b
    <3>2. SubSeq(line, a, b) \in Lines
      BY <3>1, SubSeqProperties DEF Lines
    <3> QED BY <3>2 DEF a, b
  <2> QED BY <1>2, <2>5 DEF Trim
<1> QED BY <1>1, <1>2

LEMMA WordStartsInLine ==
  ASSUME NEW line \in Lines, NEW n \in 0..Len(line)
  PROVE  WordStart(line, n) \in 0..n
<1> DEFINE solid  == {i \in 1..n : line[i] # Blank}
           blanks == {i \in 1..n : line[i] = Blank /\ \E j \in solid : i < j}
           places == {0} \cup blanks
<1>1. n \in Nat
  BY DEF Lines
<1>2. places \in SUBSET (0..n) /\ places # {}
  BY <1>1
<1>3. Max(places) \in places
  <2> HIDE DEF places
  <2>1. \E m \in places : \A t \in places : t <= m
    BY <1>1, <1>2, GreatestNumber
  <2>2. \E m \in places : \A t \in places : m >= t
    BY <1>1, <1>2, <2>1
  <2> QED BY <2>2 DEF Max
<1>4. Max(places) \in 0..n
  BY <1>2, <1>3
<1> QED BY <1>1, <1>4 DEF WordStart

-----------------------------------------------------------------------------
(***************************************************************************)
(* The inductive invariant of the line: its types, and LineAsShown.  The   *)
(* history and the draft are lines, so that what is recalled is one, and   *)
(* the place in the history is one of its entries.                         *)
(***************************************************************************)
LineType ==
  /\ buffer \in Lines /\ cursor \in 0..Len(buffer)
  /\ history \in Seq(Lines) /\ index \in 0..Len(history)
  /\ draft \in Lines /\ sent \in Seq(Lines)
  /\ screen.prompt \in BOOLEAN
  /\ screen = [prompt |-> screen.prompt, text |-> buffer, col |-> cursor]

LEMMA EditLine ==
  ASSUME LineType, NEW line \in Lines, NEW pos \in 0..Len(line), Edit(line, pos)
  PROVE  LineType'
<1>1. pos \in Nat /\ Len(line) \in Nat
  BY DEF Lines
<1>2. Len(line) - (Len(line) - pos) = pos
  BY <1>1
<1> QED BY <1>2 DEF LineType, Edit, Redrawn, historyVars

LEMMA MoveLine ==
  ASSUME LineType, NEW pos \in 0..Len(buffer), Move(pos)
  PROVE  LineType'
<1>1. pos \in Nat /\ cursor \in Nat
  BY DEF LineType, Lines
<1>2. screen' = [prompt |-> screen.prompt, text |-> buffer, col |-> (cursor + pos) - cursor]
  BY DEF LineType, Move
<1>3. screen' = [prompt |-> screen.prompt, text |-> buffer, col |-> pos]
  BY <1>1, <1>2
<1> QED BY <1>3 DEF LineType, Move, historyVars

LEMMA TypeLine ==
  ASSUME LineType, NEW ch \in Letters \cup {Blank}, Type(ch)
  PROVE  LineType'
<1>1. /\ buffer \in Lines /\ cursor \in 0..Len(buffer) /\ Len(buffer) \in Nat
      /\ cursor \in Nat
  BY DEF LineType, Lines
<1> DEFINE before == Before(buffer, cursor)
           after == After(buffer, cursor)
<1>2. /\ Append(before, ch) \in Lines /\ Len(Append(before, ch)) = cursor + 1
      /\ after \in Lines /\ Len(after) = Len(buffer) - cursor
  <2>1. before \in Lines /\ Len(before) = cursor
    BY <1>1, BeforeLine DEF Lines
  <2>2. after \in Lines /\ Len(after) = Len(buffer) - cursor
    BY <1>1, AfterLine DEF Lines
  <2> HIDE DEF before, after
  <2> QED BY <2>1, <2>2, AppendProperties DEF Lines
<1> HIDE DEF before, after
<1>3. buffer' = Append(before, ch) \o after /\ cursor' = cursor + 1
  BY DEF Type, before, after
<1>4. buffer' \in Lines /\ Len(buffer') = (cursor + 1) + (Len(buffer) - cursor)
  BY <1>2, <1>3, Joined
<1>5. cursor' \in 0..Len(buffer') /\ cursor' \in Nat /\ Len(buffer') \in Nat
  BY <1>1, <1>3, <1>4
<1>6. CASE cursor = Len(buffer)
  <2>1. screen' = [screen EXCEPT !.text = Append(Before(screen.text, screen.col), ch)
                                          \o After(screen.text, screen.col + 1),
                                 !.col = screen.col + 1]
    BY <1>6 DEF Type, Overtyped
  <2>2. /\ screen = [prompt |-> screen.prompt, text |-> buffer, col |-> cursor]
        /\ screen.text = buffer /\ screen.col = cursor
    BY DEF LineType
  <2>3. After(buffer, cursor + 1) = after
    BY <1>1, <1>6, EndOfLine DEF after, Lines
  <2>4. Append(Before(screen.text, screen.col), ch) \o After(screen.text, screen.col + 1) = buffer'
    BY <1>3, <2>2, <2>3 DEF before
  <2>5. screen' = [prompt |-> screen.prompt, text |-> buffer', col |-> cursor']
    BY <1>3, <2>1, <2>2, <2>4
  <2>6. screen'.prompt = screen.prompt
    BY <2>5
  <2>7. UNCHANGED <<history, index, draft, sent>>
    BY DEF Type, historyVars
  <2> QED BY <1>4, <1>5, <2>5, <2>6, <2>7 DEF LineType
<1>7. CASE cursor # Len(buffer)
  <2>1. screen' = Redrawn(buffer', cursor')
    BY <1>7 DEF Type
  <2>2. Len(buffer') - (Len(buffer') - cursor') = cursor'
    BY <1>5
  <2>3. screen' = [prompt |-> TRUE, text |-> buffer', col |-> cursor']
    BY <2>1, <2>2 DEF Redrawn
  <2>4. screen'.prompt = TRUE
    BY <2>3
  <2>5. UNCHANGED <<history, index, draft, sent>>
    BY DEF Type, historyVars
  <2> QED BY <1>4, <1>5, <2>3, <2>4, <2>5 DEF LineType
<1> QED BY <1>6, <1>7

LEMMA RecallLine ==
  ASSUME NEW line \in Lines, Recall(line), LineType, draft' \in Lines, index' \in 0..Len(history)
  PROVE  LineType'
<1>1. Len(line) \in Nat
  BY DEF Lines
<1>2. Len(line) - (Len(line) - Len(line)) = Len(line)
  BY <1>1
<1> QED BY <1>1, <1>2 DEF LineType, Recall, Redrawn

(***************************************************************************)
(* A fresh line below the events is what a reset or Ctrl-C leaves, and the *)
(* redrawn line what printed events leave.                                 *)
(***************************************************************************)
LEMMA FreshLine ==
  ASSUME buffer' = <<>>, cursor' = 0, screen' = Prompt \/ screen' = NoPrompt,
         history' \in Seq(Lines), index' \in 0..Len(history'), draft' \in Lines,
         sent' \in Seq(Lines)
  PROVE  LineType'
<1>1. Prompt \in [prompt : BOOLEAN, text : {<<>>}, col : {0}]
  BY DEF Prompt
<1>2. NoPrompt \in [prompt : BOOLEAN, text : {<<>>}, col : {0}]
  BY <1>1 DEF NoPrompt
<1>3. PICK b \in BOOLEAN : screen' = [prompt |-> b, text |-> <<>>, col |-> 0]
  BY <1>1, <1>2
<1>4. screen'.prompt = b
  BY <1>3
<1>5. <<>> \in Lines /\ 0 \in 0..Len(<<>>)
  BY DEF Lines
<1> QED BY <1>3, <1>4, <1>5 DEF LineType

LEMMA PrintedLine ==
  ASSUME LineType, NEW list, Printed(list), UNCHANGED <<buffer, cursor, historyVars>>
  PROVE  LineType'
<1>1. CASE UNCHANGED screen
  BY <1>1 DEF LineType, historyVars
<1>2. CASE screen' = Redrawn(buffer, cursor)
  <2>1. Len(buffer) - (Len(buffer) - cursor) = cursor
    BY DEF LineType, Lines
  <2>2. screen' = [prompt |-> TRUE, text |-> buffer, col |-> cursor]
    BY <1>2, <2>1 DEF Redrawn
  <2>3. screen'.prompt = TRUE
    BY <2>2
  <2> QED BY <2>2, <2>3 DEF LineType, historyVars
<1> QED BY <1>1, <1>2 DEF Printed

(***************************************************************************)
(* One command sent: the history stays one of lines.                       *)
(***************************************************************************)
LEMMA SendLine ==
  ASSUME LineType, NEW command \in Lines, Send(command), buffer' = <<>>, cursor' = 0
  PROVE  LineType'
<1> DEFINE longer == Append(history, command)
<1>1. longer \in Seq(Lines) /\ longer # <<>>
  BY AppendProperties DEF LineType
<1>2. Tail(longer) \in Seq(Lines)
  BY <1>1, HeadTailProperties
<1>3. history' \in {history, Tail(longer), longer}
  BY DEF Send
<1>4. history' \in Seq(Lines)
  BY <1>1, <1>2, <1>3 DEF LineType
<1>5. sent' \in Seq(Lines)
  BY AppendProperties DEF LineType, Send
<1>6. draft' \in Lines
  BY DEF Send, Lines
<1>7. index' \in 0..Len(history')
  <2>1. Len(history') \in Nat
    BY <1>4
  <2> QED BY <2>1 DEF Send
<1> QED BY <1>4, <1>5, <1>6, <1>7, FreshLine DEF Send

LEMMA LineStep == LineType /\ [Next]_vars => LineType'
<1> SUFFICES ASSUME LineType, [Next]_vars PROVE LineType'
  OBVIOUS
<1>1. /\ buffer \in Lines /\ Len(buffer) \in Nat
      /\ cursor \in 0..Len(buffer) /\ cursor \in Nat /\ 0 \in 0..Len(buffer)
      /\ Len(buffer) \in 0..Len(buffer)
  BY DEF LineType, Lines
<1>2. ASSUME NEW ch \in Letters \cup {Blank}, Type(ch) PROVE LineType'
  BY <1>2, TypeLine
<1>3. ASSUME NEW text \in Texts, Paste(text) PROVE LineType'
  <2>1. text \in Lines /\ Len(text) \in Nat
    BY DEF Texts, Lines
  <2> DEFINE line == Before(buffer, cursor) \o text \o After(buffer, cursor)
  <2>2. line \in Lines /\ Len(line) = cursor + Len(text) + (Len(buffer) - cursor)
    BY <1>1, <2>1, Spliced
  <2> HIDE DEF line
  <2>3. cursor + Len(text) \in 0..Len(line)
    BY <1>1, <2>1, <2>2
  <2>4. Edit(line, cursor + Len(text))
    BY <1>3 DEF Paste, line
  <2> QED BY <2>2, <2>3, <2>4, EditLine
<1>4. ASSUME NEW n \in 0..Len(buffer), NEW m \in 0..Len(buffer),
             Edit(Before(buffer, n) \o After(buffer, m), n)
      PROVE  LineType'
  <2> DEFINE line == Before(buffer, n) \o After(buffer, m)
  <2>1. line \in Lines /\ Len(line) = n + (Len(buffer) - m)
    BY <1>1, Spliced DEF Lines
  <2>2. Edit(line, n)
    BY <1>4
  <2> HIDE DEF line
  <2>3. n \in 0..Len(line)
    BY <1>1, <2>1
  <2> QED BY <2>1, <2>2, <2>3, EditLine
<1>5. CASE Backspace
  <2>1. cursor - 1 \in 0..Len(buffer)
    BY <1>1, <1>5 DEF Backspace
  <2> QED BY <1>1, <1>4, <1>5, <2>1 DEF Backspace
<1>6. CASE Delete
  <2>1. cursor + 1 \in 0..Len(buffer)
    BY <1>1, <1>6 DEF Delete
  <2> QED BY <1>1, <1>4, <1>6, <2>1 DEF Delete
<1>7. CASE CtrlU
  <2>1. After(buffer, cursor) \in Lines
    BY <1>1, AfterLine DEF Lines
  <2>2. 0 \in 0..Len(After(buffer, cursor))
    BY <2>1 DEF Lines
  <2> QED BY <1>7, <2>1, <2>2, EditLine DEF CtrlU
<1>8. CASE CtrlK
  <2>1. Before(buffer, cursor) \in Lines /\ Len(Before(buffer, cursor)) = cursor
    BY <1>1, BeforeLine DEF Lines
  <2>2. cursor \in 0..Len(Before(buffer, cursor))
    BY <1>1, <2>1
  <2> QED BY <1>8, <2>1, <2>2, EditLine DEF CtrlK
<1>9. CASE CtrlW
  <2>1. WordStart(buffer, cursor) \in 0..cursor
    BY <1>1, WordStartsInLine
  <2>2. WordStart(buffer, cursor) \in 0..Len(buffer)
    BY <1>1, <2>1
  <2> QED BY <1>1, <1>4, <1>9, <2>2 DEF CtrlW
<1>10. CASE CtrlL
  BY <1>1, <1>10, EditLine DEF CtrlL
<1>11. CASE Home
  BY <1>1, <1>11, MoveLine DEF Home
<1>12. CASE End
  BY <1>1, <1>12, MoveLine DEF End
<1>13. CASE Left
  <2>1. cursor - 1 \in 0..Len(buffer)
    BY <1>1, <1>13 DEF Left
  <2> QED BY <1>13, <2>1, MoveLine DEF Left
<1>14. CASE Right
  <2>1. cursor + 1 \in 0..Len(buffer)
    BY <1>1, <1>14 DEF Right
  <2> QED BY <1>14, <2>1, MoveLine DEF Right
<1>15. CASE Enter
  <2>1. CASE Trim(buffer) # <<>>
    BY <1>1, <1>15, <2>1, TrimLine, SendLine DEF Enter
  <2>2. CASE Trim(buffer) = <<>>
    BY <1>15, <2>2, FreshLine DEF Enter, historyVars, LineType
  <2> QED BY <2>1, <2>2
<1>16. CASE CtrlC
  <2>1. Len(history) \in Nat
    BY DEF LineType
  <2>2. index' \in 0..Len(history')
    BY <1>16, <2>1 DEF CtrlC
  <2> QED BY <1>16, <2>2, FreshLine DEF CtrlC, LineType
<1>17. CASE Up
  <2>1. /\ history \in Seq(Lines) /\ Len(history) \in Nat /\ history # <<>>
        /\ Len(history) # 0 /\ index \in 0..Len(history) /\ index # 1
    BY <1>17 DEF Up, LineType
  <2>2. index' \in 1..Len(history)
    BY <1>17, <2>1 DEF Up
  <2>3. history[index'] \in Lines
    BY <2>1, <2>2
  <2>4. index' \in 0..Len(history)
    BY <2>1, <2>2
  <2>5. Recall(history[index']) /\ draft' \in {draft, buffer}
    BY <1>17 DEF Up
  <2>6. draft' \in Lines
    BY <2>5 DEF LineType
  <2> QED BY <2>3, <2>4, <2>5, <2>6, RecallLine
<1>18. CASE Down
  <2>1. /\ history \in Seq(Lines) /\ Len(history) \in Nat
        /\ index \in 1..Len(history) /\ draft \in Lines /\ draft' = draft
    BY <1>18 DEF Down, LineType
  <2>2. CASE index < Len(history)
    <3>1. index' \in 1..Len(history) /\ Recall(history[index'])
      BY <1>18, <2>1, <2>2 DEF Down
    <3>2. history[index'] \in Lines /\ index' \in 0..Len(history)
      BY <2>1, <3>1
    <3> QED BY <2>1, <3>1, <3>2, RecallLine
  <2>3. CASE ~ index < Len(history)
    <3>1. index' \in 0..Len(history) /\ Recall(draft)
      BY <1>18, <2>1, <2>3 DEF Down
    <3> QED BY <2>1, <3>1, RecallLine
  <2> QED BY <2>2, <2>3
<1>19. CASE Event
  BY <1>19, PrintedLine DEF Event
<1>20. CASE StoreReset
  BY <1>20, PrintedLine DEF StoreReset
<1>21. CASE Remount
  <2>1. /\ history' \in Seq(Lines) /\ index' \in 0..Len(history') /\ draft' \in Lines
        /\ sent' \in Seq(Lines)
    BY <1>21 DEF Remount, Lines
  <2> QED BY <1>21, <2>1, FreshLine DEF Remount
<1>22. CASE UNCHANGED vars
  BY <1>22 DEF vars, lineVars, historyVars, LineType
<1> QED BY <1>2, <1>3, <1>5, <1>6, <1>7, <1>8, <1>9, <1>10, <1>11, <1>12, <1>13, <1>14,
           <1>15, <1>16, <1>17, <1>18, <1>19, <1>20, <1>21, <1>22 DEF Next

LEMMA LineHolds == Spec => []LineType
<1>1. Init => LineType
  <2> SUFFICES ASSUME Init PROVE LineType
    OBVIOUS
  <2>1. screen = [prompt |-> TRUE, text |-> <<>>, col |-> 0]
    BY DEF Init, Prompt
  <2>2. screen.prompt = TRUE
    BY <2>1
  <2>3. /\ buffer = <<>> /\ draft = <<>> /\ <<>> \in Lines /\ <<>> \in Seq(Lines)
        /\ history = <<>> /\ sent = <<>> /\ cursor = 0 /\ index = 0
    BY DEF Init, Lines
  <2> QED BY <2>1, <2>2, <2>3 DEF LineType
<1> QED BY <1>1, LineStep, PTL DEF Spec

(***************************************************************************)
(* The last line of the screen shows what the next Enter will send, with   *)
(* the cursor where the next key goes, after every key and every event.    *)
(***************************************************************************)
THEOREM LineIsShown == Spec => []LineAsShown
<1>1. LineType => LineAsShown
  BY DEF LineType, LineAsShown
<1> QED BY <1>1, LineHolds, PTL

-----------------------------------------------------------------------------
(***************************************************************************)
(* One command sent, of which the history keeps at most HistoryLimit.      *)
(***************************************************************************)
LEMMA SendHistory ==
  ASSUME LineType, HistoryIsRecent, NEW command \in Lines, Send(command)
  PROVE  HistoryIsRecent'
<1> DEFINE repeated == history # <<>> /\ Latest(history) = command
           longer == Append(history, command)
           l == Len(history)
<1>1. /\ history \in Seq(Lines) /\ l \in Nat /\ DOMAIN history = 1..l
      /\ sent \in Seq(Lines) /\ Len(sent) \in Nat /\ DOMAIN sent = 1..Len(sent)
  BY DEF LineType
<1>2. /\ sent' = Append(sent, command) /\ Len(sent') = Len(sent) + 1
      /\ DOMAIN sent' = 1..(Len(sent) + 1) /\ sent'[Len(sent) + 1] = command
      /\ \A i \in 1..Len(sent) : sent'[i] = sent[i]
  BY <1>1 DEF Send
<1>3. Elements(sent') = Elements(sent) \cup {command}
  <2>1. ASSUME NEW i \in 1..(Len(sent) + 1) PROVE i \in 1..Len(sent) \/ i = Len(sent) + 1
    BY <1>1
  <2>2. Len(sent) + 1 \in 1..(Len(sent) + 1) /\ 1..Len(sent) \subseteq 1..(Len(sent) + 1)
    BY <1>1
  <2> QED BY <1>1, <1>2, <2>1, <2>2 DEF Elements
<1>4. sent' # <<>> /\ Latest(sent') = command
  BY <1>1, <1>2 DEF Latest
<1>5. /\ longer \in Seq(Lines) /\ Len(longer) = l + 1 /\ DOMAIN longer = 1..(l + 1)
      /\ longer[l + 1] = command /\ \A i \in 1..l : longer[i] = history[i]
  BY <1>1
<1>6. CASE repeated
  <2>1. history' = history
    BY <1>6 DEF Send
  <2>2. l \in DOMAIN history
    BY <1>1, <1>6
  <2>3. command \in Elements(history)
    BY <1>6, <2>2 DEF Elements, Latest
  <2> QED BY <1>3, <1>4, <1>6, <2>1, <2>3 DEF HistoryIsRecent
<1>7. CASE ~ repeated
  <2>1. ASSUME NEW i \in 2..(l + 1) PROVE longer[i - 1] # longer[i]
    <3>1. CASE i \in 2..l
      <4>1. i - 1 \in 1..l /\ i \in 1..l
        BY <1>1, <3>1
      <4> QED BY <1>5, <3>1, <4>1 DEF HistoryIsRecent
    <3>2. CASE i = l + 1
      <4>1. l \in 1..l /\ history # <<>> /\ i - 1 = l
        BY <1>1, <2>1, <3>2
      <4> QED BY <1>5, <1>7, <3>2, <4>1 DEF Latest
    <3> QED BY <1>1, <3>1, <3>2
  <2>2. Elements(longer) = Elements(history) \cup {command}
    <3>1. ASSUME NEW i \in 1..(l + 1) PROVE i \in 1..l \/ i = l + 1
      BY <1>1
    <3>2. l + 1 \in 1..(l + 1) /\ 1..l \subseteq 1..(l + 1)
      BY <1>1
    <3> HIDE DEF longer, l
    <3> QED BY <1>1, <1>5, <3>1, <3>2 DEF Elements
  <2>3. CASE Len(longer) > HistoryLimit
    <3>1. history' = Tail(longer)
      BY <1>7, <2>3 DEF Send
    <3>2. /\ history' \in Seq(Lines) /\ Len(history') = l /\ DOMAIN history' = 1..l
          /\ \A i \in 1..l : history'[i] = longer[i + 1]
      <4> HIDE DEF longer, l
      <4>1. longer # <<>> /\ (l + 1) - 1 = l
        BY <1>1, <1>5
      <4>2. /\ history' \in Seq(Lines) /\ Len(history') = l
            /\ \A i \in 1..Len(history') : history'[i] = longer[i + 1]
        BY <1>5, <3>1, <4>1, HeadTailProperties
      <4> QED BY <4>2
    <3>3. l = HistoryLimit
      <4>1. l <= HistoryLimit
        BY DEF HistoryIsRecent
      <4> HIDE DEF longer, l
      <4> QED BY <1>1, <1>5, <2>3, <4>1
    <3>4. ASSUME NEW i \in 2..l PROVE history'[i - 1] # history'[i]
      <4>1. /\ i - 1 \in 1..l /\ i \in 1..l /\ i + 1 \in 2..(l + 1)
            /\ (i - 1) + 1 = i /\ (i + 1) - 1 = i
        BY <1>1
      <4>2. longer[i] # longer[i + 1]
        BY <2>1, <4>1
      <4> QED BY <3>2, <4>1, <4>2
    <3>5. Elements(history') \subseteq Elements(longer)
      <4>1. \A i \in 1..l : i + 1 \in 1..(l + 1)
        BY <1>1
      <4> HIDE DEF longer, l
      <4> QED BY <1>5, <3>2, <4>1 DEF Elements
    <3>6. Latest(history') = command
      BY <1>1, <1>5, <3>2, <3>3 DEF Latest
    <3> HIDE DEF longer, l
    <3> QED BY <1>3, <1>4, <2>2, <3>2, <3>3, <3>4, <3>5, <3>6 DEF HistoryIsRecent
  <2>4. CASE ~ Len(longer) > HistoryLimit
    <3>1. history' = longer
      BY <1>7, <2>4 DEF Send
    <3>2. Len(longer) <= HistoryLimit /\ l < HistoryLimit
      BY <1>1, <1>5, <2>4
    <3>3. Latest(longer) = command
      BY <1>5 DEF Latest
    <3> HIDE DEF longer
    <3> QED BY <1>3, <1>4, <1>5, <2>1, <2>2, <3>1, <3>2, <3>3 DEF HistoryIsRecent
  <2> QED BY <2>3, <2>4
<1> QED BY <1>6, <1>7

LEMMA HistoryStep == LineType /\ HistoryIsRecent /\ [Next]_vars => HistoryIsRecent'
<1> SUFFICES ASSUME LineType, HistoryIsRecent, [Next]_vars PROVE HistoryIsRecent'
  OBVIOUS
<1>1. CASE UNCHANGED <<history, sent>>
  BY <1>1 DEF HistoryIsRecent
<1>2. CASE Enter
  <2>1. CASE Trim(buffer) # <<>>
    BY <1>2, <2>1, TrimLine, SendHistory DEF Enter, LineType
  <2>2. CASE Trim(buffer) = <<>>
    BY <1>1, <1>2, <2>2 DEF Enter, historyVars
  <2> QED BY <2>1, <2>2
<1>3. CASE Remount
  <2>1. history' = <<>> /\ sent' = <<>>
    BY <1>3 DEF Remount
  <2> QED BY <2>1 DEF HistoryIsRecent, Elements
<1>4. ASSUME NEW ch \in Letters \cup {Blank}, Type(ch) PROVE HistoryIsRecent'
  BY <1>1, <1>4 DEF Type, historyVars
<1>5. ASSUME NEW text \in Texts, Paste(text) PROVE HistoryIsRecent'
  BY <1>1, <1>5 DEF Paste, Edit, historyVars
<1>6. CASE Backspace \/ Delete \/ CtrlU \/ CtrlK \/ CtrlW \/ CtrlL
  BY <1>1, <1>6 DEF Backspace, Delete, CtrlU, CtrlK, CtrlW, CtrlL, Edit, historyVars
<1>7. CASE Home \/ End \/ Left \/ Right
  BY <1>1, <1>7 DEF Home, End, Left, Right, Move, historyVars
<1>8. CASE CtrlC \/ Up \/ Down
  BY <1>1, <1>8 DEF CtrlC, Up, Down, Recall
<1>9. CASE Event \/ StoreReset \/ UNCHANGED vars
  BY <1>1, <1>9 DEF Event, StoreReset, vars, historyVars
<1> QED BY <1>2, <1>3, <1>4, <1>5, <1>6, <1>7, <1>8, <1>9 DEF Next

(***************************************************************************)
(* The history ends with the last command, repeats none at once, invents   *)
(* none, and below its limit forgets none.                                 *)
(***************************************************************************)
THEOREM HistoryKept == Spec => []HistoryIsRecent
<1>1. Init => HistoryIsRecent
  BY DEF Init, HistoryIsRecent, Elements
<1> QED BY <1>1, HistoryStep, LineHolds, PTL DEF Spec

-----------------------------------------------------------------------------
(***************************************************************************)
(* The inductive invariant of the events.  The terminal has counted at     *)
(* least as many events as the store holds, so that the subscription never *)
(* finds more than the one just added, which is newer than all.            *)
(***************************************************************************)
Rising(seq) == \A i, j \in DOMAIN seq : i < j => seq[i] < seq[j]

EventInv ==
  /\ events \in Seq(1..MaxEvents) /\ shown \in Seq(1..MaxEvents)
  /\ made \in 0..MaxEvents /\ resets \in 0..MaxResets
  /\ seen \in 0..made /\ Len(events) <= seen
  /\ Rising(events) /\ Rising(shown)
  /\ \A i \in DOMAIN events : events[i] <= made
  /\ \A i \in DOMAIN shown : shown[i] <= made
  /\ resets = 0 => shown = events /\ Len(events) = seen

(***************************************************************************)
(* A newer event at the end of a list.                                     *)
(***************************************************************************)
LEMMA Newer ==
  ASSUME NEW seq \in Seq(1..MaxEvents), NEW n \in 0..MaxEvents, n + 1 <= MaxEvents,
         Rising(seq), \A i \in DOMAIN seq : seq[i] <= n
  PROVE  /\ Append(seq, n + 1) \in Seq(1..MaxEvents)
         /\ Len(Append(seq, n + 1)) = Len(seq) + 1
         /\ Rising(Append(seq, n + 1))
         /\ \A i \in DOMAIN Append(seq, n + 1) : Append(seq, n + 1)[i] <= n + 1
<1> DEFINE longer == Append(seq, n + 1)
           l == Len(seq)
<1>1. n + 1 \in 1..MaxEvents /\ l \in Nat /\ DOMAIN seq = 1..l /\ n \in Nat
  OBVIOUS
<1>2. /\ longer \in Seq(1..MaxEvents) /\ Len(longer) = l + 1 /\ DOMAIN longer = 1..(l + 1)
      /\ longer[l + 1] = n + 1 /\ \A i \in 1..l : longer[i] = seq[i]
  BY <1>1
<1>3. \A i \in 1..l : seq[i] \in Nat /\ seq[i] <= n
  BY <1>1
<1> HIDE DEF longer
<1>4. ASSUME NEW i \in 1..(l + 1), NEW j \in 1..(l + 1), i < j PROVE longer[i] < longer[j]
  <2>1. i \in 1..l
    BY <1>1, <1>4
  <2>2. CASE j \in 1..l
    BY <1>1, <1>2, <1>4, <2>1, <2>2 DEF Rising
  <2>3. CASE j = l + 1
    BY <1>1, <1>2, <1>3, <2>1, <2>3
  <2> QED BY <1>1, <2>2, <2>3
<1>5. ASSUME NEW i \in 1..(l + 1) PROVE longer[i] <= n + 1
  <2>1. CASE i \in 1..l
    BY <1>1, <1>2, <1>3, <2>1
  <2>2. CASE i = l + 1
    BY <1>1, <1>2, <2>2
  <2> QED BY <1>1, <2>1, <2>2
<1>6. Rising(longer)
  BY <1>2, <1>4 DEF Rising
<1> QED BY <1>2, <1>5, <1>6 DEF longer

LEMMA EventStep == EventInv /\ [Next]_vars => EventInv'
<1> SUFFICES ASSUME EventInv, [Next]_vars PROVE EventInv'
  OBVIOUS
<1>1. CASE UNCHANGED eventVars
  BY <1>1 DEF EventInv, eventVars
<1>2. CASE Event
  <2>1. /\ made' = made + 1 /\ made + 1 <= MaxEvents /\ made \in 0..MaxEvents /\ made \in Nat
        /\ events' = Append(events, made + 1) /\ UNCHANGED resets /\ Printed(events')
    BY <1>2 DEF Event, EventInv
  <2>2. /\ events' \in Seq(1..MaxEvents) /\ Len(events') = Len(events) + 1
        /\ Rising(events') /\ \A i \in DOMAIN events' : events'[i] <= made'
    BY <2>1, Newer DEF EventInv
  <2>3. Len(events) \in Nat /\ seen \in Nat /\ Len(events) <= seen /\ seen <= made
    BY <2>1 DEF EventInv
  <2>4. CASE Len(events') <= seen
    <3>1. UNCHANGED <<seen, shown>> /\ resets # 0
      BY <2>1, <2>2, <2>3, <2>4 DEF Printed, EventInv
    <3>2. \A i \in DOMAIN shown : shown[i] \in Nat
      BY DEF EventInv
    <3>3. \A i \in DOMAIN shown : shown[i] <= made + 1
      BY <2>1, <3>2 DEF EventInv
    <3>4. made' \in 0..MaxEvents /\ seen' \in 0..made' /\ Len(events') <= seen'
      BY <2>1, <2>3, <2>4, <3>1
    <3> QED BY <2>1, <2>2, <3>1, <3>3, <3>4 DEF EventInv
  <2>5. CASE ~ Len(events') <= seen
    <3>1. Len(events) = seen
      BY <2>2, <2>3, <2>5
    <3>2. After(events', seen) = <<made + 1>>
      <4>1. /\ seen \in 0..Len(events') /\ Len(events') = seen + 1
            /\ events'[seen + 1] = made + 1
        BY <2>1, <2>2, <2>3, <3>1 DEF EventInv
      <4>2. /\ After(events', seen) \in Seq(1..MaxEvents)
            /\ Len(After(events', seen)) = Len(events') - seen
            /\ \A i \in 1..(Len(events') - seen) : After(events', seen)[i] = events'[seen + i]
        BY <2>2, <4>1, AfterLine
      <4>3. Len(events') - seen = 1 /\ 1 \in 1..1
        BY <2>3, <4>1
      <4>4. Len(After(events', seen)) = 1 /\ After(events', seen)[1] = made + 1
        BY <4>1, <4>2, <4>3
      <4>5. /\ <<made + 1>> \in Seq(1..MaxEvents) /\ Len(<<made + 1>>) = 1
            /\ <<made + 1>>[1] = made + 1
        BY <2>1
      <4>6. \A i \in 1..1 : i = 1
        OBVIOUS
      <4> HIDE DEF After
      <4> QED BY <4>2, <4>4, <4>5, <4>6, SeqEqual
    <3>3. shown' = shown \o <<made + 1>> /\ seen' = Len(events')
      BY <2>1, <2>5, <3>2 DEF Printed
    <3>4. shown' = Append(shown, made + 1)
      BY <3>3 DEF EventInv
    <3>5. /\ shown' \in Seq(1..MaxEvents)
          /\ Rising(shown') /\ \A i \in DOMAIN shown' : shown'[i] <= made'
      BY <2>1, <3>4, Newer DEF EventInv
    <3>6. made' \in 0..MaxEvents /\ seen' \in 0..made' /\ Len(events') <= seen'
      BY <2>1, <2>2, <2>3, <3>3
    <3>7. resets' = 0 => shown' = events'
      BY <2>1, <3>4 DEF EventInv
    <3> QED BY <2>1, <2>2, <3>3, <3>5, <3>6, <3>7 DEF EventInv
  <2> QED BY <2>4, <2>5
<1>3. CASE StoreReset
  <2>1. /\ resets' \in 1..MaxResets /\ events' = <<>> /\ made' = made
    BY <1>3 DEF StoreReset, EventInv
  <2>2. UNCHANGED <<seen, shown>>
    BY <1>3, <2>1 DEF StoreReset, Printed, EventInv
  <2> QED BY <2>1, <2>2 DEF EventInv, Rising
<1>4. CASE Remount
  <2>1. /\ resets' \in 1..MaxResets /\ events' = <<>> /\ made' = made
        /\ shown' = events /\ seen' = Len(events)
    BY <1>4 DEF Remount, EventInv
  <2>2. seen' \in 0..made /\ Len(events') <= seen'
    BY <2>1 DEF EventInv
  <2> QED BY <2>1, <2>2 DEF EventInv, Rising
<1>5. ASSUME NEW ch \in Letters \cup {Blank}, Type(ch) PROVE EventInv'
  BY <1>1, <1>5 DEF Type
<1>6. ASSUME NEW text \in Texts, Paste(text) PROVE EventInv'
  BY <1>1, <1>6 DEF Paste, Edit
<1>7. CASE Backspace \/ Delete \/ CtrlU \/ CtrlK \/ CtrlW \/ CtrlL
  BY <1>1, <1>7 DEF Backspace, Delete, CtrlU, CtrlK, CtrlW, CtrlL, Edit
<1>8. CASE Home \/ End \/ Left \/ Right
  BY <1>1, <1>8 DEF Home, End, Left, Right, Move
<1>9. CASE Enter \/ CtrlC \/ Up \/ Down
  BY <1>1, <1>9 DEF Enter, CtrlC, Up, Down, Recall
<1>10. CASE UNCHANGED vars
  BY <1>1, <1>10 DEF vars
<1> QED BY <1>2, <1>3, <1>4, <1>5, <1>6, <1>7, <1>8, <1>9, <1>10 DEF Next

LEMMA EventsHold == Spec => []EventInv
<1>1. Init => EventInv
  BY DEF Init, EventInv, Rising
<1> QED BY <1>1, EventStep, PTL DEF Spec

(***************************************************************************)
(* Events are printed in order and once, and all of them while the store   *)
(* is not reset.                                                           *)
(***************************************************************************)
THEOREM EventsPrintedInOrder == Spec => []EventsInOrder
<1>1. EventInv => EventsInOrder
  BY DEF EventInv, EventsInOrder, Rising
<1> QED BY <1>1, EventsHold, PTL

(***************************************************************************)
(* The variables have their types: the cursor is in the line, and the      *)
(* place in the history is one of its entries.                             *)
(***************************************************************************)
THEOREM TypeCorrect == Spec => []TypeOK
<1>1. LineType /\ EventInv => TypeOK
  <2> SUFFICES ASSUME LineType, EventInv PROVE TypeOK
    OBVIOUS
  <2>1. screen \in [prompt : BOOLEAN, text : Lines, col : Nat]
    <3>1. cursor \in Nat
      BY DEF LineType, Lines
    <3> QED BY <3>1 DEF LineType
  <2>2. seen \in 0..MaxEvents
    BY DEF EventInv
  <2> QED BY <2>1, <2>2 DEF LineType, EventInv, TypeOK
<1> QED BY <1>1, LineHolds, EventsHold, PTL
=============================================================================
