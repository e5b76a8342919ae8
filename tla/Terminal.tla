------------------------------ MODULE Terminal ------------------------------
(***************************************************************************)
(* components/Terminal.tsx: the input line with its history, and the       *)
(* events of gitStore which the terminal prints above that line.  A step   *)
(* is one key (or paste), one event, or one reset of the store; the        *)
(* subscription to the store runs inside the step that changes it.  A line *)
(* is short enough not to wrap.                                            *)
(***************************************************************************)
EXTENDS Naturals, Sequences, FiniteSetsExt

CONSTANTS Letters,       \* printable characters that are not blank
          Blank,         \* the space
          HistoryLimit,  \* HISTORY_LIMIT
          MaxLine,       \* bound: length of the line
          MaxSent,       \* bound: commands sent
          MaxEvents,     \* bound: events the store receives
          MaxResets      \* bound: resets of the store

ASSUME TerminalAssumption ==
  /\ Blank \notin Letters
  /\ HistoryLimit \in Nat \ {0}
  /\ MaxLine \in Nat /\ MaxSent \in Nat /\ MaxEvents \in Nat /\ MaxResets \in Nat

VARIABLES
  buffer,   \* inputBufferRef
  cursor,   \* cursorPosRef: characters before the cursor
  history,  \* historyRef, oldest first
  index,    \* historyIndexRef + 1, and 0 for null
  draft,    \* draftBufferRef
  screen,   \* the last line of the terminal: whether the prompt is there,
            \* the text after it, and the column of the cursor in that text
  events,   \* events of the store, by number
  seen,     \* seenEventsRef
  shown,    \* the events this terminal has printed
  made,     \* events so far
  resets,   \* resets of the store so far
  sent      \* the commands given to onCommand

lineVars    == <<buffer, cursor, screen>>
historyVars == <<history, index, draft, sent>>
eventVars   == <<events, seen, shown, made, resets>>
vars == <<lineVars, historyVars, eventVars>>

-----------------------------------------------------------------------------
Elements(seq) == {seq[i] : i \in DOMAIN seq}
Latest(seq) == seq[Len(seq)]

Before(seq, n) == SubSeq(seq, 1, n)
After(seq, n) == SubSeq(seq, n + 1, Len(seq))

\* String.trim
Trim(line) ==
  LET solid == {i \in DOMAIN line : line[i] # Blank}
  IN  IF solid = {} THEN <<>> ELSE SubSeq(line, Min(solid), Max(solid))

\* Where the word before the cursor starts, blanks after it included.
WordStart(line, n) ==
  LET solid  == {i \in 1..n : line[i] # Blank}
      blanks == {i \in 1..n : line[i] = Blank /\ \E j \in solid : i < j}
  IN  IF solid = {} THEN 0 ELSE Max({0} \cup blanks)

-----------------------------------------------------------------------------
(* What is written to the last line of the screen.                         *)

Prompt == [prompt |-> TRUE, text |-> <<>>, col |-> 0]
NoPrompt == [Prompt EXCEPT !.prompt = FALSE]

\* Mutated: the cursor is left at the end of the line.
RedrawnAtEnd(line, pos) ==
  [prompt |-> TRUE, text |-> line, col |-> Len(line)]

\* redrawInput
Redrawn(line, pos) ==
  [prompt |-> TRUE, text |-> line, col |-> Len(line) - (Len(line) - pos)]

\* Characters overwrite what stands at the cursor.
Overtyped(ch) ==
  [screen EXCEPT !.text = Append(Before(@, screen.col), ch)
                          \o After(@, screen.col + 1),
                 !.col = @ + 1]

-----------------------------------------------------------------------------
(* Keys that change the line, or move in it.                               *)

Edit(line, pos) ==
  /\ buffer' = line /\ cursor' = pos
  /\ screen' = Redrawn(line, pos)
  /\ UNCHANGED <<historyVars, eventVars>>

\* The cursor is moved by the difference.
Move(pos) ==
  /\ pos # cursor /\ cursor' = pos
  /\ screen' = [screen EXCEPT !.col = (@ + pos) - cursor]
  /\ UNCHANGED <<buffer, historyVars, eventVars>>

Type(ch) ==
  /\ Len(buffer) < MaxLine
  /\ buffer' = Append(Before(buffer, cursor), ch) \o After(buffer, cursor)
  /\ cursor' = cursor + 1
  /\ screen' = IF cursor = Len(buffer) THEN Overtyped(ch)
                                       ELSE Redrawn(buffer', cursor')
  /\ UNCHANGED <<historyVars, eventVars>>

Paste(text) ==
  /\ Len(text) > 1 /\ Len(buffer) + Len(text) <= MaxLine
  /\ Edit(Before(buffer, cursor) \o text \o After(buffer, cursor),
          cursor + Len(text))

Backspace ==
  /\ cursor > 0
  /\ Edit(Before(buffer, cursor - 1) \o After(buffer, cursor), cursor - 1)

Delete ==
  /\ cursor < Len(buffer)
  /\ Edit(Before(buffer, cursor) \o After(buffer, cursor + 1), cursor)

\* Mutated: the cursor stays where the deleted text ended.
CtrlUKeepsCursor == cursor > 0 /\ Edit(After(buffer, cursor), cursor)

CtrlU == cursor > 0 /\ Edit(After(buffer, cursor), 0)

CtrlK == cursor < Len(buffer) /\ Edit(Before(buffer, cursor), cursor)

CtrlW ==
  /\ cursor > 0
  /\ LET start == WordStart(buffer, cursor)
     IN  Edit(Before(buffer, start) \o After(buffer, cursor), start)

\* The screen is cleared above the line.
CtrlL == Edit(buffer, cursor)

Home  == Move(0)
End   == Move(Len(buffer))
Left  == cursor > 0 /\ Move(cursor - 1)
Right == cursor < Len(buffer) /\ Move(cursor + 1)

-----------------------------------------------------------------------------
(* Keys that leave the line.                                               *)

\* A command goes out; the prompt is left to the event that answers it.
\* Mutated: the newest entry is dropped at the limit.
SendDropsNewest(command) ==
  /\ Len(sent) < MaxSent /\ sent' = Append(sent, command)
  /\ LET repeated == history # <<>> /\ Latest(history) = command
         longer   == Append(history, command)
     IN  history' = IF repeated THEN history
                    ELSE Before(longer, Min({Len(longer), HistoryLimit}))
  /\ index' = 0 /\ draft' = <<>>
  /\ screen' = NoPrompt

Send(command) ==
  /\ Len(sent) < MaxSent /\ sent' = Append(sent, command)
  /\ LET repeated == history # <<>> /\ Latest(history) = command
         longer   == Append(history, command)
     IN  history' = IF repeated THEN history
                    ELSE IF Len(longer) > HistoryLimit THEN Tail(longer)
                    ELSE longer
  /\ index' = 0 /\ draft' = <<>>
  /\ screen' = NoPrompt

\* A blank line leaves the history alone, and the place in it.
Enter ==
  /\ IF Trim(buffer) # <<>>
       THEN Send(Trim(buffer))
       ELSE screen' = Prompt /\ UNCHANGED historyVars
  /\ buffer' = <<>> /\ cursor' = 0
  /\ UNCHANGED eventVars

CtrlC ==
  /\ buffer' = <<>> /\ cursor' = 0
  /\ index' = 0
  /\ screen' = Prompt
  /\ UNCHANGED <<history, draft, sent, eventVars>>

Recall(line) ==
  /\ buffer' = line /\ cursor' = Len(line)
  /\ screen' = Redrawn(line, Len(line))
  /\ UNCHANGED <<history, sent, eventVars>>

Up ==
  /\ history # <<>> /\ index # 1
  /\ IF index = 0 THEN index' = Len(history) /\ draft' = buffer
                  ELSE index' = index - 1 /\ UNCHANGED draft
  /\ Recall(history[index'])

Down ==
  /\ index # 0
  /\ UNCHANGED draft
  /\ IF index < Len(history)
       THEN index' = index + 1 /\ Recall(history[index'])
       ELSE index' = 0 /\ Recall(draft)

-----------------------------------------------------------------------------
(* The store.                                                              *)

\* Mutated: what was printed is not counted.
PrintedUncounted(list) ==
  IF Len(list) <= seen
    THEN UNCHANGED <<seen, shown, screen>>
    ELSE /\ shown' = shown \o After(list, seen)
         /\ UNCHANGED seen
         /\ screen' = Redrawn(buffer, cursor)

\* The subscription: the events after the first "seen" ones are printed.
Printed(list) ==
  IF Len(list) <= seen
    THEN UNCHANGED <<seen, shown, screen>>
    ELSE /\ shown' = shown \o After(list, seen)
         /\ seen' = Len(list)
         /\ screen' = Redrawn(buffer, cursor)

Event ==
  /\ made < MaxEvents /\ made' = made + 1
  /\ events' = Append(events, made')
  /\ Printed(events')
  /\ UNCHANGED <<buffer, cursor, historyVars, resets>>

\* gitStore.reset, by the reset button or a change of room.
StoreReset ==
  /\ resets < MaxResets /\ resets' = resets + 1
  /\ events' = <<>>
  /\ Printed(events')
  /\ UNCHANGED <<buffer, cursor, historyVars, made>>

\* Room is left and entered again: a new terminal prints what the store
\* holds, and then Room's own effect resets the store.
Remount ==
  /\ resets < MaxResets /\ resets' = resets + 1
  /\ buffer' = <<>> /\ cursor' = 0 /\ screen' = Prompt
  /\ history' = <<>> /\ index' = 0 /\ draft' = <<>> /\ sent' = <<>>
  /\ shown' = events /\ seen' = Len(events)
  /\ events' = <<>>
  /\ UNCHANGED made

-----------------------------------------------------------------------------
Init ==
  /\ buffer = <<>> /\ cursor = 0 /\ screen = Prompt
  /\ history = <<>> /\ index = 0 /\ draft = <<>> /\ sent = <<>>
  /\ events = <<>> /\ seen = 0 /\ shown = <<>> /\ made = 0 /\ resets = 0

Texts == UNION {[1..n -> Letters \cup {Blank}] : n \in 2..MaxLine}

Next ==
  \/ \E ch \in Letters \cup {Blank} : Type(ch)
  \/ \E text \in Texts : Paste(text)
  \/ Backspace \/ Delete \/ CtrlU \/ CtrlK \/ CtrlW \/ CtrlL
  \/ Home \/ End \/ Left \/ Right
  \/ Enter \/ CtrlC \/ Up \/ Down
  \/ Event \/ StoreReset \/ Remount

Spec == Init /\ [][Next]_vars

-----------------------------------------------------------------------------
Lines == Seq(Letters \cup {Blank})

TypeOK ==
  /\ buffer \in Lines /\ cursor \in 0..Len(buffer)
  /\ history \in Seq(Lines) /\ index \in 0..Len(history)
  /\ draft \in Lines /\ sent \in Seq(Lines)
  /\ screen \in [prompt : BOOLEAN, text : Lines, col : Nat]
  /\ events \in Seq(1..MaxEvents) /\ shown \in Seq(1..MaxEvents)
  /\ seen \in 0..MaxEvents /\ made \in 0..MaxEvents
  /\ resets \in 0..MaxResets

(***************************************************************************)
(* What the student sees is what will be sent: however keys, recalled      *)
(* commands and events of other students interleave, the last line shows   *)
(* the buffer with the cursor in its place.                                *)
(***************************************************************************)
LineAsShown == screen.text = buffer /\ screen.col = cursor

(***************************************************************************)
(* The history ends with the last command sent, holds no command twice in  *)
(* a row and nothing that was not sent, and, below its limit, everything   *)
(* that was.                                                               *)
(***************************************************************************)
HistoryIsRecent ==
  /\ Len(history) <= HistoryLimit
  /\ \A i \in 2..Len(history) : history[i - 1] # history[i]
  /\ Elements(history) \subseteq Elements(sent)
  /\ Len(history) < HistoryLimit => Elements(sent) \subseteq Elements(history)
  /\ sent # <<>> => Latest(history) = Latest(sent)

(***************************************************************************)
(* No event is printed twice or before an older one, and none is missing   *)
(* as long as the store is not reset.                                      *)
(***************************************************************************)
EventsInOrder ==
  /\ \A i, j \in DOMAIN shown : i < j => shown[i] < shown[j]
  /\ resets = 0 => shown = events

-----------------------------------------------------------------------------
(* What the comments say and the code does not do.                         *)

\* Terminal.tsx:159: the event that answers a command is printed, with the
\* prompt.  Every event of the store is on the screen.
EventsAreShown == Elements(events) \subseteq Elements(shown)
=============================================================================
