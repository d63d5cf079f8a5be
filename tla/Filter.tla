------------------------------- MODULE Filter -------------------------------
(***************************************************************************)
(* The text of a message: Filter_Character and Write_Message at the level  *)
(* of bytes, and the turns of Write_With_Rotate that cut a message into    *)
(* lines.  Plexlog abstracts all of it to the filtered widths of a message *)
(* and the relation Write_Message_Stops; this module checks both against   *)
(* the loop over characters.  Prefixes, files and the lock are left out:   *)
(* every piece of the message is the text of a line of its own.            *)
(***************************************************************************)
EXTENDS Integers, Sequences, SequencesExt

CONSTANTS
  Alphabet,    \* the characters tried, codes of Latin 1
  MaxLength,   \* bound: characters in a message
  Max_Lengths, \* values of Size_Max - Message_Minimum_Length
  No_Limit     \* Set_Unlimited_File_Size was called

ASSUME AlphabetAssumption == Alphabet \subseteq 0..255 /\ MaxLength \in Nat
ASSUME LimitAssumption == Max_Lengths \subseteq Nat \ 0..4 /\ No_Limit \notin Max_Lengths

US == 31
DEL == 127
LF == 10
Backslash == 92
Letter_x == 120

VARIABLES
  data,            \* the argument of Write
  max_length,      \* Max_Length, or No_Limit
  Current_Offset,
  Limit,           \* of Write_Message, 0 for none
  Index,           \* of the next character of the piece, from 0
  Status,          \* Log_Status_t
  lines,           \* the texts written so far; the last one may be incomplete
  pc

vars == <<data, max_length, Current_Offset, Limit, Index, Status, lines, pc>>

Empty_Status == [Characters_Written |-> 0, Characters_Processed |-> 0]

Init ==
  /\ data = << >>
  /\ max_length = No_Limit
  /\ Current_Offset = 0
  /\ Limit = 0
  /\ Index = 0
  /\ Status = Empty_Status
  /\ lines = << >>
  /\ pc = "idle"

-----------------------------------------------------------------------------
(* One character.                                                           *)

\* "0123456789abcdef"
Hex_Table(n) == IF n < 10 THEN 48 + n ELSE 87 + n

Character_To_Hex(c) == <<Hex_Table((c \div 16) % 16), Hex_Table(c % 16)>>

\* Mutant of Filter_Character: < for <=, the unit separator is printed.
Bug_Filter_Character(c) ==
  IF c < US \/ c >= DEL THEN <<Backslash, Letter_x>> \o Character_To_Hex(c)
  ELSE IF c = Backslash THEN <<Backslash, Backslash>> ELSE <<c>>

\* Mutant of Filter_Character: backslashes are not escaped.
Bug_Filter_Backslash(c) ==
  IF c <= US \/ c >= DEL THEN <<Backslash, Letter_x>> \o Character_To_Hex(c) ELSE <<c>>

Filter_Character(c) ==
  CASE c <= US \/ c >= DEL -> <<Backslash, Letter_x>> \o Character_To_Hex(c)
    [] c = Backslash       -> <<Backslash, Backslash>>
    [] OTHER               -> <<c>>

Filtered_Message_Length(s) ==
  FoldLeft(LAMBDA n, c : n + Len(Filter_Character(c)), 0, s)

-----------------------------------------------------------------------------
(* Write_Message and its callers.                                           *)

Rest == SubSeq(data, Current_Offset + 1, Len(data))

\* Log_Has_Space_For, of an empty file and what is left of the message.
Rest_Fits == Filtered_Message_Length(Rest) < max_length

Write(m, limit) ==
  /\ pc = "idle"
  /\ data' = m
  /\ max_length' = limit
  /\ pc' = "piece"
  /\ UNCHANGED <<Current_Offset, Limit, Index, Status, lines>>

\* Enters Write_Message.
Begin(limit) ==
  /\ Limit' = limit
  /\ Index' = 0
  /\ Status' = Empty_Status
  /\ lines' = Append(lines, << >>)
  /\ pc' = "message"
  /\ UNCHANGED <<data, max_length, Current_Offset>>

\* Write, if the size is unlimited: the whole message, even an empty one.
Begin_Unlimited == pc = "piece" /\ max_length = No_Limit /\ lines = << >> /\ Begin(0)

\* A turn of Write_Loop.
Begin_Full_Line == pc = "piece" /\ max_length # No_Limit /\ ~Rest_Fits /\ Begin(max_length)

\* What is left after Write_Loop, if anything is.
Begin_Last_Line ==
  pc = "piece" /\ max_length # No_Limit /\ Rest_Fits /\ Rest # << >> /\ Begin(0)

\* The locals, and with them the lines, are forgotten.
Returns ==
  /\ pc = "piece"
  /\ \/ max_length = No_Limit /\ lines # << >>
     \/ max_length # No_Limit /\ Rest = << >>
  /\ pc' = "idle"
  /\ data' = << >> /\ max_length' = No_Limit /\ Current_Offset' = 0
  /\ Limit' = 0 /\ Index' = 0 /\ Status' = Empty_Status /\ lines' = << >>

\* Mutant of Exit_Loop: > for >=.
Bug_Exit_Loop(text) == Limit > 0 /\ Status.Characters_Written + Len(text) > Limit

\* exit when, in Write_Message's loop
Exit_Loop(text) == Limit > 0 /\ Status.Characters_Written + Len(text) >= Limit

Put(text) == lines' = [lines EXCEPT ![Len(lines)] = @ \o text]

Put_Character ==
  /\ pc = "message"
  /\ Index < Len(Rest)
  /\ LET text == Filter_Character(Rest[Index + 1])
     IN  /\ ~Exit_Loop(text)
         /\ Put(text)
         /\ Status' = [Characters_Written   |-> Status.Characters_Written + Len(text),
                       Characters_Processed |-> Status.Characters_Processed + 1]
  /\ Index' = Index + 1
  /\ UNCHANGED <<data, max_length, Current_Offset, Limit, pc>>

\* The LF, and the caller's new offset.
End_Message ==
  /\ pc = "message"
  /\ Index < Len(Rest) => Exit_Loop(Filter_Character(Rest[Index + 1]))
  /\ Put(<<LF>>)
  /\ Current_Offset' = Current_Offset + Status.Characters_Processed
  /\ pc' = "piece"
  /\ UNCHANGED <<data, max_length, Limit, Index, Status>>

Next ==
  \/ \E m \in BoundedSeq(Alphabet, MaxLength), limit \in Max_Lengths \union {No_Limit} :
       Write(m, limit)
  \/ Begin_Unlimited \/ Begin_Full_Line \/ Begin_Last_Line
  \/ Put_Character \/ End_Message \/ Returns

Spec == Init /\ [][Next]_vars

-----------------------------------------------------------------------------
(* A reader of the log (outside this code): undoes the escapes of a line.   *)

Hex_Value(b) == IF b < 58 THEN b - 48 ELSE b - 87

\* How many bytes the escape or the character at i takes, and what it stands for.
Escape_Width(text, i) ==
  CASE text[i] # Backslash \/ i = Len(text) -> 1
    [] text[i] = Backslash /\ i < Len(text) ->
         IF text[i + 1] = Letter_x /\ i + 3 <= Len(text) THEN 4 ELSE 2

Escaped(text, i) ==
  IF Escape_Width(text, i) = 4
    THEN 16 * Hex_Value(text[i + 2]) + Hex_Value(text[i + 3])
    ELSE text[i]

Decoded_From(text) ==
  LET from[i \in 1..Len(text) + 1] ==
        IF i > Len(text) THEN << >>
        ELSE <<Escaped(text, i)>> \o from[i + Escape_Width(text, i)]
  IN  from[1]

Printable(b) == b > US /\ b < DEL

Complete == IF pc = "message" THEN Front(lines) ELSE lines

-----------------------------------------------------------------------------

\* Every line is printable ASCII up to the LF that Write_Message itself adds:
\* no message can end its line early or make a second one.
LinesArePrintable ==
  \A i \in 1..Len(lines) :
    LET ends == IF i <= Len(Complete) THEN 1 ELSE 0
        text == SubSeq(lines[i], 1, Len(lines[i]) - ends)
    IN  /\ \A j \in 1..Len(text) : Printable(text[j])
        /\ ends = 1 => lines[i][Len(lines[i])] = LF

\* The complete lines, undone one by one and joined, are the message up to
\* Current_Offset: splitting cuts no escape in two and loses, repeats or
\* confuses no character, whatever the message contains.
LinesAreReadable ==
  LET text(line) == Decoded_From(Front(line))
  IN  pc = "piece" =>
        FlattenSeq([i \in 1..Len(Complete) |-> text(Complete[i])])
          = SubSeq(data, 1, Current_Offset)

\* A line never takes more than Max_Length bytes with its LF, so that a file
\* with nothing but its prefix has room for it.
LinesFit ==
  max_length # No_Limit => \A i \in 1..Len(lines) : Len(lines[i]) <= max_length

\* Write_Message takes exactly the characters that Plexlog's relation
\* Write_Message_Stops says, and a line is as long as Line_Length says.
Widths_Of(s) == [i \in 0..Len(s) |-> Filtered_Message_Length(SubSeq(s, 1, i))]

StopsAsModelled ==
  [][pc = "message" /\ pc' = "piece" =>
       LET upto  == Widths_Of(data)
           e     == Current_Offset'
           width(i) == upto[i] - upto[Current_Offset]
       IN  /\ Len(lines'[Len(lines')]) = width(e) + 1
           /\ Limit = 0 => e = Len(data)
           /\ Limit > 0 =>
                width(e) < Limit /\ (e < Len(data) => width(e + 1) >= Limit)]_vars
=============================================================================
