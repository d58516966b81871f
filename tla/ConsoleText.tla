---------------------------- MODULE ConsoleText ----------------------------
(***************************************************************************)
(* ConsoleData of main.cpp: the rows of the server console.  consoleText   *)
(* always has MaxRows rows, of which the first rowPointer have been        *)
(* printed and are drawn.                                                  *)
(***************************************************************************)
EXTENDS Naturals, Sequences

CONSTANTS
  MaxRows,  \* rows that fit on the screen (GetScreenHeight() / 35)
  Line      \* the lines that can be printed

\* A line is the tuple of its parts; a row starts with an empty string.
Blank == << >>

\* A window lower than 35 pixels has no rows, and its Print would erase the
\* first element of an empty vector.
ASSUME ConsoleTextAssumption == MaxRows \in Nat \ {0} /\ Blank \in Line

VARIABLES consoleText, rowPointer

textVars == <<consoleText, rowPointer>>

\* GetConsoleData
TextInit ==
  /\ consoleText = [row \in 1 .. MaxRows |-> Blank]
  /\ rowPointer = 0

\* When the last row is taken the first is erased and a blank one put at the
\* end; the text goes to the first row that is not taken.
Full    == rowPointer >= MaxRows
\* Mutant of Rows: nothing is erased, the last row is overwritten.
RowsKept == consoleText
Rows    == IF Full THEN Append(Tail(consoleText), Blank) ELSE consoleText
FreeRow == IF Full THEN rowPointer ELSE rowPointer + 1

PrintLine(text) ==
  /\ consoleText' = [Rows EXCEPT ![FreeRow] = text]
  /\ rowPointer' = FreeRow

TextNext == \E text \in Line : PrintLine(text)
TextSpec == TextInit /\ [][TextNext]_textVars

-----------------------------------------------------------------------------
TextTypeOK == /\ consoleText \in [1 .. MaxRows -> Line]
              /\ rowPointer \in 0 .. MaxRows

\* The rows that are drawn.
Shown == SubSeq(consoleText, 1, rowPointer)

Scroll == INSTANCE Scrollback WITH lines <- Shown

\* The drawn rows are always the last MaxRows lines printed, in order.
ShowsLastLines == Scroll!Spec
=============================================================================
