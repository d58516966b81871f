----------------------------- MODULE Scrollback -----------------------------
(***************************************************************************)
(* What the server console promises: it shows the last MaxRows lines that  *)
(* were printed, the oldest at the top.  ConsoleText implements it.        *)
(***************************************************************************)
EXTENDS Naturals, Sequences

CONSTANTS MaxRows, Line

VARIABLE lines

Init == lines = << >>

PrintLine(text) ==
  lines' = IF Len(lines) < MaxRows THEN Append(lines, text)
                                   ELSE Append(Tail(lines), text)

Next == \E text \in Line : PrintLine(text)

Spec == Init /\ [][Next]_lines
=============================================================================
