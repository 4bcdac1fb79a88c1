--------------------------- MODULE MCSourceRefresh ---------------------------
(* One source with one editor, a refresh asked for and a caller that may give *)
(* up; the same with one edit more, so that a source is saved, deleted and    *)
(* saved again during a round, and a job whose budget may run out; two        *)
(* editors; or two sources that share one slot.                               *)
EXTENDS SourceRefresh

CONSTANTS s1, s2, e1, e2

MCOneEditor == {[who |-> {s1, e1}, edits |-> 2, clicks |-> 1, cancels |-> 1, timeouts |-> 0]}
MCCasts == MCOneEditor \cup
  {[who |-> {s1, e1}, edits |-> 3, clicks |-> 0, cancels |-> 0, timeouts |-> 1],
   [who |-> {s1, e1, e2}, edits |-> 2, clicks |-> 0, cancels |-> 0, timeouts |-> 1],
   [who |-> {s1, s2, e1}, edits |-> 2, clicks |-> 0, cancels |-> 0, timeouts |-> 1]}
=============================================================================
