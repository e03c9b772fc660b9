--------------------------- MODULE Register ---------------------------
(* What src/state.rs promises of a statefile, to readers that take no lock and
   over crashes of the host: it is a register that holds a whole document or
   none.  An update is seen at once; until it is committed a crash may undo it,
   as a whole, and a committed one stays. *)

CONSTANTS Document, NoDocument
VARIABLES
  value,  \* what a read returns
  after   \* what a crash of the host may leave

Init ==
  /\ value \in Document \cup {NoDocument}
  /\ after = {value}

Update(d) ==
  /\ d \in Document \cup {NoDocument}
  /\ value' = d
  /\ after' = after \cup {d}

Commit ==
  /\ after' = {value}
  /\ UNCHANGED value

Crash ==
  /\ value' \in after
  /\ after' = {value'}

Next == (\E d \in Document \cup {NoDocument} : Update(d)) \/ Commit \/ Crash

Spec == Init /\ [][Next]_<<value, after>>
=======================================================================
