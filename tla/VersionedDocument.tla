------------------------- MODULE VersionedDocument -------------------------
(***************************************************************************)
(* What StateStore (crates/hk-proton-manager/src/store.rs) promises its    *)
(* callers, with no directory, slot, lock or secret in sight: one document *)
(* whose past is a line of contents, extended by optimistic commits.       *)
(*                                                                         *)
(*   - A commit extends exactly the line its author had loaded.            *)
(*   - A crash of an author loses at most what the author knew.            *)
(*   - A media fault may cut the line back to an earlier, non-empty point  *)
(*     of itself, or make the document unreadable for good.  It never      *)
(*     turns a document that existed into one that was never written.      *)
(***************************************************************************)
EXTENDS Sequences, Naturals

CONSTANTS
  Author,   \* processes that load and commit
  Content,  \* what one commit may store
  Lost      \* the line of an unreadable document

VARIABLES
  line,     \* the contents from the first commit to the current one, or Lost
  seen,     \* seen[a] is the line author a loaded or committed last
  faulty    \* TRUE once the medium has damaged something

docVars == <<line, seen, faulty>>

Init ==
  /\ line = <<>>
  /\ seen = [a \in Author |-> <<>>]
  /\ faulty = FALSE

Load(a) ==
  /\ line # Lost
  /\ seen' = [seen EXCEPT ![a] = line]
  /\ UNCHANGED <<line, faulty>>

\* What damage may leave of a line that is not empty.
Remains(l) == {SubSeq(l, 1, n) : n \in 1 .. Len(l) - 1} \cup {Lost}

\* Only a fault between the author's check and its write can have shortened
\* the line the author extends, or spoil what is written.
Extendable(a) ==
  line = seen[a] \/ (faulty /\ seen[a] # <<>> /\ line \in Remains(seen[a]))

Commit(a) ==
  /\ line # Lost
  /\ Extendable(a)
  /\ \E d \in Content :
        LET extended == Append(seen[a], d)
        IN  /\ line' = extended \/ (faulty /\ line' \in Remains(extended))
            /\ seen' = [seen EXCEPT ![a] = extended]
  /\ UNCHANGED faulty

Restart(a) ==
  /\ seen' = [seen EXCEPT ![a] = <<>>]
  /\ UNCHANGED <<line, faulty>>

Fault ==
  /\ faulty' = TRUE
  /\ line' = line \/ (line \notin {Lost, <<>>} /\ line' \in Remains(line))
  /\ UNCHANGED seen

Next ==
  \/ \E a \in Author : Load(a) \/ Commit(a) \/ Restart(a)
  \/ Fault

Spec == Init /\ [][Next]_docVars
============================================================================
