----------------------- MODULE StateStoreRefinement -----------------------
(***************************************************************************)
(* StateStore implements VersionedDocument: the abstract line is the chain *)
(* of contents from the first generation to the one read_head finds.       *)
(***************************************************************************)
EXTENDS StateStore, Sequences

CONSTANT Unreadable  \* the abstract line when read_head fails

ASSUME UnreadableAssumption == Unreadable \notin Seq(Content)

\* The contents from the first ancestor of a revision to the revision itself.
LineTo ==
  LET L[r \in Option(Revision)] ==
        IF r = 0 \/ gen[r] = Empty THEN <<>>
        ELSE Append(IF gen[r].parent < r THEN L[gen[r].parent] ELSE <<>>, gen[r].content)
  IN  L

CurrentLine ==
  IF HeadReadable("current") THEN LineTo[HeadRevision("current")] ELSE Unreadable

Document ==
  INSTANCE VersionedDocument WITH
    Author <- Client,
    Lost <- Unreadable,
    line <- CurrentLine,
    seen <- [c \in Client |-> LineTo[base[c]]],
    faulty <- faults > 0

\* Commits are compare-and-swaps on the whole history their author saw, a
\* crash at any step leaves the document as it was before or after the commit,
\* rollbacks append, and damage can only cut the line back or make it
\* unreadable: never "no configuration yet" after a first commit.
ImplementsDocument == Document!Spec

----------------------------------------------------------------------------
(* The further invariants behind ImplementsDocument *)

\* What a client knows is published, and a call builds on what its client knew
\* when it began.
CallsBuildOnBase ==
  \A c \in Client :
    /\ base[c] \in Option(Published)
    /\ pc[c] # "idle" => call[c].expected = base[c]

\* Whatever was damaged, the older current slot names an ancestor of what the
\* newer one names, and while a commit is under way every valid slot names an
\* ancestor of the revision it builds on.
SlotsInLine ==
  /\ \A i, j \in Slot :
        (/\ Intact("current", i) /\ Intact("current", j)
         /\ slot["current"][i].epoch < slot["current"][j].epoch) =>
            slot["current"][i].revision \in Ancestry[slot["current"][j].revision]
  /\ \A c \in Client : pc[c] \in CommitPhase =>
        /\ \A i \in ValidSlots("current") :
              slot["current"][i].revision \in Ancestry[call[c].expected]
        /\ (\A i \in Slot : slot["current"][i] = Empty) => call[c].expected = 0

LineInvariant == CallsBuildOnBase /\ SlotsInLine
============================================================================
