----------------------------- MODULE CursorWalk -----------------------------
(***************************************************************************)
(* What the checkpointed walk of one upcoming-event window promises: the   *)
(* pages of the provider's schedule are taken one after the other, each    *)
(* once, by following the cursor of the page before; no cursor is followed *)
(* twice and no event is taken from two pages.  Start, Terminal and the    *)
(* cursors differ.                                                         *)
(***************************************************************************)
EXTENDS Naturals, Sequences

CONSTANTS
    Cursors,    \* the provider's page cursors
    Events,     \* the provider's events
    Start,      \* the position before the first page
    Terminal    \* the position after the last page

VARIABLES
    taken,      \* the pages taken, in order
    position    \* where the walk goes on

Page == [events : SUBSET Events, next : Cursors \cup {Terminal}]

\* The positions the walk has been at.
Followed == {Start} \cup {taken[i].next : i \in DOMAIN taken}

Init == taken = <<>> /\ position = Start

TakePage(page) ==
    /\ page.next \notin Followed
    /\ \A i \in DOMAIN taken : taken[i].events \cap page.events = {}
    /\ taken' = Append(taken, page)
    /\ position' = page.next

Next ==
    /\ position # Terminal /\ position' # position
    /\ \E page \in Page : TakePage(page)

Spec == Init /\ [][Next]_<<taken, position>>
=============================================================================
