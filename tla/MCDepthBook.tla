----------------------------- MODULE MCDepthBook -----------------------------
\* DepthBook on a few depth messages, for TLC.
EXTENDS DepthBook

Bounds(perpetual, updates, levels, quotes, sessions, unreadable, failures, until) ==
    [futures |-> perpetual, updates |-> updates, levels |-> levels, quotes |-> quotes,
     sessions |-> sessions, garbled |-> unreadable, failures |-> failures, until |-> until]

\* A futures message lost within a session, with a failing snapshot; a spot one lost
\* between two sessions; two levels with quotes, over two sessions; two levels with a
\* loss, over the end of a second.
Days == {Bounds(TRUE, 3, {1}, FALSE, 1, 1, 1, 0), Bounds(FALSE, 3, {1}, FALSE, 2, 0, 0, 0),
         Bounds(TRUE, 2, {1, 2}, TRUE, 2, 0, 0, 0), Bounds(FALSE, 2, {1, 2}, FALSE, 1, 1, 0, 1)}

=============================================================================
