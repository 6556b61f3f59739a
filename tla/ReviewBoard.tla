----------------------------- MODULE ReviewBoard -----------------------------
(***************************************************************************)
(* What the comment store promises its clients, with the files left out:   *)
(* a board of readable comments, a stack of pending drafts that only their *)
(* authors see, and operations that each happen at one instant.  Drafts    *)
(* move to the board all at once and keep their text; a comment leaves it  *)
(* only by deletion, and for good (src/server/comments/comments.go,        *)
(* docs/contracts/22-comment-thread-lifecycle.md).                         *)
(***************************************************************************)
EXTENDS Naturals

VARIABLES
    board,    \* readable comments: [id, text]
    pending,  \* drafts: [id, text]
    gone      \* ids of deleted comments

boardVars == <<board, pending, gone>>

Names(rows) == {r.id : r \in rows}

BoardInit == board = {} /\ pending = {} /\ gone = {}

\* A comment that never appeared before, written directly or as a reply.
Post(i, n) ==
    /\ i \notin Names(board) \cup gone
    /\ board' = board \cup {[id |-> i, text |-> n]}
    /\ UNCHANGED <<pending, gone>>

Edit(m, n) ==
    /\ m \in board /\ n > m.text
    /\ board' = (board \ {m}) \cup {[m EXCEPT !.text = n]}
    /\ UNCHANGED <<pending, gone>>

Erase(i) ==
    /\ i \in Names(board)
    /\ board' = {m \in board : m.id # i}
    /\ gone' = gone \cup {i}
    /\ UNCHANGED pending

Save(d, n) ==
    /\ d \notin Names(pending)
    /\ pending' = pending \cup {[id |-> d, text |-> n]}
    /\ UNCHANGED <<board, gone>>

Rewrite(d, n) ==
    /\ d \in pending /\ n > d.text
    /\ pending' = (pending \ {d}) \cup {[d EXCEPT !.text = n]}
    /\ UNCHANGED <<board, gone>>

Discard(d) ==
    /\ d \in pending
    /\ pending' = pending \ {d}
    /\ UNCHANGED <<board, gone>>

\* Batch n publishes the drafts in sel: each becomes one new comment.
Publish(sel, n) ==
    LET batch == {[id |-> <<n, d.id>>, text |-> d.text] : d \in sel}
    IN  /\ sel # {} /\ sel \subseteq pending
        /\ Names(batch) \cap (Names(board) \cup gone) = {}
        /\ board' = board \cup batch
        /\ pending' = pending \ sel
        /\ UNCHANGED gone

\* Ids and texts are Nats; the module is used through CommentStore, whose steps
\* supply them.
BoardNext ==
    \/ \E m \in board' \ board : Post(m.id, m.text)
    \/ \E m \in board, n \in board' : Edit(m, n.text)
    \/ \E m \in board : Erase(m.id)
    \/ \E d \in pending' \ pending : Save(d.id, d.text)
    \/ \E d \in pending, e \in pending' : Rewrite(d, e.text)
    \/ \E d \in pending : Discard(d)
    \/ \E sel \in SUBSET pending, m \in board' \ board : Publish(sel, m.id[1])

BoardSpec == BoardInit /\ [][BoardNext]_boardVars

=============================================================================
