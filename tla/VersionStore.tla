----------------------------- MODULE VersionStore -----------------------------
(***************************************************************************)
(* What the knowledge base promises, with every upload one atomic step: a  *)
(* document has an append-only history of versions, the search finds the   *)
(* last of them and nothing else, and history and search disappear         *)
(* together.  KnowledgeBase implements it.                                 *)
(***************************************************************************)
EXTENDS Naturals, Sequences

CONSTANTS Docs, Contents

VARIABLES
    open,     \* the documents that exist
    past,     \* past[d]: the versions of d, oldest first
    found     \* found[d]: the contents a search finds for d

store == <<open, past, found>>

Init ==
    /\ open = {}
    /\ past = [d \in Docs |-> <<>>]
    /\ found = [d \in Docs |-> {}]

Open(d) ==
    /\ d \notin open
    /\ open' = open \union {d}
    /\ UNCHANGED <<past, found>>

Publish(d, bytes) ==
    /\ d \in open
    /\ past' = [past EXCEPT ![d] = Append(@, bytes)]
    /\ found' = [found EXCEPT ![d] = {bytes}]
    /\ UNCHANGED open

Drop(d) ==
    /\ d \in open
    /\ open' = open \ {d}
    /\ past' = [past EXCEPT ![d] = <<>>]
    /\ found' = [found EXCEPT ![d] = {}]

Next == \E d \in Docs :
    \/ Open(d)
    \/ \E bytes \in Contents : Publish(d, bytes)
    \/ Drop(d)

Spec == Init /\ [][Next]_store
=============================================================================
