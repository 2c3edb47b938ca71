---------------------------- MODULE StreamContract ----------------------------
(***************************************************************************)
(* What the client of POST /chats/messages may rely on: the order of the   *)
(* events of one stream.  ChatStream implements it.                        *)
(***************************************************************************)
EXTENDS SequencesExt

CONSTANTS Streams

VARIABLES told    \* told[s]: the events of stream s so far

Init == told = [s \in Streams |-> <<>>]

Tell(s, event) == told' = [told EXCEPT ![s] = Append(@, event)]

(* meta comes first *)
Meta(s) == told[s] = <<>> /\ Tell(s, "meta")

(* then the citations, once; no_citations is an empty list of them *)
Citations(s, event) ==
    /\ told[s] # <<>> /\ Last(told[s]) = "meta"
    /\ event \in {"citations", "no_citations"}
    /\ Tell(s, event)

(* then the tokens, if any *)
Token(s) ==
    /\ told[s] # <<>> /\ Last(told[s]) \in {"citations", "no_citations", "token"}
    /\ Tell(s, "token")

(* Nothing follows the end: a success has tokens, a refusal has none. *)
Success(s) ==
    /\ told[s] # <<>> /\ Last(told[s]) = "token"
    /\ Tell(s, "success")

Refusal(s) ==
    /\ told[s] # <<>> /\ Last(told[s]) \in {"citations", "no_citations"}
    /\ Tell(s, "insufficient")

Error(s) ==
    /\ told[s] # <<>>
    /\ Last(told[s]) \in {"meta", "citations", "no_citations", "token"}
    /\ Tell(s, "error")

Next == \E s \in Streams :
    \/ Meta(s) \/ Token(s) \/ Success(s) \/ Refusal(s) \/ Error(s)
    \/ \E event \in {"citations", "no_citations"} : Citations(s, event)

Spec == Init /\ [][Next]_told
=============================================================================
