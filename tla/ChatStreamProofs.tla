--------------------------- MODULE ChatStreamProofs ---------------------------
(***************************************************************************)
(* ChatStream's safety, for any streams, documents, chats and lengths of   *)
(* answers.                                                                *)
(*                                                                         *)
(* Own(s) says what a stream's place in ask_stream tells about its events, *)
(* its turn and its sources; it refers to no other stream, and other       *)
(* steps can only take documents and turns away from it.  ChatsKept is     *)
(* about several streams: the chat of an open transaction cannot come back *)
(* to a stream that lost it.                                               *)
(***************************************************************************)
EXTENDS ChatStream, TLAPS

Quiet == {"idle", "lookup", "embed", "serve", "search", "found"}
Open == {"serving", "served", "answered"}

(* What has been yielded last, by place *)
Says(s, last) == events[s] # <<>> /\ Last(events[s]) \in last

EventsOwn(s) ==
    /\ pc[s] \in Quiet => events[s] = <<>>
    /\ pc[s] \in {"serving", "nothing", "llm"} => Says(s, {"meta"})
    /\ pc[s] = "served" => Says(s, {"citations", "no_citations"})
    /\ pc[s] = "refusing" => Says(s, {"no_citations"})
    /\ pc[s] = "cited" =>
         /\ Says(s, IF tokens[s] = 0 THEN {"citations"} ELSE {"token"})
         /\ Told(s, "citations")
    /\ pc[s] = "answered" => Says(s, {"token"})
    /\ pc[s] \notin {"put", "closed"} => ~Told(s, "success")

TurnOwn(s) ==
    /\ pc[s] \in Quiet \union Open => turn[s] = None
    /\ pc[s] \in {"nothing", "llm", "cited"} /\ turn[s] # None =>
         turn[s].status = "error"
    /\ pc[s] \in Quiet \union {"nothing", "llm", "serving", "served"} => tokens[s] = 0
    /\ pc[s] = "answered" => tokens[s] = 1
    /\ turn[s] # None /\ turn[s].status = "success" =>
         turn[s].text = tokens[s] /\ tokens[s] > 0

SourcesOwn(s) ==
    /\ pc[s] \in {"serve", "serving"} => sources[s] # {}
    /\ pc[s] \in {"cited", "put"} => cites[s] # {}
    /\ pc[s] \in {"served", "answered"} \/ Told(s, "token") =>
         Told(s, "citations") \/ ~(sources[s] \subseteq docs)

Own(s) == EventsOwn(s) /\ TurnOwn(s) /\ SourcesOwn(s)

ChatsKept == \A s \in Serving :
    /\ chat[s] \in known
    /\ chat[s] \in chats \/ \A t \in Streams : t # s => chat[t] # chat[s]

DoneStored == \A s \in Streams :
    Told(s, "success") /\ ~ChatGone(s) => turn[s] # None /\ turn[s].status = "success"

Inv == TypeOK /\ (\A s \in Streams : Own(s)) /\ ChatsKept /\ DoneStored

-----------------------------------------------------------------------------
(* Sequences of events *)

LEMMA NothingTold == \A event : ~Contains(<<>>, event)
BY DEF Contains

LEMMA Appended ==
    ASSUME NEW E \in Seq(Events), NEW x \in Events
    PROVE  /\ Append(E, x) \in Seq(Events)
           /\ Append(E, x) # <<>>
           /\ Last(Append(E, x)) = x
           /\ \A event : Contains(Append(E, x), event) <=> Contains(E, event) \/ event = x
<1>1. /\ Append(E, x) \in Seq(Events)
      /\ Len(Append(E, x)) = Len(E) + 1
      /\ \A i \in 1 .. Len(E) : Append(E, x)[i] = E[i]
      /\ Append(E, x)[Len(E) + 1] = x
    OBVIOUS
<1>2. Append(E, x) # <<>>
    <2>1. Len(<<>>) = 0 /\ Len(E) \in Nat
        OBVIOUS
    <2> QED BY <1>1, <2>1
<1>3. Last(Append(E, x)) = x
    BY <1>1 DEF Last
<1>4. ASSUME NEW event
      PROVE  Contains(Append(E, x), event) <=> Contains(E, event) \/ event = x
    <2>1. Len(E) \in Nat
        OBVIOUS
    <2> QED BY <1>1, <2>1 DEF Contains
<1> QED BY <1>1, <1>2, <1>3, <1>4

LEMMA Yielded ==
    ASSUME TypeOK, NEW s \in Streams, NEW x \in Events, Yield(s, x)
    PROVE  /\ events' \in [Streams -> Seq(Events)]
           /\ events'[s] # <<>> /\ Last(events'[s]) = x
           /\ \A event : Contains(events'[s], event) <=> Told(s, event) \/ event = x
           /\ \A t \in Streams : t # s => events'[t] = events[t]
<1>1. events[s] \in Seq(Events)
    BY DEF TypeOK
<1>2. events'[s] = Append(events[s], x)
    BY DEF Yield, TypeOK
<1>3. \A t \in Streams : t # s => events'[t] = events[t]
    BY DEF Yield, TypeOK
<1>4. events' \in [Streams -> Seq(Events)]
    BY <1>1, Appended DEF Yield, TypeOK
<1> QED BY <1>1, <1>2, <1>3, <1>4, Appended DEF Told

-----------------------------------------------------------------------------
(* What other steps keep of a stream *)

LEMMA OwnKept ==
    ASSUME NEW s \in Streams, Own(s),
           pc'[s] = pc[s], events'[s] = events[s], tokens'[s] = tokens[s],
           cites'[s] = cites[s], sources'[s] = sources[s],
           docs' \subseteq docs, turn'[s] = turn[s] \/ turn'[s] = None
    PROVE  Own(s)'
<1>1. EventsOwn(s)'
    BY DEF Own, EventsOwn, Says, Told
<1>2. TurnOwn(s)'
    BY DEF Own, TurnOwn
<1>3. SourcesOwn(s)'
    BY DEF Own, SourcesOwn, Told
<1> QED BY <1>1, <1>2, <1>3 DEF Own

(* A step of stream s leaves the other streams alone. *)
Alone(s) ==
    /\ docs' = docs
    /\ \A t \in Streams : t # s =>
         /\ pc'[t] = pc[t] /\ events'[t] = events[t] /\ tokens'[t] = tokens[t]
         /\ cites'[t] = cites[t] /\ sources'[t] = sources[t]
         /\ turn'[t] = turn[t] /\ chat'[t] = chat[t]

LEMMA OwnAll ==
    ASSUME NEW s \in Streams, \A t \in Streams : Own(t), Alone(s), Own(s)'
    PROVE  (\A t \in Streams : Own(t))'
<1> SUFFICES ASSUME NEW t \in Streams PROVE Own(t)'
    OBVIOUS
<1> QED BY OwnKept DEF Alone

(* A step that makes and removes no chat, and opens no transaction *)
LEMMA SameChats ==
    ASSUME NEW s \in Streams, Inv, Alone(s), Own(s)',
           UNCHANGED <<chats, known, chat>>,
           pc'[s] \in Open => pc[s] \in Open,
           pc'[s] \in {"put", "closed"} /\ Told(s, "success")' =>
             \/ Told(s, "success") /\ turn'[s] = turn[s]
             \/ turn'[s] # None /\ turn'[s].status = "success"
    PROVE  ChatsKept' /\ DoneStored'
<1>1. ChatsKept'
    <2>1. Serving' \subseteq Serving
        BY DEF Alone, Serving, Open
    <2> QED BY <2>1 DEF Inv, ChatsKept
<1>2. DoneStored'
    <2> SUFFICES ASSUME NEW t \in Streams, Told(t, "success")', ~ChatGone(t)'
                 PROVE  turn'[t] # None /\ turn'[t].status = "success"
        BY DEF DoneStored
    <2>1. ~ChatGone(t)
        BY DEF ChatGone
    <2>2. CASE t # s
        BY <2>1, <2>2 DEF Alone, Told, Inv, DoneStored
    <2>3. CASE t = s
        BY <2>1, <2>3 DEF Own, EventsOwn, Inv, DoneStored
    <2> QED BY <2>2, <2>3
<1> QED BY <1>1, <1>2

LEMMA Initially == Init => Inv
<1> SUFFICES ASSUME Init PROVE Inv
    OBVIOUS
<1> USE DEF Init
<1>1. TypeOK
    <2>1. <<>> \in Seq(Events)
        OBVIOUS
    <2>2. 0 \in 0 .. MaxTokens
        BY TokensAssumption
    <2> QED BY <2>1, <2>2 DEF TypeOK, Places
<1>2. ASSUME NEW s \in Streams PROVE Own(s)
    BY NothingTold DEF Own, EventsOwn, TurnOwn, SourcesOwn, Told, Quiet, Open
<1>3. ChatsKept
    BY DEF ChatsKept, Serving
<1>4. DoneStored
    BY NothingTold DEF DoneStored, Told
<1> QED BY <1>1, <1>2, <1>3, <1>4 DEF Inv

-----------------------------------------------------------------------------
(* The cached path *)

LEMMA SemanticHitInv ==
    ASSUME Inv, NEW s \in Streams, SemanticHit(s)
    PROVE  Inv'
<1> USE DEF Inv, SemanticHit, Go, tables
<1>1. TypeOK'
    BY DEF TypeOK, Places
<1>2. Alone(s)
    BY DEF Alone, TypeOK
<1>3. Own(s)'
    BY NothingTold DEF Own, EventsOwn, TurnOwn, SourcesOwn, Says, Told, TypeOK, Quiet, Open
<1>4. ChatsKept' /\ DoneStored'
    BY <1>2, <1>3, SameChats DEF TypeOK, Open, Told
<1> QED BY <1>1, <1>2, <1>3, <1>4, OwnAll

LEMMA ServeTokenInv ==
    ASSUME Inv, NEW s \in Streams, ServeToken(s)
    PROVE  Inv'
<1> USE DEF Inv, ServeToken, Go, tables
<1>1. /\ events' \in [Streams -> Seq(Events)]
      /\ events'[s] # <<>> /\ Last(events'[s]) = "token"
      /\ \A event : Contains(events'[s], event) <=> Told(s, event) \/ event = "token"
      /\ \A t \in Streams : t # s => events'[t] = events[t]
    BY Yielded DEF Events
<1>2. TypeOK'
    <2>1. 1 \in 0 .. MaxTokens
        BY TokensAssumption
    <2> QED BY <1>1, <2>1 DEF TypeOK, Places
<1>3. Alone(s)
    BY <1>1 DEF Alone, TypeOK
<1>4. Own(s)'
    BY <1>1 DEF Own, EventsOwn, TurnOwn, SourcesOwn, Says, Told, TypeOK, Quiet, Open
<1>5. ChatsKept' /\ DoneStored'
    BY <1>1, <1>3, <1>4, SameChats DEF TypeOK, Open, Told
<1> QED BY <1>2, <1>3, <1>4, <1>5, OwnAll

LEMMA SemanticMissInv ==
    ASSUME Inv, NEW s \in Streams, SemanticMiss(s)
    PROVE  Inv'
<1> USE DEF Inv, SemanticMiss, Go, tables
<1>1. TypeOK'
    BY DEF TypeOK, Places
<1>2. Alone(s)
    BY DEF Alone, TypeOK
<1>3. Own(s)'
    BY DEF Own, EventsOwn, TurnOwn, SourcesOwn, Says, Told, TypeOK, Quiet, Open
<1>4. ChatsKept' /\ DoneStored'
    BY <1>2, <1>3, SameChats DEF TypeOK, Open, Told
<1> QED BY <1>1, <1>2, <1>3, <1>4, OwnAll

LEMMA RetrievalFailsInv ==
    ASSUME Inv, NEW s \in Streams, RetrievalFails(s)
    PROVE  Inv'
<1> USE DEF Inv, RetrievalFails, Go, tables
<1>1. TypeOK'
    BY DEF TypeOK, Places
<1>2. Alone(s)
    BY DEF Alone, TypeOK
<1>3. Own(s)'
    BY DEF Own, EventsOwn, TurnOwn, SourcesOwn, Says, Told, TypeOK, Quiet, Open
<1>4. ChatsKept' /\ DoneStored'
    BY <1>2, <1>3, SameChats DEF TypeOK, Open, Told
<1> QED BY <1>1, <1>2, <1>3, <1>4, OwnAll

LEMMA SearchInv ==
    ASSUME Inv, NEW s \in Streams, Search(s)
    PROVE  Inv'
<1> USE DEF Inv, Search, Go, tables
<1>1. TypeOK'
    BY DEF TypeOK, Places
<1>2. Alone(s)
    BY DEF Alone, TypeOK
<1>3. Own(s)'
    BY NothingTold DEF Own, EventsOwn, TurnOwn, SourcesOwn, Says, Told, TypeOK, Quiet, Open
<1>4. ChatsKept' /\ DoneStored'
    BY <1>2, <1>3, SameChats DEF TypeOK, Open, Told
<1> QED BY <1>1, <1>2, <1>3, <1>4, OwnAll

LEMMA TokenInv ==
    ASSUME Inv, NEW s \in Streams, Token(s)
    PROVE  Inv'
<1> USE DEF Inv, Token, Go, tables
<1>1. /\ events' \in [Streams -> Seq(Events)]
      /\ events'[s] # <<>> /\ Last(events'[s]) = "token"
      /\ \A event : Contains(events'[s], event) <=> Told(s, event) \/ event = "token"
      /\ \A t \in Streams : t # s => events'[t] = events[t]
    BY Yielded DEF Events
<1>2. TypeOK'
    <2>1. tokens' \in [Streams -> 0 .. MaxTokens]
        <3>1. tokens[s] + 1 \in 0 .. MaxTokens
            BY TokensAssumption DEF TypeOK
        <3> QED BY <3>1 DEF TypeOK
    <2> QED BY <1>1, <2>1 DEF TypeOK, Places
<1>3. Alone(s)
    BY <1>1 DEF Alone, TypeOK
<1>4. Own(s)'
    <2>1. tokens'[s] = tokens[s] + 1 /\ tokens[s] \in Nat
        BY DEF TypeOK
    <2>2. EventsOwn(s)'
        <3>1. tokens'[s] # 0 /\ pc'[s] = "cited"
            BY <2>1
        <3>2. Says(s, {"token"})' /\ Told(s, "citations")' /\ ~Told(s, "success")'
            BY <1>1 DEF Says, Told, Own, EventsOwn
        <3> QED BY <3>1, <3>2 DEF EventsOwn, Quiet, Says
    <2>3. TurnOwn(s)'
        BY <2>1 DEF Own, TurnOwn, Quiet, Open
    <2>4. SourcesOwn(s)'
        BY <1>1 DEF Own, EventsOwn, SourcesOwn, Told
    <2> QED BY <2>2, <2>3, <2>4 DEF Own
<1>5. ChatsKept' /\ DoneStored'
    BY <1>1, <1>3, <1>4, SameChats DEF TypeOK, Open, Told
<1> QED BY <1>2, <1>3, <1>4, <1>5, OwnAll

LEMMA RefuseDoneInv ==
    ASSUME Inv, NEW s \in Streams, RefuseDone(s)
    PROVE  Inv'
<1> USE DEF Inv, RefuseDone, Go, tables
<1>1. /\ events' \in [Streams -> Seq(Events)]
      /\ events'[s] # <<>> /\ Last(events'[s]) = "insufficient"
      /\ \A event : Contains(events'[s], event) <=> Told(s, event) \/ event = "insufficient"
      /\ \A t \in Streams : t # s => events'[t] = events[t]
    BY Yielded DEF Events
<1>2. TypeOK'
    BY <1>1 DEF TypeOK, Places
<1>3. Alone(s)
    BY <1>1 DEF Alone, TypeOK
<1>4. Own(s)'
    BY <1>1 DEF Own, EventsOwn, TurnOwn, SourcesOwn, Says, Told, TypeOK, Quiet, Open
<1>5. ChatsKept' /\ DoneStored'
    BY <1>1, <1>3, <1>4, SameChats DEF TypeOK, Open, Told
<1> QED BY <1>2, <1>3, <1>4, <1>5, OwnAll

LEMMA SuccessInv ==
    ASSUME Inv, NEW s \in Streams, Success(s)
    PROVE  Inv'
<1> USE DEF Inv, Success, Go, tables
<1> DEFINE new == [status |-> "success", text |-> tokens[s]]
<1>0. new \in Turns /\ turn' = [turn EXCEPT ![s] = new] /\ turn'[s] = new /\ new # None
    BY NoTurnAssumption DEF Turns, TypeOK
<1>1. /\ events' \in [Streams -> Seq(Events)]
      /\ events'[s] # <<>> /\ Last(events'[s]) = "success"
      /\ \A event : Contains(events'[s], event) <=> Told(s, event) \/ event = "success"
      /\ \A t \in Streams : t # s => events'[t] = events[t]
    BY Yielded DEF Events
<1>2. TypeOK'
    BY <1>0, <1>1 DEF TypeOK, Places
<1>3. Alone(s)
    BY <1>1 DEF Alone, TypeOK
<1>4. Own(s)'
    BY <1>0, <1>1 DEF Own, EventsOwn, TurnOwn, SourcesOwn, Says, Told, TypeOK, Quiet, Open
<1>5. ChatsKept' /\ DoneStored'
    BY <1>0, <1>1, <1>3, <1>4, SameChats DEF Open, Told
<1> QED BY <1>2, <1>3, <1>4, <1>5, OwnAll

LEMMA PutInv ==
    ASSUME Inv, NEW s \in Streams, Put(s)
    PROVE  Inv'
<1> USE DEF Inv, Put, Go, tables
<1>1. TypeOK'
    BY DEF TypeOK, Places, Own, SourcesOwn
<1>2. Alone(s)
    BY DEF Alone, TypeOK
<1>3. Own(s)'
    BY DEF Own, EventsOwn, TurnOwn, SourcesOwn, Says, Told, TypeOK, Quiet, Open
<1>4. ChatsKept' /\ DoneStored'
    BY <1>2, <1>3, SameChats DEF TypeOK, Open, Told
<1> QED BY <1>1, <1>2, <1>3, <1>4, OwnAll

LEMMA LlmFailsInv ==
    ASSUME Inv, NEW s \in Streams, LlmFails(s)
    PROVE  Inv'
<1> USE DEF Inv, LlmFails, Go, tables
<1> DEFINE new == [status |-> "error", text |-> ErrorText]
<1>0. new \in Turns /\ turn' = [turn EXCEPT ![s] = new] /\ turn'[s] = new /\ new # None
    BY NoTurnAssumption DEF Turns, TypeOK
<1>1. /\ events' \in [Streams -> Seq(Events)]
      /\ events'[s] # <<>> /\ Last(events'[s]) = "error"
      /\ \A event : Contains(events'[s], event) <=> Told(s, event) \/ event = "error"
      /\ \A t \in Streams : t # s => events'[t] = events[t]
    BY Yielded DEF Events
<1>2. TypeOK'
    BY <1>0, <1>1 DEF TypeOK, Places
<1>3. Alone(s)
    BY <1>1 DEF Alone, TypeOK
<1>4. Own(s)'
    BY <1>0, <1>1 DEF Own, EventsOwn, TurnOwn, SourcesOwn, Says, Told, TypeOK, Quiet, Open
<1>5. ChatsKept' /\ DoneStored'
    <2>1. ~Told(s, "success")
        BY DEF Own, EventsOwn
    <2> QED BY <2>1, <1>0, <1>1, <1>3, <1>4, SameChats DEF Open, Told
<1> QED BY <1>2, <1>3, <1>4, <1>5, OwnAll

LEMMA StreamFailsInv ==
    ASSUME Inv, NEW s \in Streams, StreamFails(s)
    PROVE  Inv'
<1> USE DEF Inv, StreamFails, Go, tables
<1>1. /\ events' \in [Streams -> Seq(Events)]
      /\ events'[s] # <<>> /\ Last(events'[s]) = "error"
      /\ \A event : Contains(events'[s], event) <=> Told(s, event) \/ event = "error"
      /\ \A t \in Streams : t # s => events'[t] = events[t]
    BY Yielded DEF Events
<1>2. TypeOK'
    BY <1>1 DEF TypeOK, Places
<1>3. Alone(s)
    BY <1>1 DEF Alone, TypeOK
<1>4. Own(s)'
    BY <1>1 DEF Own, EventsOwn, TurnOwn, SourcesOwn, Says, Told, TypeOK, Quiet, Open
<1>5. ChatsKept' /\ DoneStored'
    BY <1>1, <1>3, <1>4, SameChats DEF TypeOK, Open, Told
<1> QED BY <1>2, <1>3, <1>4, <1>5, OwnAll

LEMMA LeaveInv ==
    ASSUME Inv, NEW s \in Streams, Leave(s)
    PROVE  Inv'
<1> USE DEF Inv, Leave, Go
<1>1. \/ turn' = turn
      \/ /\ pc[s] \in {"llm", "cited"}
         /\ \E new \in Turns :
              /\ turn' = [turn EXCEPT ![s] = new]
              /\ new.text = tokens[s]
              /\ new.status = IF tokens[s] > 0 THEN "success" ELSE "error"
    BY DEF TypeOK, Turns
<1>2. TypeOK'
    BY ZenonT(60), <1>1 DEF TypeOK, Places
<1>3. Alone(s)
    BY DEF Alone, TypeOK
<1>4. turn'[s] = turn[s] \/ pc[s] \in {"llm", "cited"}
    BY <1>1
<1>5. Own(s)'
    <2>1. EventsOwn(s)'
        BY DEF TypeOK, EventsOwn, Told, Quiet
    <2>2. TurnOwn(s)'
        BY <1>1 DEF Own, TurnOwn, TypeOK, Quiet, Open
    <2>3. SourcesOwn(s)'
        BY DEF Own, SourcesOwn, Told, TypeOK
    <2> QED BY <2>1, <2>2, <2>3 DEF Own
<1>6. ChatsKept' /\ DoneStored'
    <2>1. pc[s] \in {"llm", "cited"} => ~Told(s, "success")
        BY DEF Own, EventsOwn
    <2> QED BY <1>3, <1>4, <1>5, <2>1, SameChats DEF TypeOK, Open, Told
<1> QED BY <1>2, <1>3, <1>5, <1>6, OwnAll

LEMMA ServeCitationsInv ==
    ASSUME Inv, NEW s \in Streams, ServeCitations(s)
    PROVE  Inv'
<1> USE DEF Inv, ServeCitations, Go, tables
<1> DEFINE kind == IF cites'[s] = {} THEN "no_citations" ELSE "citations"
<1>1. cites'[s] = sources[s] \intersect docs /\ kind \in {"citations", "no_citations"}
    BY DEF TypeOK
<1>2. /\ events' \in [Streams -> Seq(Events)]
      /\ events'[s] # <<>> /\ Last(events'[s]) = kind
      /\ \A event : Contains(events'[s], event) <=> Told(s, event) \/ event = kind
      /\ \A t \in Streams : t # s => events'[t] = events[t]
    <2> HIDE DEF kind
    <2>1. kind \in Events
        BY <1>1 DEF Events
    <2>2. Yield(s, kind)
        BY DEF kind
    <2> QED BY <2>1, <2>2, Yielded
<1>3. TypeOK'
    BY <1>2 DEF TypeOK, Places
<1>4. Alone(s)
    BY <1>2 DEF Alone, TypeOK
<1>5. Own(s)'
    <2>1. EventsOwn(s)'
        BY <1>1, <1>2 DEF Own, EventsOwn, Says, Told, TypeOK, Quiet
    <2>2. TurnOwn(s)'
        BY DEF Own, TurnOwn, TypeOK, Quiet, Open
    <2>3. SourcesOwn(s)'
        <3>1. sources[s] # {} /\ sources'[s] = sources[s] /\ docs' = docs
            BY DEF Own, SourcesOwn
        <3>2. Told(s, "citations")' \/ ~(sources[s] \subseteq docs)
            BY <1>1, <1>2, <3>1 DEF Told
        <3> QED BY <3>1, <3>2 DEF SourcesOwn, TypeOK
    <2> QED BY <2>1, <2>2, <2>3 DEF Own
<1>6. ChatsKept' /\ DoneStored'
    BY <1>4, <1>5, SameChats DEF TypeOK, Open
<1> QED BY <1>3, <1>4, <1>5, <1>6, OwnAll

LEMMA CiteInv ==
    ASSUME Inv, NEW s \in Streams, Cite(s)
    PROVE  Inv'
<1> USE DEF Inv, Cite, PersistCitations, Go, tables
<1>1. /\ events' \in [Streams -> Seq(Events)]
      /\ events'[s] # <<>> /\ Last(events'[s]) = "citations"
      /\ \A event : Contains(events'[s], event) <=> Told(s, event) \/ event = "citations"
      /\ \A t \in Streams : t # s => events'[t] = events[t]
    BY Yielded DEF Events
<1>2. TypeOK'
    <2>1. cites' \in [Streams -> SUBSET Docs]
        BY DEF TypeOK
    <2> QED BY <1>1, <2>1 DEF TypeOK, Places
<1>3. Alone(s)
    BY <1>1 DEF Alone, TypeOK
<1>4. Own(s)'
    BY <1>1 DEF Own, EventsOwn, TurnOwn, SourcesOwn, Says, Told, TypeOK, Quiet, Open
<1>5. ChatsKept' /\ DoneStored'
    BY <1>3, <1>4, SameChats DEF TypeOK, Open
<1> QED BY <1>2, <1>3, <1>4, <1>5, OwnAll

LEMMA RefuseInv ==
    ASSUME Inv, NEW s \in Streams, Refuse(s)
    PROVE  Inv'
<1> USE DEF Inv, Refuse, PersistCitations, Go
<1> DEFINE new == [status |-> "insufficient", text |-> 0]
           kind == IF pc[s] = "cited" THEN "insufficient" ELSE "no_citations"
<1>0. new \in Turns /\ turn' = [turn EXCEPT ![s] = new] /\ turn'[s] = new
    BY TokensAssumption DEF Turns, TypeOK
<1>1. kind \in {"insufficient", "no_citations"}
    OBVIOUS
<1>2. /\ events' \in [Streams -> Seq(Events)]
      /\ events'[s] # <<>> /\ Last(events'[s]) = kind
      /\ \A event : Contains(events'[s], event) <=> Told(s, event) \/ event = kind
      /\ \A t \in Streams : t # s => events'[t] = events[t]
    <2>2. Yield(s, kind)
        OBVIOUS
    <2>1. kind \in Events
        BY DEF Events
    <2> HIDE DEF kind
    <2> QED BY <2>1, <2>2, Yielded
<1>3. TypeOK'
    <2>1. cites' \in [Streams -> SUBSET Docs]
        <3>1. cites' = cites \/ \E D \in SUBSET docs : cites' = [cites EXCEPT ![s] = D]
            OBVIOUS
        <3>2. cites \in [Streams -> SUBSET Docs] /\ docs \subseteq Docs
            BY DEF TypeOK
        <3> HIDE DEF Inv, Refuse
        <3>3. CASE cites' = cites
            BY <3>2, <3>3
        <3>4. CASE \E D \in SUBSET docs : cites' = [cites EXCEPT ![s] = D]
            <4>1. PICK D \in SUBSET docs : cites' = [cites EXCEPT ![s] = D]
                BY <3>4
            <4>2. D \in SUBSET Docs
                BY <3>2, <4>1
            <4> QED BY <3>2, <4>1, <4>2
        <3> QED BY <3>1, <3>3, <3>4
    <2>2. pc' \in [Streams -> Places]
        <3>1. {"closed", "refusing"} \subseteq Places
            BY DEF Places
        <3> QED BY <3>1 DEF TypeOK
    <2>3. turn' \in [Streams -> Turns \union {None}]
        BY <1>0 DEF TypeOK
    <2> QED BY <1>2, <2>1, <2>2, <2>3 DEF TypeOK
<1>4. Alone(s)
    BY <1>0, <1>2 DEF Alone, TypeOK
<1>5. pc'[s] = IF pc[s] = "cited" THEN "closed" ELSE "refusing"
    BY DEF TypeOK
<1>6. Own(s)'
    <2>1. EventsOwn(s)'
        BY <1>2, <1>5 DEF Own, EventsOwn, Says, Told, Quiet
    <2>2. TurnOwn(s)'
        BY <1>0, <1>5 DEF Own, TurnOwn, Quiet, Open
    <2>3. SourcesOwn(s)'
        BY <1>2, <1>5 DEF Own, SourcesOwn, Told, Quiet
    <2> QED BY <2>1, <2>2, <2>3 DEF Own
<1>7. ChatsKept' /\ DoneStored'
    <2>1. ~Told(s, "success")'
        BY <1>2 DEF Own, EventsOwn, Told
    <2> QED BY <1>4, <1>5, <1>6, <2>1, SameChats DEF Open
<1> QED BY <1>3, <1>4, <1>6, <1>7, OwnAll

-----------------------------------------------------------------------------
(* The steps that choose, make and commit chats *)

LEMMA AskInv ==
    ASSUME Inv, NEW s \in Streams, Ask(s)
    PROVE  Inv'
<1> USE NoneAssumption DEF Inv, Ask, Go, tables
<1>1. PICK c \in chats \union {None} : chat' = [chat EXCEPT ![s] = c]
    BY Zenon
<1>2. TypeOK'
    BY <1>1 DEF TypeOK, Places
<1>3. Alone(s)
    BY DEF Alone, TypeOK
<1>4. Own(s)'
    BY DEF Own, EventsOwn, TurnOwn, SourcesOwn, Says, Told, TypeOK, Quiet, Open
<1>5. ChatsKept'
    <2> SUFFICES ASSUME NEW t \in Serving'
                 PROVE  /\ chat'[t] \in known
                        /\ chat'[t] \in chats \/ \A u \in Streams : u # t => chat'[u] # chat'[t]
        BY DEF ChatsKept
    <2>1. t \in Serving /\ t # s /\ t \in Streams
        BY DEF Serving, TypeOK
    <2>2. chat'[t] = chat[t] /\ chat'[s] = c /\ chat[t] \in Chats
        BY <1>1, <2>1 DEF ChatsKept, TypeOK
    <2>3. \A u \in Streams : u # s => chat'[u] = chat[u]
        BY <1>3 DEF Alone
    <2> QED BY <2>1, <2>2, <2>3 DEF ChatsKept
<1>6. DoneStored'
    BY <1>3, <1>4 DEF DoneStored, Alone, Told, ChatGone, Own, EventsOwn, TypeOK
<1> QED BY <1>2, <1>3, <1>4, <1>5, <1>6, OwnAll

(* A chat is chosen by a stream that has it, or is new to all streams. *)
LEMMA Resolved ==
    ASSUME Inv, NEW s \in Streams, NEW c \in Chats, ~ChatGone(s), ResolveChat(s, c)
    PROVE  /\ known' = known \union {c} /\ chat'[s] = c
           /\ chat' \in [Streams -> known' \union {None}]
           /\ \A t \in Streams : t # s => chat'[t] = chat[t]
           /\ \/ chat[s] = c /\ c \in chats
              \/ \A t \in Streams : chat[t] # c
BY NoneAssumption DEF Inv, TypeOK, ResolveChat, ChatGone

LEMMA ResolvedChats ==
    ASSUME Inv, NEW s \in Streams, NEW c \in Chats, ~ChatGone(s), ResolveChat(s, c),
           Alone(s), chats' \in {chats, chats \union {c}}, ~Told(s, "success")',
           pc[s] \in Quiet
    PROVE  ChatsKept' /\ DoneStored'
<1> USE DEF Inv
<1>1. ChatsKept'
    <2> SUFFICES ASSUME NEW t \in Serving'
                 PROVE  /\ chat'[t] \in known'
                        /\ \/ chat'[t] \in chats'
                           \/ \A u \in Streams : u # t => chat'[u] # chat'[t]
        BY DEF ChatsKept
    <2>1. CASE t = s
        BY <2>1, Resolved
    <2>2. CASE t # s
        <3>1. t \in Serving /\ t \in Streams
            BY <2>2 DEF Alone, Serving
        <3>2. chat'[t] = chat[t] /\ chat[t] \in known
            BY <2>2, <3>1, Resolved DEF ChatsKept
        <3>3. CASE chat[t] \in chats
            BY <3>2, <3>3, Resolved
        <3>4. CASE \A u \in Streams : u # t => chat[u] # chat[t]
            BY <2>2, <3>1, <3>2, <3>4, Resolved
        <3> QED BY <3>1, <3>3, <3>4 DEF ChatsKept
    <2> QED BY <2>1, <2>2
<1>2. DoneStored'
    <2> SUFFICES ASSUME NEW t \in Streams, Told(t, "success")', ~ChatGone(t)'
                 PROVE  turn'[t] # None /\ turn'[t].status = "success"
        BY DEF DoneStored
    <2>1. t # s
        OBVIOUS
    <2>2. ~ChatGone(t)
        BY <2>1, Resolved DEF ChatGone
    <2> QED BY <2>1, <2>2 DEF Alone, Told, DoneStored
<1> QED BY <1>1, <1>2

(* _serve_cached_stream, of a grounded answer *)
LEMMA BeginServeInv ==
    ASSUME Inv, NEW s \in Streams, NEW answer \in (SUBSET Docs) \ {{}},
           BeginServe(s, answer), pc[s] \in {"lookup", "serve"},
           UNCHANGED <<cache, frozen, cites, tokens, stale>>
    PROVE  Inv'
<1> USE DEF Inv, Go, tables
<1>1. CASE pc' = [pc EXCEPT ![s] = "closed"] /\ UNCHANGED <<tables, chat, sources, events>>
    <2> USE <1>1
    <2>1. TypeOK'
        BY DEF TypeOK, Places
    <2>2. Alone(s)
        BY DEF Alone, TypeOK
    <2>3. Own(s)'
        BY DEF Own, EventsOwn, TurnOwn, SourcesOwn, Says, Told, TypeOK, Quiet, Open
    <2>4. ChatsKept' /\ DoneStored'
        BY <2>2, <2>3, SameChats DEF TypeOK, Open, Told
    <2> QED BY <2>1, <2>2, <2>3, <2>4, OwnAll
<1>2. CASE /\ ~NoChat(s)
           /\ \E c \in Chats : ResolveChat(s, c)
           /\ sources' = [sources EXCEPT ![s] = answer] /\ Yield(s, "meta")
           /\ pc' = [pc EXCEPT ![s] = "serving"]
           /\ UNCHANGED <<docs, chats, filed, category, turn>>
    <2> USE <1>2 DEF NoChat
    <2>1. PICK c \in Chats : ResolveChat(s, c)
        OBVIOUS
    <2>2. /\ sources' = [sources EXCEPT ![s] = answer] /\ Yield(s, "meta")
          /\ pc' = [pc EXCEPT ![s] = "serving"] /\ UNCHANGED <<docs, chats, filed, category, turn>>
        OBVIOUS
    <2>3. /\ events' \in [Streams -> Seq(Events)]
          /\ events'[s] # <<>> /\ Last(events'[s]) = "meta"
          /\ \A event : Contains(events'[s], event) <=> Told(s, event) \/ event = "meta"
          /\ \A t \in Streams : t # s => events'[t] = events[t]
        BY <2>2, Yielded DEF Events
    <2>4. TypeOK'
        <3>1. known' \subseteq Chats /\ known \subseteq known'
            BY <2>1, Resolved DEF TypeOK
        <3>2. pc' \in [Streams -> Places] /\ sources' \in [Streams -> SUBSET Docs]
            BY <2>2 DEF TypeOK, Places
        <3>3. chat' \in [Streams -> known' \union {None}]
            BY <2>1, Resolved DEF TypeOK
        <3> QED BY <2>2, <2>3, <3>1, <3>2, <3>3 DEF TypeOK
    <2>5. Alone(s)
        BY <2>1, <2>2, <2>3, Resolved DEF Alone, TypeOK
    <2>6. Own(s)'
        <3> HIDE <1>2
        <3>1. pc'[s] = "serving" /\ sources'[s] = answer
            BY <2>2 DEF TypeOK
        <3>2. EventsOwn(s)'
            BY <2>3, <3>1 DEF Own, EventsOwn, Says, Told, Quiet
        <3>3. TurnOwn(s)'
            BY <2>2, <3>1 DEF Own, TurnOwn, Quiet, Open
        <3>4. SourcesOwn(s)'
            BY <2>3, <3>1, NothingTold DEF Own, EventsOwn, SourcesOwn, Told, Quiet
        <3> QED BY <3>2, <3>3, <3>4 DEF Own
    <2>7. ~Told(s, "success")'
        BY <2>2, <2>6 DEF Own, EventsOwn, TypeOK
    <2>8. ChatsKept' /\ DoneStored'
        BY <2>1, <2>2, <2>5, <2>7, ResolvedChats DEF Quiet
    <2> QED BY <2>4, <2>5, <2>6, <2>8, OwnAll
<1> QED BY <1>1, <1>2 DEF BeginServe

LEMMA LookupInv ==
    ASSUME Inv, NEW s \in Streams, Lookup(s)
    PROVE  Inv'
<1> USE DEF Inv, Go
<1>1. CASE \E answer \in cache : BeginServe(s, answer)
    BY <1>1, BeginServeInv DEF Lookup, TypeOK
<1>2. CASE pc' = [pc EXCEPT ![s] = "embed"] /\ UNCHANGED <<tables, chat, sources, events>>
    <2> USE <1>2 DEF Lookup, tables
    <2>1. TypeOK'
        BY DEF TypeOK, Places
    <2>2. Alone(s)
        BY DEF Alone, TypeOK
    <2>3. Own(s)'
        BY DEF Own, EventsOwn, TurnOwn, SourcesOwn, Says, Told, TypeOK, Quiet, Open
    <2>4. ChatsKept' /\ DoneStored'
        BY <2>2, <2>3, SameChats DEF TypeOK, Open
    <2> QED BY <2>1, <2>2, <2>3, <2>4, OwnAll
<1> QED BY <1>1, <1>2 DEF Lookup

LEMMA ServeInv ==
    ASSUME Inv, NEW s \in Streams, Serve(s)
    PROVE  Inv'
<1>1. sources[s] \in (SUBSET Docs) \ {{}}
    BY DEF Inv, Serve, Own, SourcesOwn, TypeOK
<1> QED BY <1>1, BeginServeInv DEF Serve

LEMMA PlaceholderInv ==
    ASSUME Inv, NEW s \in Streams, Placeholder(s)
    PROVE  Inv'
<1> USE DEF Inv, Go, tables
<1>1. CASE pc' = [pc EXCEPT ![s] = "closed"] /\ UNCHANGED <<tables, chat, events>>
    <2> USE <1>1 DEF Placeholder
    <2>1. TypeOK'
        BY DEF TypeOK, Places
    <2>2. Alone(s)
        BY DEF Alone, TypeOK
    <2>3. Own(s)'
        BY DEF Own, EventsOwn, TurnOwn, SourcesOwn, Says, Told, TypeOK, Quiet, Open
    <2>4. ChatsKept' /\ DoneStored'
        BY <2>2, <2>3, SameChats DEF TypeOK, Open, Told
    <2> QED BY <2>1, <2>2, <2>3, <2>4, OwnAll
<1>2. CASE /\ ~NoChat(s)
           /\ \E c \in Chats : ResolveChat(s, c) /\ chats' = chats \union {c}
           /\ turn' = [turn EXCEPT ![s] = [status |-> "error", text |-> 0]]
           /\ Yield(s, "meta")
           /\ pc' = [pc EXCEPT ![s] = IF sources[s] = {} THEN "nothing" ELSE "llm"]
           /\ UNCHANGED <<docs, filed, category>>
    <2> USE <1>2 DEF NoChat
    <2> DEFINE new == [status |-> "error", text |-> 0]
    <2>1. PICK c \in Chats : ResolveChat(s, c) /\ chats' = chats \union {c}
        OBVIOUS
    <2>2. /\ pc[s] = "found" /\ Yield(s, "meta") /\ pc'[s] \in {"nothing", "llm"}
          /\ pc' \in [Streams -> Places] /\ \A t \in Streams : t # s => pc'[t] = pc[t]
          /\ UNCHANGED <<docs, filed, category, cache, frozen, sources, cites, tokens, stale>>
        BY DEF Placeholder, TypeOK, Places
    <2>3. new \in Turns /\ turn' = [turn EXCEPT ![s] = new] /\ turn'[s] = new
        BY TokensAssumption DEF Turns, TypeOK
    <2>4. /\ events' \in [Streams -> Seq(Events)]
          /\ events'[s] # <<>> /\ Last(events'[s]) = "meta"
          /\ \A event : Contains(events'[s], event) <=> Told(s, event) \/ event = "meta"
          /\ \A t \in Streams : t # s => events'[t] = events[t]
        BY <2>2, Yielded DEF Events
    <2>5. TypeOK'
        <3>1. known' \subseteq Chats /\ known \subseteq known' /\ chats' \subseteq known'
            BY <2>1, Resolved DEF TypeOK
        <3>2. filed' \subseteq chats'
            BY <2>1, <2>2 DEF TypeOK
        <3> QED BY <2>1, <2>2, <2>3, <2>4, <3>1, <3>2, Resolved DEF TypeOK
    <2>6. Alone(s)
        BY <2>1, <2>2, <2>3, <2>4, Resolved DEF Alone, TypeOK
    <2>7. Own(s)'
        <3>1. EventsOwn(s)'
            BY <2>2, <2>4 DEF Own, EventsOwn, Says, Told, Quiet
        <3>2. TurnOwn(s)'
            BY <2>2, <2>3 DEF Own, TurnOwn, Quiet, Open
        <3>3. SourcesOwn(s)'
            BY <2>2, <2>4, NothingTold DEF Own, EventsOwn, SourcesOwn, Told, Quiet
        <3> QED BY <3>1, <3>2, <3>3 DEF Own
    <2>8. ~Told(s, "success")'
        BY <2>2, <2>7 DEF Own, EventsOwn
    <2>9. ChatsKept' /\ DoneStored'
        BY <2>1, <2>2, <2>6, <2>8, ResolvedChats DEF Quiet
    <2> QED BY <2>5, <2>6, <2>7, <2>9, OwnAll
<1> QED BY <1>1, <1>2 DEF Placeholder

LEMMA ServeCommitInv ==
    ASSUME Inv, NEW s \in Streams, ServeCommit(s)
    PROVE  Inv'
<1> USE DEF Inv, ServeCommit, Go
<1> DEFINE new == [status |-> "success", text |-> 1]
<1>1. new \in Turns /\ turn' = [turn EXCEPT ![s] = new] /\ turn'[s] = new /\ new # None
    BY TokensAssumption, NoTurnAssumption DEF Turns, TypeOK
<1>2. /\ events' \in [Streams -> Seq(Events)]
      /\ events'[s] # <<>> /\ Last(events'[s]) = "success"
      /\ \A event : Contains(events'[s], event) <=> Told(s, event) \/ event = "success"
      /\ \A t \in Streams : t # s => events'[t] = events[t]
    BY Yielded DEF Events
<1>3. chat[s] \in known /\ s \in Serving
    BY DEF ChatsKept, Serving
<1>4. TypeOK'
    BY <1>1, <1>2, <1>3 DEF TypeOK, Places
<1>5. Alone(s)
    BY <1>1, <1>2 DEF Alone, TypeOK
<1>6. Own(s)'
    BY <1>1, <1>2 DEF Own, EventsOwn, TurnOwn, SourcesOwn, Says, Told, TypeOK, Quiet, Open
<1>7. ChatsKept'
    <2>1. Serving' \subseteq Serving
        BY DEF Serving, TypeOK
    <2> QED BY <2>1 DEF ChatsKept
<1>8. DoneStored'
    <2> SUFFICES ASSUME NEW t \in Streams, t # s, Told(t, "success")', ~ChatGone(t)'
                 PROVE  turn'[t] # None /\ turn'[t].status = "success"
        BY <1>1 DEF DoneStored
    <2>1. ~ChatGone(t)
        BY <1>3 DEF ChatGone, ChatsKept
    <2> QED BY <1>5, <2>1 DEF Alone, Told, DoneStored
<1> QED BY <1>4, <1>5, <1>6, <1>7, <1>8, OwnAll

-----------------------------------------------------------------------------
(* What happens beside the streams *)

(* Documents, chats and turns of removed chats go; no open transaction       *)
(* loses its chat.                                                           *)
LEMMA Removed ==
    ASSUME Inv, TypeOK', UNCHANGED <<known, pc, chat, sources, cites, tokens, events>>,
           docs' \subseteq docs, chats' \subseteq chats,
           \A s \in Serving : chat[s] \in chats => chat[s] \in chats',
           \A s \in Streams :
             turn'[s] = turn[s] \/ (turn'[s] = None /\ chat[s] \in Chats \ chats')
    PROVE  Inv'
<1> USE DEF Inv
<1>1. ASSUME NEW s \in Streams PROVE Own(s)'
    BY OwnKept
<1>2. ChatsKept'
    <2>1. Serving' = Serving
        BY DEF Serving
    <2> QED BY <2>1 DEF ChatsKept
<1>3. DoneStored'
    BY NoneAssumption DEF DoneStored, Told, ChatGone
<1> QED BY <1>1, <1>2, <1>3

LEMMA FileChatInv ==
    ASSUME Inv, NEW c \in Chats, FileChat(c)
    PROVE  Inv'
<1>1. TypeOK'
    BY DEF Inv, FileChat, local, TypeOK
<1> QED BY <1>1, Removed DEF FileChat, local

LEMMA DeleteChatInv ==
    ASSUME Inv, NEW c \in Chats, DeleteChat(c)
    PROVE  Inv'
<1> USE DEF DeleteChat, RemoveChats, local
<1>1. TypeOK'
    BY DEF Inv, TypeOK
<1>2. \A s \in Serving : chat[s] # c
    BY DEF ChatLocked
<1>3. \A s \in Streams : turn'[s] = turn[s] \/ (turn'[s] = None /\ chat[s] \in Chats \ chats')
    OBVIOUS
<1> QED BY <1>1, <1>2, <1>3, Removed

LEMMA DeleteFolderInv ==
    ASSUME Inv, DeleteFolder
    PROVE  Inv'
<1> USE DEF DeleteFolder, local
<1>1. CASE frozen' = TRUE /\ UNCHANGED tables
    <2>1. TypeOK'
        BY <1>1 DEF Inv, TypeOK, tables
    <2> QED BY <1>1, <2>1, Removed DEF tables
<1>2. CASE /\ \A c \in filed : ~ChatLocked(c)
           /\ RemoveChats(filed)
           /\ UNCHANGED <<docs, known, category, frozen>>
    <2> USE <1>2 DEF RemoveChats
    <2>1. TypeOK'
        BY DEF Inv, TypeOK
    <2>2. \A s \in Serving : chat[s] \notin filed
        BY DEF ChatLocked
    <2>3. \A s \in Streams : turn'[s] = turn[s] \/ (turn'[s] = None /\ chat[s] \in Chats \ chats')
        BY DEF Inv, TypeOK
    <2> QED BY <2>1, <2>2, <2>3, Removed
<1> QED BY <1>1, <1>2

LEMMA DeleteDocumentInv ==
    ASSUME Inv, NEW d \in Docs, DeleteDocument(d)
    PROVE  Inv'
<1> USE DEF DeleteDocument, Invalidate
<1>1. TypeOK'
    BY DEF Inv, TypeOK
<1> QED BY <1>1, Removed

LEMMA DeleteCategoryInv ==
    ASSUME Inv, DeleteCategory
    PROVE  Inv'
<1> USE DEF DeleteCategory, local
<1>1. TypeOK'
    BY DEF Inv, TypeOK
<1> QED BY <1>1, Removed

LEMMA NewVersionInv ==
    ASSUME Inv, NewVersion
    PROVE  Inv'
<1> USE DEF NewVersion, Invalidate, tables
<1>1. TypeOK'
    BY DEF Inv, TypeOK
<1> QED BY <1>1, Removed

LEMMA CrashInv ==
    ASSUME Inv, Crash
    PROVE  Inv'
<1> USE DEF Inv, Crash, tables
<1>1. TypeOK'
    BY DEF TypeOK, Places
<1>2. ASSUME NEW s \in Streams PROVE Own(s)'
    <2>1. (pc'[s] = "idle" /\ pc[s] = "idle") \/ pc'[s] = "closed"
        OBVIOUS
    <2>2. Own(s)
        OBVIOUS
    <2>3. EventsOwn(s)'
        BY <2>1, <2>2 DEF Own, EventsOwn, Told, Quiet
    <2>4. TurnOwn(s)'
        BY <2>1, <2>2 DEF Own, TurnOwn, Quiet, Open
    <2>5. SourcesOwn(s)'
        BY <2>1, <2>2 DEF Own, SourcesOwn, Told
    <2> QED BY <2>3, <2>4, <2>5 DEF Own
<1>3. ChatsKept'
    BY DEF ChatsKept, Serving
<1>4. DoneStored'
    BY DEF DoneStored, Told, ChatGone
<1> QED BY <1>1, <1>2, <1>3, <1>4

-----------------------------------------------------------------------------

LEMMA NextInv ==
    ASSUME Inv, [Next]_vars
    PROVE  Inv'
<1>1. CASE UNCHANGED vars
    <2>1. TypeOK'
        BY <1>1 DEF Inv, TypeOK, vars, tables, local
    <2> QED BY <1>1, <2>1, Removed DEF vars, tables, local
<1>2. ASSUME NEW s \in Streams, Step(s) PROVE Inv'
    BY <1>2, LookupInv, SemanticHitInv, ServeInv, ServeCitationsInv, ServeTokenInv,
       ServeCommitInv, SemanticMissInv, RetrievalFailsInv, SearchInv, PlaceholderInv,
       CiteInv, TokenInv, RefuseInv, RefuseDoneInv, SuccessInv, PutInv, LlmFailsInv,
       StreamFailsInv
       DEF Step
<1>3. ASSUME NEW s \in Streams, Ask(s) \/ Leave(s) PROVE Inv'
    BY <1>3, AskInv, LeaveInv
<1>4. ASSUME NEW c \in Chats, FileChat(c) \/ DeleteChat(c) PROVE Inv'
    BY <1>4, FileChatInv, DeleteChatInv
<1>5. ASSUME NEW d \in Docs, DeleteDocument(d) PROVE Inv'
    BY <1>5, DeleteDocumentInv
<1>6. CASE DeleteFolder \/ DeleteCategory \/ NewVersion \/ Crash
    BY <1>6, DeleteFolderInv, DeleteCategoryInv, NewVersionInv, CrashInv
<1> QED BY <1>1, <1>2, <1>3, <1>4, <1>5, <1>6 DEF Next

LEMMA Invariance == Spec => []Inv
BY Initially, NextInv, PTL DEF Spec

(* Every variable keeps its type; the cache holds grounded answers only     *)
(* (ChatStream!TypeOK).                                                     *)
THEOREM TypeCorrect == Spec => []TypeOK
<1>1. Inv => TypeOK
    BY DEF Inv
<1> QED BY <1>1, Invariance, PTL

(* What is stored of an answer is what was sent of it, and what was done is *)
(* stored until its chat is deleted (ask_stream, _persist_interrupted,      *)
(* _serve_cached_stream).                                                   *)
THEOREM Stored == Spec => []StoredAsSent
<1>1. Inv => StoredAsSent
    BY DEF Inv, StoredAsSent, DoneStored, Own, TurnOwn
<1> QED BY <1>1, Invariance, PTL

(* No answer without a source unless a document was deleted (the grounding  *)
(* gate of ask_stream).                                                     *)
THEOREM Sourced == Spec => []SourcedUnlessDeleted
<1>1. Inv => SourcedUnlessDeleted
    BY DEF Inv, SourcedUnlessDeleted, Own, SourcesOwn
<1> QED BY <1>1, Invariance, PTL

-----------------------------------------------------------------------------
(* Every event of a stream is one the contract allows next. *)

LEMMA TellYielded ==
    ASSUME NEW s \in Streams, NEW x, Yield(s, x)
    PROVE  Contract!Tell(s, x)
BY DEF Yield, Contract!Tell

LEMMA StepContract ==
    ASSUME Inv, NEW s \in Streams, Step(s)
    PROVE  Contract!Next \/ UNCHANGED events
<1> USE DEF Inv, Own, EventsOwn, Says, Last, Contract!Last
<1>1. CASE Lookup(s) \/ Serve(s) \/ Placeholder(s)
    <2>1. UNCHANGED events \/ (events[s] = <<>> /\ Yield(s, "meta"))
        BY <1>1 DEF Lookup, Serve, Placeholder, BeginServe, Quiet
    <2> QED BY <2>1, TellYielded DEF Contract!Meta, Contract!Next
<1>2. CASE ServeCitations(s) \/ Cite(s)
    <2>1. \E event \in {"citations", "no_citations"} : Yield(s, event)
        BY <1>2 DEF ServeCitations, Cite
    <2>2. Says(s, {"meta"})
        BY <1>2 DEF ServeCitations, Cite
    <2> QED BY <2>1, <2>2, TellYielded DEF Contract!Citations, Contract!Next
<1>3. CASE ServeToken(s) \/ Token(s)
    <2>1. Yield(s, "token") /\ Says(s, {"citations", "no_citations", "token"})
        BY <1>3 DEF ServeToken, Token
    <2> QED BY <2>1, TellYielded DEF Contract!Token, Contract!Next
<1>4. CASE ServeCommit(s) \/ Success(s)
    <2>1. CASE ServeCommit(s)
        BY <2>1, TellYielded DEF ServeCommit, Contract!Success, Contract!Next
    <2>2. CASE Success(s)
        <3>1. tokens[s] # 0
            BY <2>2 DEF Success
        <3>2. Yield(s, "success") /\ Says(s, {"token"})
            BY <2>2, <3>1 DEF Success
        <3> QED BY <3>2, TellYielded DEF Contract!Success, Contract!Next
    <2> QED BY <1>4, <2>1, <2>2
<1>5. CASE Refuse(s)
    <2>1. CASE pc[s] \in {"nothing", "llm"}
        <3>1. Yield(s, "no_citations") /\ Says(s, {"meta"})
            BY <1>5, <2>1 DEF Refuse
        <3> QED BY <3>1, TellYielded DEF Contract!Citations, Contract!Next
    <2>2. CASE pc[s] = "cited"
        <3>1. Yield(s, "insufficient")
            BY <1>5, <2>2 DEF Refuse
        <3>2. tokens[s] = 0
            BY <1>5, <2>2 DEF Refuse, SourcesOwn
        <3> QED BY <2>2, <3>1, <3>2, TellYielded DEF Contract!Refusal, Contract!Next
    <2> QED BY <1>5, <2>1, <2>2 DEF Refuse
<1>6. CASE RefuseDone(s)
    <2>1. Yield(s, "insufficient") /\ Says(s, {"no_citations"})
        BY <1>6 DEF RefuseDone
    <2> QED BY <2>1, TellYielded DEF Contract!Refusal, Contract!Next
<1>7. CASE LlmFails(s) \/ StreamFails(s)
    <2>1. Yield(s, "error") /\ Says(s, {"meta", "citations", "no_citations", "token"})
        BY <1>7 DEF LlmFails, StreamFails
    <2> QED BY <2>1, TellYielded DEF Contract!Error, Contract!Next
<1>8. CASE \/ SemanticHit(s) \/ SemanticMiss(s) \/ RetrievalFails(s) \/ Search(s)
           \/ Put(s)
    BY <1>8 DEF SemanticHit, SemanticMiss, RetrievalFails, Search, Put
<1> QED BY <1>1, <1>2, <1>3, <1>4, <1>5, <1>6, <1>7, <1>8 DEF Step

LEMMA NextContract ==
    ASSUME Inv, [Next]_vars
    PROVE  [Contract!Next]_events
<1>1. CASE UNCHANGED vars
    BY <1>1 DEF vars, local
<1>2. ASSUME NEW s \in Streams, Step(s) PROVE [Contract!Next]_events
    BY <1>2, StepContract
<1>3. ASSUME NEW s \in Streams, Ask(s) \/ Leave(s) PROVE UNCHANGED events
    BY <1>3 DEF Ask, Leave
<1>4. ASSUME NEW c \in Chats, FileChat(c) \/ DeleteChat(c) PROVE UNCHANGED events
    BY <1>4 DEF FileChat, DeleteChat, local
<1>5. ASSUME NEW d \in Docs, DeleteDocument(d) PROVE UNCHANGED events
    BY <1>5 DEF DeleteDocument
<1>6. CASE DeleteFolder \/ DeleteCategory \/ NewVersion \/ Crash
    BY <1>6 DEF DeleteFolder, DeleteCategory, NewVersion, Crash, local
<1> QED BY <1>1, <1>2, <1>3, <1>4, <1>5, <1>6 DEF Next

(* Whatever happens beside it, the events of a stream come in the order the *)
(* contract promises: nothing before meta, the citations once, tokens after *)
(* them, nothing after the end (ask_stream, _serve_cached_stream).          *)
THEOREM EventOrder == Spec => ImplementsStreamContract
<1>1. Init => Contract!Init
    BY DEF Init, Contract!Init
<1> QED BY <1>1, NextContract, Invariance, PTL
        DEF Spec, ImplementsStreamContract, Contract!Spec
=============================================================================
