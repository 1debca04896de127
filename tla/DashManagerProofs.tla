---------------------------- MODULE DashManagerProofs ----------------------------
(***************************************************************************)
(* Theorems about the DASH manager and the connector it takes its sockets  *)
(* from, for any tiles, representations and io threads.                    *)
(*                                                                         *)
(* A session promises its calls in order (SessionInv), and the requests of *)
(* a tile are numbered as the calls on its session are (CallsCounted).     *)
(* With these it is enough to know how far a stream thread is: what it has *)
(* still to send, and that the request it waits for was the last one sent  *)
(* (Progress).  The requests still open are among the last it sent (Open). *)
(*                                                                         *)
(* Of the connector it is enough to know which entries its strand and its  *)
(* list hold, and that they hold them once (ResolveInv, HolderInv).        *)
(***************************************************************************)
EXTENDS DashManager, SequenceFacts

Asks == Represents \X Nat
Outcomes == {"unsent", "pending", "value"} \cup Calls!Errors

(* The types the proofs need.                                              *)
Types ==
    /\ promise \in [Callers -> [Calls!Requests -> Outcomes]]
    /\ answer \in [Callers -> [Calls!Requests -> Nat]]
    /\ DOMAIN pc = Tiles /\ DOMAIN represent = Tiles
    /\ traceIndex \in [Tiles -> Nat]
    /\ todo \in [Tiles -> Seq(Asks)]
    /\ asked \in [Tiles -> Seq(Asks)]
    /\ got \in [Tiles -> Seq(Asks)]

(* A call is answered after all before it, with its own answer.            *)
SessionInv(s) ==
    \A q \in Calls!Requests : promise[s][q] = "value" =>
        /\ answer[s][q] = q
        /\ \A p \in 1..(q - 1) : promise[s][p] = "value"

(* The requests of a tile are the calls made on its session.               *)
CallsCounted(t) ==
    /\ Len(asked[t]) <= MaxRequests
    /\ \A q \in Calls!Requests : promise[t][q] = "unsent" <=> q > Len(asked[t])

(* An initial segment is asked for before the first media segment of its   *)
(* representation.                                                         *)
InitialAsked(t) ==
    \A c \in 1..Len(asked[t]) : asked[t][c][2] # Initial =>
        \E i \in 1..(c - 1) : asked[t][i] = <<asked[t][c][1], Initial>>

(* How far the stream thread of a tile is.                                 *)
Progress(t) ==
    /\ \A i \in 1..Len(got[t]) : got[t][i][2] = i
    /\ pc[t] \in {"off", "predict"} => traceIndex[t] = Len(got[t])
    /\ pc[t] \in {"send", "get"} => traceIndex[t] = Len(got[t]) + 1
    /\ pc[t] = "send" =>
          /\ represent[t] \in Represents
          /\ \/ todo[t] = <<<<represent[t], Initial>>, <<represent[t], traceIndex[t]>>>>
             \/ /\ todo[t] = <<<<represent[t], traceIndex[t]>>>>
                /\ \E i \in 1..Len(asked[t]) : asked[t][i] = <<represent[t], Initial>>
    /\ pc[t] = "get" =>
          asked[t] # <<>> /\ asked[t][Len(asked[t])] = <<represent[t], traceIndex[t]>>

TileInv(t) == CallsCounted(t) /\ InitialAsked(t) /\ Progress(t)

IInv ==
    /\ Types
    /\ \A s \in Callers : SessionInv(s)
    /\ \A t \in Tiles : TileInv(t)

---------------------------------------------------------------------------------
(* The requests that a thread has still to send are one or two.            *)
LEMMA TwoEntries ==
    ASSUME NEW a, NEW b
    PROVE  /\ <<a>> \o <<b>> = <<a, b>>
           /\ Len(<<a, b>>) = 2 /\ Len(<<a>>) = 1
           /\ <<a, b>> # <<>> /\ <<a>> # <<>>
<1>1. Len(<<a, b>>) = 2 /\ Len(<<a>>) = 1 /\ Len(<<>>) = 0
  OBVIOUS
<1>2. <<a>> \o <<b>> = <<a, b>>
  <2> DEFINE S == {a, b}
  <2>1. <<a>> \in Seq(S) /\ <<b>> \in Seq(S) /\ <<a, b>> \in Seq(S)
    OBVIOUS
  <2>2. <<a>>[1] = a /\ <<b>>[1] = b /\ <<a, b>>[1] = a /\ <<a, b>>[2] = b
    OBVIOUS
  <2> HIDE DEF S
  <2>3. /\ <<a>> \o <<b>> \in Seq(S) /\ Len(<<a>> \o <<b>>) = 2
        /\ (<<a>> \o <<b>>)[1] = a /\ (<<a>> \o <<b>>)[2] = b
    BY <1>1, <2>1, <2>2, ConcatProperties
  <2> DEFINE joined == <<a>> \o <<b>>
  <2>4. \A i \in 1..2 : i = 1 \/ i = 2
    OBVIOUS
  <2>5. \A i \in 1..2 : joined[i] = <<a, b>>[i]
    BY <2>2, <2>3, <2>4
  <2>6. joined \in Seq(S) /\ Len(joined) = 2
    BY <2>3
  <2> HIDE DEF joined
  <2>7. joined = <<a, b>>
    BY <1>1, <2>1, <2>5, <2>6, SeqEqual
  <2> QED BY <2>7 DEF joined
<1> QED BY <1>1, <1>2

LEMMA InitIInv == Init => IInv
<1> SUFFICES ASSUME Init PROVE IInv
  OBVIOUS
<1>1. Types
  BY EmptySeq DEF Init, Calls!Init, Types, Outcomes
<1>2. \A s \in Callers : SessionInv(s)
  BY DEF Init, Calls!Init, SessionInv
<1>3. ASSUME NEW t \in Tiles PROVE TileInv(t)
  <2>1. /\ Len(asked[t]) = 0 /\ Len(got[t]) = 0 /\ traceIndex[t] = 0 /\ pc[t] = "off"
        /\ \A q \in Calls!Requests : promise[t][q] = "unsent"
    BY EmptySeq DEF Init, Calls!Init, Callers
  <2> QED BY <2>1, ManagerAssumption
          DEF TileInv, CallsCounted, InitialAsked, Progress, Calls!Requests
<1> QED BY <1>1, <1>2, <1>3 DEF IInv

(* A tile whose thread and calls stand still keeps what is said of it.     *)
LEMMA TileKept ==
    ASSUME NEW t, TileInv(t),
           promise'[t] = promise[t], asked'[t] = asked[t], got'[t] = got[t],
           pc'[t] = pc[t], traceIndex'[t] = traceIndex[t],
           represent'[t] = represent[t], todo'[t] = todo[t]
    PROVE  TileInv(t)'
<1>1. CallsCounted(t)'
  BY DEF TileInv, CallsCounted
<1>2. InitialAsked(t)'
  BY DEF TileInv, InitialAsked
<1>3. Progress(t)'
  BY DEF TileInv, Progress
<1> QED BY <1>1, <1>2, <1>3 DEF TileInv

(* So does the manager.                                                    *)
LEMMA AllKept ==
    ASSUME IInv, UNCHANGED <<promise, answer, pc, traceIndex, represent, todo, asked, got>>
    PROVE  IInv'
<1>1. Types'
  BY DEF IInv, Types
<1>2. \A s \in Callers : SessionInv(s)'
  BY DEF IInv, SessionInv
<1>3. \A t \in Tiles : TileInv(t)'
  BY TileKept DEF IInv
<1> QED BY <1>1, <1>2, <1>3 DEF IInv

---------------------------------------------------------------------------------
(* The calls.                                                              *)

(* What a call on session s does.                                          *)
LEMMA CallShape ==
    ASSUME Types, NEW s \in Callers, Calls!Call(s)
    PROVE  \E r \in Calls!Requests :
              /\ promise[s][r] = "unsent"
              /\ \A q \in 1..(r - 1) : promise[s][q] # "unsent"
              /\ promise'[s][r] = "pending"
              /\ \A q \in Calls!Requests \ {r} : promise'[s][q] = promise[s][q]
              /\ \A u \in Callers \ {s} : promise'[u] = promise[u]
              /\ promise' \in [Callers -> [Calls!Requests -> Outcomes]]
              /\ answer' = answer
<1>1. PICK r \in Calls!Requests :
         /\ promise[s][r] = "unsent"
         /\ \A q \in 1..(r - 1) : promise[s][q] # "unsent"
         /\ promise' = [promise EXCEPT ![s][r] = "pending"]
         /\ answer' = answer
  BY DEF Calls!Call
<1>2. promise \in [Callers -> [Calls!Requests -> Outcomes]] /\ "pending" \in Outcomes
  BY DEF Types, Outcomes
<1>3. /\ promise'[s][r] = "pending"
      /\ \A q \in Calls!Requests \ {r} : promise'[s][q] = promise[s][q]
      /\ \A u \in Callers \ {s} : promise'[u] = promise[u]
  BY <1>1, <1>2
<1>4. promise' \in [Callers -> [Calls!Requests -> Outcomes]]
  BY <1>1, <1>2
<1> QED BY <1>1, <1>3, <1>4

LEMMA CallKeepsOrder ==
    ASSUME Types, NEW s \in Callers, Calls!Call(s), \A u \in Callers : SessionInv(u)
    PROVE  \A u \in Callers : SessionInv(u)'
<1>1. PICK r \in Calls!Requests :
         /\ promise[s][r] = "unsent" /\ promise'[s][r] = "pending"
         /\ \A q \in Calls!Requests \ {r} : promise'[s][q] = promise[s][q]
         /\ \A u \in Callers \ {s} : promise'[u] = promise[u]
         /\ answer' = answer
  BY CallShape
<1>2. SessionInv(s)'
  <2> SUFFICES ASSUME NEW q \in Calls!Requests, promise'[s][q] = "value"
               PROVE  /\ answer'[s][q] = q
                      /\ \A p \in 1..(q - 1) : promise'[s][p] = "value"
    BY DEF SessionInv
  <2>1. q # r /\ promise[s][q] = "value"
    BY <1>1
  <2>2. answer[s][q] = q /\ \A p \in 1..(q - 1) : promise[s][p] = "value"
    BY <2>1 DEF SessionInv
  <2>3. 1..(q - 1) \subseteq Calls!Requests \ {r}
    <3>1. 1..(q - 1) \subseteq Calls!Requests
      BY ManagerAssumption DEF Calls!Requests
    <3> QED BY <1>1, <2>2, <3>1
  <2> QED BY <1>1, <2>2, <2>3
<1>3. \A u \in Callers \ {s} : SessionInv(u)'
  BY <1>1 DEF SessionInv
<1> QED BY <1>2, <1>3

(* A session settles calls: those that were pending, and no other.         *)
LEMMA SettleShape ==
    ASSUME Types, NEW s \in Callers, Calls!Answer(s) \/ Calls!Fail(s)
    PROVE  /\ promise' \in [Callers -> [Calls!Requests -> Outcomes]]
           /\ answer' \in [Callers -> [Calls!Requests -> Nat]]
           /\ \A u \in Callers \ {s} : promise'[u] = promise[u] /\ answer'[u] = answer[u]
           /\ \A q \in Calls!Requests :
                 \/ promise'[s][q] = promise[s][q] /\ answer'[s][q] = answer[s][q]
                 \/ /\ promise[s][q] = "pending" /\ promise'[s][q] \in Calls!Errors
                 \/ /\ promise[s][q] = "pending" /\ promise'[s][q] = "value"
                    /\ answer'[s][q] = q
                    /\ \A p \in 1..(q - 1) : promise[s][p] = "value"
<1>0. /\ promise \in [Callers -> [Calls!Requests -> Outcomes]] /\ "value" \in Outcomes
      /\ answer \in [Callers -> [Calls!Requests -> Nat]]
      /\ Calls!Requests \subseteq Nat /\ Calls!Errors \subseteq Outcomes
  BY DEF Types, Outcomes, Calls!Requests
<1>1. CASE Calls!Answer(s)
  <2>1. PICK r \in Calls!Requests :
           /\ promise[s][r] = "pending"
           /\ \A q \in 1..(r - 1) : promise[s][q] = "value"
           /\ promise' = [promise EXCEPT ![s][r] = "value"]
           /\ answer' = [answer EXCEPT ![s][r] = r]
    BY <1>1 DEF Calls!Answer
  <2>2. /\ promise' \in [Callers -> [Calls!Requests -> Outcomes]]
        /\ answer' \in [Callers -> [Calls!Requests -> Nat]]
    BY <1>0, <2>1
  <2>3. /\ promise'[s][r] = "value" /\ answer'[s][r] = r
        /\ \A q \in Calls!Requests \ {r} : /\ promise'[s][q] = promise[s][q]
                                           /\ answer'[s][q] = answer[s][q]
        /\ \A u \in Callers \ {s} : promise'[u] = promise[u] /\ answer'[u] = answer[u]
    BY <1>0, <2>1
  <2> QED BY <2>1, <2>2, <2>3
<1>2. CASE Calls!Fail(s)
  <2>1. PICK error \in Calls!Errors, last \in Calls!Requests :
           /\ promise' = [promise EXCEPT ![s] = [r \in Calls!Requests |->
                             IF r <= last /\ @[r] = "pending" THEN error ELSE @[r]]]
           /\ answer' = answer
    BY <1>2 DEF Calls!Fail
  <2> DEFINE row == [r \in Calls!Requests |->
                        IF r <= last /\ promise[s][r] = "pending" THEN error
                                                                  ELSE promise[s][r]]
  <2>2. row \in [Calls!Requests -> Outcomes]
    BY <1>0
  <2>3. promise' = [promise EXCEPT ![s] = row]
    BY <2>1
  <2>4. \A q \in Calls!Requests :
           \/ row[q] = promise[s][q]
           \/ promise[s][q] = "pending" /\ row[q] \in Calls!Errors
    OBVIOUS
  <2> HIDE DEF row
  <2>5. promise' \in [Callers -> [Calls!Requests -> Outcomes]]
    BY <1>0, <2>2, <2>3
  <2>6. promise'[s] = row /\ \A u \in Callers \ {s} : promise'[u] = promise[u]
    BY <1>0, <2>3
  <2> QED BY <1>0, <2>1, <2>4, <2>5, <2>6
<1> QED BY <1>1, <1>2

(* The io threads settle a call.                                           *)
LEMMA SessionStep ==
    ASSUME IInv, NEW s \in Callers, Session(s)
    PROVE  IInv'
<1>0. Types /\ SessionInv(s)
  BY DEF IInv
<1>1. Calls!Answer(s) \/ Calls!Fail(s)
  BY DEF Session
<1>2. UNCHANGED <<pc, traceIndex, represent, todo, asked, got>>
  BY DEF Session, streamVars
<1>3. /\ promise' \in [Callers -> [Calls!Requests -> Outcomes]]
      /\ answer' \in [Callers -> [Calls!Requests -> Nat]]
      /\ \A u \in Callers \ {s} : promise'[u] = promise[u] /\ answer'[u] = answer[u]
      /\ \A q \in Calls!Requests :
            \/ promise'[s][q] = promise[s][q] /\ answer'[s][q] = answer[s][q]
            \/ promise[s][q] = "pending" /\ promise'[s][q] \in Calls!Errors
            \/ /\ promise[s][q] = "pending" /\ promise'[s][q] = "value"
               /\ answer'[s][q] = q
               /\ \A p \in 1..(q - 1) : promise[s][p] = "value"
  BY <1>0, <1>1, SettleShape
<1>4. Types'
  BY <1>0, <1>2, <1>3 DEF Types
<1>5. SessionInv(s)'
  <2> SUFFICES ASSUME NEW q \in Calls!Requests, promise'[s][q] = "value"
               PROVE  /\ answer'[s][q] = q
                      /\ \A p \in 1..(q - 1) : promise'[s][p] = "value"
    BY DEF SessionInv
  <2>1. /\ answer'[s][q] = q
        /\ \A p \in 1..(q - 1) : promise[s][p] = "value"
    BY <1>0, <1>3 DEF SessionInv, Calls!Errors
  <2>2. 1..(q - 1) \subseteq Calls!Requests
    BY ManagerAssumption DEF Calls!Requests
  <2>3. \A p \in Calls!Requests : promise[s][p] = "value" => promise'[s][p] = "value"
    BY <1>3
  <2> QED BY <2>1, <2>2, <2>3
<1>6. \A u \in Callers \ {s} : SessionInv(u)'
  BY <1>3 DEF IInv, SessionInv
<1>7. ASSUME NEW t \in Tiles PROVE TileInv(t)'
  <2>1. \A q \in Calls!Requests : promise'[t][q] = "unsent" <=> promise[t][q] = "unsent"
    <3>1. t \in Callers
      BY DEF Callers
    <3> QED BY <1>3, <3>1 DEF Calls!Errors
  <2>2. CallsCounted(t)'
    BY <1>2, <2>1 DEF IInv, TileInv, CallsCounted
  <2> QED BY <1>2, <2>2 DEF IInv, TileInv, InitialAsked, Progress
<1> QED BY <1>4, <1>5, <1>6, <1>7 DEF IInv

(* The index request makes a call on a session of its own.                 *)
LEMMA IndexStep ==
    ASSUME IInv, RequestStreamIndex \/ IndexSession \/ IndexDocument \/ Connect
    PROVE  IInv'
<1>1. UNCHANGED <<pc, traceIndex, represent, todo, asked, got>>
  BY DEF RequestStreamIndex, IndexSession, IndexDocument, Connect, streamVars
<1>2. CASE UNCHANGED callVars
  BY <1>1, <1>2, AllKept DEF callVars
<1>3. CASE Calls!Call(Index)
  <2>1. Index \in Callers /\ Types /\ \A u \in Callers : SessionInv(u)
    BY DEF Callers, IInv
  <2>2. /\ promise' \in [Callers -> [Calls!Requests -> Outcomes]]
        /\ \A u \in Callers \ {Index} : promise'[u] = promise[u]
        /\ answer' = answer
    BY <1>3, <2>1, CallShape
  <2>3. Types'
    BY <1>1, <2>1, <2>2 DEF Types
  <2>4. \A u \in Callers : SessionInv(u)'
    BY <1>3, <2>1, CallKeepsOrder
  <2>5. \A t \in Tiles : promise'[t] = promise[t]
    BY <2>2, ManagerAssumption DEF Callers
  <2>6. \A t \in Tiles : TileInv(t)'
    BY <1>1, <2>5, TileKept DEF IInv
  <2> QED BY <2>3, <2>4, <2>6 DEF IInv
<1> QED BY <1>2, <1>3
        DEF RequestStreamIndex, IndexSession, IndexDocument, Connect, callVars

---------------------------------------------------------------------------------
(* The stream threads.                                                     *)

(* Steps that make no call and keep what the other threads have done.      *)
LEMMA NoCall ==
    ASSUME IInv, NEW t \in Tiles, UNCHANGED <<promise, answer, asked>>, Types',
           \A u \in Tiles \ {t} :
              /\ pc'[u] = pc[u] /\ traceIndex'[u] = traceIndex[u]
              /\ represent'[u] = represent[u] /\ todo'[u] = todo[u] /\ got'[u] = got[u],
           Progress(t)'
    PROVE  IInv'
<1>1. \A s \in Callers : SessionInv(s)'
  BY DEF IInv, SessionInv
<1>2. CallsCounted(t)' /\ InitialAsked(t)'
  BY DEF IInv, TileInv, CallsCounted, InitialAsked
<1>3. \A u \in Tiles \ {t} : TileInv(u)'
  BY TileKept DEF IInv
<1> QED BY <1>1, <1>2, <1>3 DEF IInv, TileInv

(* Steps after which the thread is over, or asks for its first segment.    *)
LEMMA ThreadMoves ==
    ASSUME IInv, NEW t \in Tiles, TileStreamer(t) \/ NoSession(t) \/ GetThrows(t)
    PROVE  IInv'
<1>0. Types /\ Progress(t)
  BY DEF IInv, TileInv
<1>1. UNCHANGED <<promise, answer, traceIndex, represent, todo, asked, got>>
  BY DEF TileStreamer, NoSession, GetThrows, callVars
<1>2. \E label \in {"predict", "ended", "unexpected", "escaped"} :
         /\ pc' = [pc EXCEPT ![t] = label]
         /\ label = "predict" => pc[t] = "off"
  BY DEF TileStreamer, NoSession, GetThrows, Goto
<1>3. /\ DOMAIN pc' = Tiles /\ \A u \in Tiles \ {t} : pc'[u] = pc[u]
      /\ pc'[t] \in {"predict", "ended", "unexpected", "escaped"}
      /\ pc'[t] = "predict" => pc[t] = "off"
  BY <1>0, <1>2 DEF Types
<1>4. Types'
  BY <1>0, <1>1, <1>3 DEF Types
<1>5. Progress(t)'
  BY <1>0, <1>1, <1>3 DEF Progress
<1> QED BY <1>1, <1>3, <1>4, <1>5, NoCall

(* The next requests, for the representation that is predicted.            *)
LEMMA PredictStep ==
    ASSUME IInv, NEW t \in Tiles, PredictRepresent(t)
    PROVE  IInv'
<1>0. Types /\ Progress(t)
  BY DEF IInv, TileInv
<1>1. PICK r \in Represents :
         /\ represent' = [represent EXCEPT ![t] = r]
         /\ todo' = [todo EXCEPT ![t] = Requests(t, r)]
  BY DEF PredictRepresent
<1>2. /\ pc[t] = "predict" /\ pc' = [pc EXCEPT ![t] = "send"]
      /\ traceIndex' = [traceIndex EXCEPT ![t] = @ + 1]
      /\ UNCHANGED <<promise, answer, asked, got>>
  BY DEF PredictRepresent, Goto, callVars
<1> DEFINE n == traceIndex[t] + 1
<1>3. traceIndex[t] \in Nat /\ n \in Nat /\ traceIndex[t] = Len(got[t])
  BY <1>0, <1>2 DEF Types, Progress
<1>4. \/ Requests(t, r) = <<<<r, Initial>>, <<r, n>>>>
      \/ /\ Requests(t, r) = <<<<r, n>>>>
         /\ \E i \in 1..Len(asked[t]) : asked[t][i] = <<r, Initial>>
  <2>1. CASE HasInitial(t, r)
    <3>1. Requests(t, r) = <<>> \o <<<<r, n>>>>
      BY <2>1 DEF Requests, Number
    <3>2. Requests(t, r) = <<<<r, n>>>>
      BY <3>1
    <3>3. \E i \in 1..Len(asked[t]) : asked[t][i] = <<r, Initial>>
      BY <2>1 DEF HasInitial
    <3> QED BY <3>2, <3>3
  <2>2. CASE ~HasInitial(t, r)
    <3>1. Requests(t, r) = <<<<r, Initial>>>> \o <<<<r, n>>>>
      BY <2>2 DEF Requests, Number
    <3> HIDE DEF n
    <3> QED BY <3>1, TwoEntries
  <2> QED BY <2>1, <2>2
<1>5. Requests(t, r) \in Seq(Asks)
  <2>1. <<r, Initial>> \in Asks /\ <<r, n>> \in Asks
    BY <1>3 DEF Asks, Initial
  <2> HIDE DEF n, Asks
  <2>2. <<<<r, Initial>>, <<r, n>>>> \in Seq(Asks) /\ <<<<r, n>>>> \in Seq(Asks)
    BY <2>1
  <2> QED BY <1>4, <2>2
<1>6. /\ DOMAIN pc' = Tiles /\ DOMAIN represent' = Tiles
      /\ traceIndex' \in [Tiles -> Nat] /\ todo' \in [Tiles -> Seq(Asks)]
      /\ pc'[t] = "send" /\ represent'[t] = r /\ traceIndex'[t] = n
      /\ todo'[t] = Requests(t, r)
      /\ \A u \in Tiles \ {t} :
            /\ pc'[u] = pc[u] /\ traceIndex'[u] = traceIndex[u]
            /\ represent'[u] = represent[u] /\ todo'[u] = todo[u]
  BY <1>0, <1>1, <1>2, <1>3, <1>5 DEF Types
<1> HIDE DEF n
<1>7. Types'
  BY <1>0, <1>2, <1>6 DEF Types
<1>8. Progress(t)'
  <2>1. n = Len(got[t]) + 1
    BY <1>3 DEF n
  <2> QED BY <1>0, <1>2, <1>4, <1>6, <2>1 DEF Progress
<1> QED BY <1>2, <1>6, <1>7, <1>8, NoCall

(* A request goes out: it is the next call on the session.                 *)
LEMMA SendStep ==
    ASSUME IInv, NEW t \in Tiles, RequestSend(t)
    PROVE  IInv'
<1> DEFINE a == Head(todo[t])
<1> DEFINE n == Len(asked[t])
<1>0. /\ Types /\ TileInv(t) /\ t \in Callers /\ \A u \in Callers : SessionInv(u)
      /\ asked[t] \in Seq(Asks) /\ n \in Nat
  BY LenProperties DEF IInv, Types, Callers
<1>1. /\ pc[t] = "send" /\ Calls!Call(t)
      /\ asked' = [asked EXCEPT ![t] = Append(@, a)]
      /\ todo' = [todo EXCEPT ![t] = Tail(@)]
      /\ pc' = [pc EXCEPT ![t] = NextStep(t)]
      /\ UNCHANGED <<traceIndex, represent, got>>
  BY DEF RequestSend, MakeHttpRequest, Goto
<1>2. /\ represent[t] \in Represents /\ traceIndex[t] \in Nat
      /\ \/ todo[t] = <<<<represent[t], Initial>>, <<represent[t], traceIndex[t]>>>>
         \/ /\ todo[t] = <<<<represent[t], traceIndex[t]>>>>
            /\ \E i \in 1..n : asked[t][i] = <<represent[t], Initial>>
  BY <1>0, <1>1 DEF TileInv, Progress, Types
<1>3. \/ /\ a = <<represent[t], Initial>> /\ NextStep(t) = "send"
         /\ Tail(todo[t]) = <<<<represent[t], traceIndex[t]>>>>
      \/ /\ a = <<represent[t], traceIndex[t]>> /\ NextStep(t) = "get"
         /\ Tail(todo[t]) = <<>>
         /\ \E i \in 1..n : asked[t][i] = <<represent[t], Initial>>
  <2>1. CASE todo[t] = <<<<represent[t], Initial>>, <<represent[t], traceIndex[t]>>>>
    BY <2>1 DEF NextStep
  <2>2. CASE /\ todo[t] = <<<<represent[t], traceIndex[t]>>>>
             /\ \E i \in 1..n : asked[t][i] = <<represent[t], Initial>>
    BY <2>2 DEF NextStep
  <2> QED BY <1>2, <2>1, <2>2
<1>4. a \in Asks /\ Tail(todo[t]) \in Seq(Asks)
  <2>1. todo[t] \in Seq(Asks)
    BY <1>0 DEF Types
  <2>2. todo[t] # <<>>
    BY <1>2, TwoEntries
  <2> QED BY <2>1, <2>2, TailEntries
<1> HIDE DEF a
<1>5. /\ asked'[t] = Append(asked[t], a)
      /\ asked' \in [Tiles -> Seq(Asks)] /\ todo' \in [Tiles -> Seq(Asks)]
      /\ Len(asked'[t]) = n + 1 /\ asked'[t][n + 1] = a
      /\ \A i \in 1..n : asked'[t][i] = asked[t][i]
      /\ todo'[t] = Tail(todo[t]) /\ pc'[t] = NextStep(t) /\ DOMAIN pc' = Tiles
      /\ \A u \in Tiles \ {t} :
            asked'[u] = asked[u] /\ todo'[u] = todo[u] /\ pc'[u] = pc[u]
  <2>1. /\ Append(asked[t], a) \in Seq(Asks) /\ Len(Append(asked[t], a)) = n + 1
        /\ Append(asked[t], a)[n + 1] = a
        /\ \A i \in 1..n : Append(asked[t], a)[i] = asked[t][i]
    BY <1>0, <1>4, AppendEntries
  <2>2. asked'[t] = Append(asked[t], a)
    BY <1>0, <1>1 DEF Types
  <2>3. asked' \in [Tiles -> Seq(Asks)]
    BY <1>0, <1>1, <2>1 DEF Types
  <2>4. todo' \in [Tiles -> Seq(Asks)] /\ todo'[t] = Tail(todo[t])
    BY <1>0, <1>1, <1>4 DEF Types
  <2>5. pc'[t] = NextStep(t) /\ DOMAIN pc' = Tiles
    BY <1>0, <1>1 DEF Types
  <2>6. \A u \in Tiles \ {t} :
           asked'[u] = asked[u] /\ todo'[u] = todo[u] /\ pc'[u] = pc[u]
    BY <1>0, <1>1 DEF Types
  <2> QED BY <2>1, <2>2, <2>3, <2>4, <2>5, <2>6
<1>6. PICK r \in Calls!Requests :
         /\ promise[t][r] = "unsent"
         /\ \A q \in 1..(r - 1) : promise[t][q] # "unsent"
         /\ promise'[t][r] = "pending"
         /\ \A q \in Calls!Requests \ {r} : promise'[t][q] = promise[t][q]
         /\ \A u \in Callers \ {t} : promise'[u] = promise[u]
         /\ promise' \in [Callers -> [Calls!Requests -> Outcomes]]
         /\ answer' = answer
  BY <1>0, <1>1, CallShape
<1> HIDE DEF n
<1>7. r = n + 1 /\ n + 1 \in Calls!Requests
  <2>1. \A q \in Calls!Requests : promise[t][q] = "unsent" <=> q > n
    BY <1>0 DEF TileInv, CallsCounted, n
  <2>2. r \in Nat /\ r > n /\ r \in 1..MaxRequests
    BY <1>6, <2>1 DEF Calls!Requests
  <2>3. n + 1 \in Calls!Requests
    BY <1>0, <2>2, ManagerAssumption DEF Calls!Requests
  <2>4. n + 1 \notin 1..(r - 1)
    BY <1>0, <1>6, <2>1, <2>3
  <2> QED BY <1>0, <2>2, <2>3, <2>4
<1>8. Types'
  BY <1>0, <1>1, <1>5, <1>6 DEF Types
<1>9. \A u \in Callers : SessionInv(u)'
  BY <1>0, <1>1, CallKeepsOrder
<1>10. CallsCounted(t)'
  <2>1. n + 1 <= MaxRequests
    BY <1>7, ManagerAssumption DEF Calls!Requests
  <2>2. ASSUME NEW q \in Calls!Requests
        PROVE  promise'[t][q] = "unsent" <=> q > n + 1
    <3>1. q \in Nat /\ (promise[t][q] = "unsent" <=> q > n)
      BY <1>0 DEF TileInv, CallsCounted, n, Calls!Requests
    <3>2. CASE q = n + 1
      BY <1>0, <1>6, <1>7, <3>2
    <3>3. CASE q # n + 1
      BY <1>0, <1>6, <1>7, <3>1, <3>3
    <3> QED BY <3>2, <3>3
  <2> QED BY <1>5, <2>1, <2>2 DEF CallsCounted
<1>11. InitialAsked(t)'
  <2> SUFFICES ASSUME NEW c \in 1..(n + 1), asked'[t][c][2] # Initial
               PROVE  \E i \in 1..(c - 1) : asked'[t][i] = <<asked'[t][c][1], Initial>>
    BY <1>5 DEF InitialAsked
  <2>1. CASE c \in 1..n
    <3>1. asked'[t][c] = asked[t][c]
      BY <1>5, <2>1
    <3>2. PICK i \in 1..(c - 1) : asked[t][i] = <<asked[t][c][1], Initial>>
      BY <1>0, <2>1, <3>1 DEF TileInv, InitialAsked, n
    <3>3. i \in 1..n
      BY <1>0, <2>1
    <3> QED BY <1>5, <3>1, <3>2, <3>3
  <2>2. CASE c = n + 1
    <3>1. asked'[t][c] = a
      BY <1>5, <2>2
    <3>2. a = <<represent[t], traceIndex[t]>>
          /\ \E i \in 1..n : asked[t][i] = <<represent[t], Initial>>
      BY <1>3, <3>1
    <3>3. PICK i \in 1..n : asked[t][i] = <<represent[t], Initial>>
      BY <3>2
    <3>4. i \in 1..(c - 1) /\ asked'[t][i] = <<represent[t], Initial>>
      BY <1>0, <1>5, <2>2, <3>3
    <3> QED BY <3>1, <3>2, <3>4
  <2> QED BY <1>0, <2>1, <2>2
<1>12. Progress(t)'
  <2>1. CASE /\ a = <<represent[t], Initial>> /\ NextStep(t) = "send"
             /\ Tail(todo[t]) = <<<<represent[t], traceIndex[t]>>>>
    <3>1. \E i \in 1..(n + 1) : asked'[t][i] = <<represent[t], Initial>>
      <4>1. n + 1 \in 1..(n + 1)
        BY <1>0 DEF n
      <4>2. asked'[t][n + 1] = <<represent[t], Initial>>
        BY <1>5, <2>1
      <4> QED BY <4>1, <4>2
    <3> QED BY <1>0, <1>1, <1>2, <1>5, <2>1, <3>1 DEF TileInv, Progress
  <2>2. CASE /\ a = <<represent[t], traceIndex[t]>> /\ NextStep(t) = "get"
             /\ Tail(todo[t]) = <<>>
    <3>1. /\ asked'[t] # <<>>
          /\ asked'[t][Len(asked'[t])] = <<represent[t], traceIndex[t]>>
      BY <1>0, <1>5, <2>2, EmptySeq
    <3> QED BY <1>0, <1>1, <1>2, <1>5, <2>2, <3>1 DEF TileInv, Progress
  <2> QED BY <1>3, <2>1, <2>2
<1>13. \A u \in Tiles \ {t} : TileInv(u)'
  <2>1. \A u \in Tiles \ {t} : promise'[u] = promise[u]
    BY <1>6 DEF Callers
  <2> QED BY <1>1, <1>5, <2>1, TileKept DEF IInv
<1> QED BY <1>8, <1>9, <1>10, <1>11, <1>12, <1>13 DEF IInv, TileInv

(* A thread that waits for its segments waits for the last request it has  *)
(* sent.                                                                   *)
LEMMA DataIsLast ==
    ASSUME IInv, NEW t \in Tiles, pc[t] = "get"
    PROVE  /\ Data(t) = Len(asked[t]) /\ Data(t) \in Calls!Requests
           /\ asked[t][Data(t)][2] = Len(got[t]) + 1
           /\ asked[t][Data(t)] \in Asks
<1> DEFINE n == Len(asked[t])
<1> DEFINE wanted == Represents \X (Nat \ {Initial})
<1>1. /\ asked[t] \in Seq(Asks) /\ asked[t] # <<>> /\ n \in Nat /\ n > 0
      /\ got[t] \in Seq(Asks) /\ Len(got[t]) \in Nat
  BY LenProperties, EmptySeq DEF IInv, Types, TileInv, Progress
<1>2. /\ asked[t][n] = <<represent[t], traceIndex[t]>>
      /\ traceIndex[t] = Len(got[t]) + 1 /\ n <= MaxRequests
  BY DEF IInv, TileInv, Progress, CallsCounted
<1>3. asked[t][n] \in Asks
  BY <1>1
<1>4. asked[t][n] \in wanted
  BY <1>1, <1>2, <1>3 DEF Asks, Initial
<1>5. /\ Data(t) \in 1..n /\ asked[t][Data(t)] \in wanted
      /\ \A j \in (Data(t) + 1)..n : asked[t][j] \notin wanted
  <2> HIDE DEF wanted
  <2>1. /\ n \in 1..n /\ \A j \in (n + 1)..n : asked[t][j] \notin wanted
    BY <1>1
  <2>2. Data(t) = CHOOSE i \in 1..n : /\ asked[t][i] \in wanted
                                      /\ \A j \in (i + 1)..n : asked[t][j] \notin wanted
    BY DEF Data, LastCall, wanted
  <2> QED BY <1>4, <2>1, <2>2
<1>6. Data(t) = n
  <2> HIDE DEF wanted, n
  <2> QED BY <1>1, <1>4, <1>5
<1> QED BY <1>1, <1>2, <1>3, <1>6, ManagerAssumption DEF Calls!Requests

(* Both buffers are there.                                                 *)
LEMMA GetStep ==
    ASSUME IInv, NEW t \in Tiles, GetBuffers(t)
    PROVE  IInv'
<1> DEFINE d == Data(t)
<1> DEFINE n == Len(got[t])
<1>0. /\ Types /\ Progress(t) /\ SessionInv(t) /\ got[t] \in Seq(Asks) /\ n \in Nat
  BY LenProperties DEF IInv, Types, TileInv, Callers
<1>1. /\ pc[t] = "get" /\ promise[t][d] = "value"
      /\ got' = [got EXCEPT ![t] = Append(@, asked[t][answer[t][d]])]
      /\ pc' = [pc EXCEPT ![t] = "predict"]
      /\ UNCHANGED <<promise, answer, traceIndex, represent, todo, asked>>
  BY DEF GetBuffers, BothSettled, HasBody, DataCall, Goto, callVars
<1>2. /\ d \in Calls!Requests /\ asked[t][d][2] = n + 1 /\ asked[t][d] \in Asks
  BY <1>1, DataIsLast
<1>3. answer[t][d] = d
  BY <1>0, <1>1, <1>2 DEF SessionInv
<1> HIDE DEF d
<1>4. /\ got' \in [Tiles -> Seq(Asks)] /\ Len(got'[t]) = n + 1
      /\ \A i \in 1..n : got'[t][i] = got[t][i]
      /\ got'[t][n + 1] = asked[t][d]
      /\ \A u \in Tiles \ {t} : got'[u] = got[u]
  <2>1. /\ Append(got[t], asked[t][d]) \in Seq(Asks)
        /\ Len(Append(got[t], asked[t][d])) = n + 1
        /\ \A i \in 1..n : Append(got[t], asked[t][d])[i] = got[t][i]
        /\ Append(got[t], asked[t][d])[n + 1] = asked[t][d]
    BY <1>0, <1>2, AppendEntries
  <2>2. got' = [got EXCEPT ![t] = Append(got[t], asked[t][d])]
    BY <1>1, <1>3
  <2>3. got \in [Tiles -> Seq(Asks)]
    BY <1>0 DEF Types
  <2> QED BY <2>1, <2>2, <2>3
<1>5. pc'[t] = "predict" /\ DOMAIN pc' = Tiles /\ \A u \in Tiles \ {t} : pc'[u] = pc[u]
  BY <1>0, <1>1 DEF Types
<1>6. Types'
  BY <1>0, <1>1, <1>4, <1>5 DEF Types
<1>7. Progress(t)'
  <2>1. traceIndex[t] = n + 1 /\ \A i \in 1..n : got[t][i][2] = i
    BY <1>0, <1>1 DEF Progress
  <2>2. \A i \in 1..(n + 1) : got'[t][i][2] = i
    <3> HIDE DEF n
    <3>1. \A i \in 1..(n + 1) : i \in 1..n \/ i = n + 1
      BY <1>0
    <3> QED BY <1>2, <1>4, <2>1, <3>1
  <2> QED BY <1>1, <1>4, <1>5, <2>1, <2>2 DEF Progress
<1> QED BY <1>1, <1>4, <1>5, <1>6, <1>7, NoCall

---------------------------------------------------------------------------------
LEMMA NextIInv == IInv /\ [Next]_vars => IInv'
<1> SUFFICES ASSUME IInv, [Next]_vars PROVE IInv'
  OBVIOUS
<1>1. CASE RequestStreamIndex \/ IndexSession \/ IndexDocument \/ Connect
  BY <1>1, IndexStep
<1>2. ASSUME NEW t \in Tiles, StreamThread(t) PROVE IInv'
  BY <1>2, ThreadMoves, PredictStep, SendStep, GetStep DEF StreamThread
<1>3. ASSUME NEW s \in Callers, Session(s) PROVE IInv'
  BY <1>3, SessionStep
<1>4. CASE UNCHANGED vars
  BY <1>4, AllKept DEF vars, callVars, streamVars
<1> QED BY <1>1, <1>2, <1>3, <1>4 DEF Next

(* The inductive invariant holds of every behaviour of the manager.        *)
THEOREM Invariance == Spec => []IInv
BY InitIInv, NextIInv, PTL DEF Spec

(* A tile's decoder is given media segments 1, 2, 3, ..., though the       *)
(* representation may change at each (dash.manager.cpp:92, 115, 224-226).  *)
THEOREM SegmentOrder == Spec => []SegmentsInOrder
<1>1. IInv => SegmentsInOrder
  BY DEF IInv, TileInv, Progress, SegmentsInOrder
<1> QED BY <1>1, Invariance, PTL

(* When a media segment is there, so is the initial segment of its         *)
(* representation (dash.manager.cpp:235).                                  *)
THEOREM InitialFirst == Spec => []InitialBeforeMedia
<1>1. IInv => InitialBeforeMedia
  <2> SUFFICES ASSUME IInv, NEW t \in Tiles, NEW c \in 1..Len(asked[t]),
                      asked[t][c][2] # Initial, promise[t][c] = "value"
               PROVE  \E i \in 1..Len(asked[t]) :
                         /\ asked[t][i] = <<asked[t][c][1], Initial>>
                         /\ promise[t][i] = "value"
    BY DEF InitialBeforeMedia
  <2>1. /\ InitialAsked(t) /\ SessionInv(t) /\ Len(asked[t]) <= MaxRequests
        /\ Len(asked[t]) \in Nat
    BY LenProperties DEF IInv, Types, TileInv, CallsCounted, Callers
  <2>2. PICK i \in 1..(c - 1) : asked[t][i] = <<asked[t][c][1], Initial>>
    BY <2>1 DEF InitialAsked
  <2>3. c \in Calls!Requests
    BY <2>1, ManagerAssumption DEF Calls!Requests
  <2>4. promise[t][i] = "value"
    BY <2>1, <2>2, <2>3 DEF SessionInv
  <2>5. i \in 1..Len(asked[t])
    BY <2>1
  <2> QED BY <2>2, <2>4, <2>5
<1> QED BY <1>1, Invariance, PTL

---------------------------------------------------------------------------------
(* The connector.                                                          *)

Results == {"resolved", "unresolved"}
(* What the strand holds: the tokens of callers, and handlers.             *)
Entries == Callers \cup {"resolved", "unresolved", "failed"}

(* A resolve operation is in flight, or its handler waits to run.          *)
Resolves == resolving = 1 \/ \E r \in Results : Has(strand, r)

(* Resolves go on one after the other, for as long as the list is not      *)
(* empty, and stop only at a failure, which some caller has learnt of.     *)
ResolveInv ==
    /\ resolving \in {0, 1}
    /\ resolving = 1 => \A r \in Results : ~Has(strand, r)
    /\ \A r \in Results : Once(strand, r)
    /\ ~(Has(strand, "resolved") /\ Has(strand, "unresolved"))
    /\ Resolves => connectList # <<>>
    /\ connectList # <<>> => Resolves \/ \E c \in Callers : outcome[c] = "error"
    /\ Has(strand, "failed") => \E c \in Callers : outcome[c] = "error"

(* Who holds the promise of caller c.                                      *)
HolderInv(c) ==
    /\ Once(strand, c) /\ Once(connectList, c)
    /\ Has(strand, c) =>
          ~Has(connectList, c) /\ c \notin connecting /\ outcome[c] = "pending"
    /\ Has(connectList, c) => c \notin connecting /\ outcome[c] \in {"pending", "error"}
    /\ c \in connecting => outcome[c] \in {"pending", "error"}
    /\ outcome[c] = "pending" =>
          Has(strand, c) \/ Has(connectList, c) \/ c \in connecting

NetInv ==
    /\ Net!TypeOK
    /\ ResolveInv
    /\ \A c \in Callers : HolderInv(c)

LEMMA NetInit == Net!Init => NetInv
<1> SUFFICES ASSUME Net!Init PROVE NetInv
  OBVIOUS
<1>1. strand = <<>> /\ connectList = <<>> /\ \A c : ~Has(<<>>, c) /\ Once(<<>>, c)
  BY EmptySeq DEF Net!Init, Has, Once
<1>2. Net!TypeOK
  BY NetAssumption, EmptySeq DEF Net!Init, Net!TypeOK, Net!ConnectorAssumption
<1> QED BY <1>1, <1>2 DEF NetInv, ResolveInv, Resolves, HolderInv, Net!Init

(* A caller that is held by nobody is posted to the strand.                *)
LEMMA SocketStep ==
    ASSUME NetInv, NEW c \in Callers, Net!ConnectSocket(c)
    PROVE  NetInv'
<1>1. /\ strand \in Seq(Entries) /\ c \in Entries /\ c \notin Results \cup {"failed"}
      /\ strand' = Append(strand, c)
      /\ outcome \in [Callers -> {"uncalled", "pending", "socket", "error"}]
      /\ outcome' = [outcome EXCEPT ![c] = "pending"] /\ outcome[c] = "uncalled"
      /\ UNCHANGED <<connectList, resolving, connecting, threads>>
  BY NetAssumption DEF NetInv, Net!TypeOK, Net!ConnectSocket,
      Entries, Results, Net!ConnectorAssumption
<1>2. Net!TypeOK'
  BY <1>1, AppendEntries DEF NetInv, Net!TypeOK, Entries
<1>3. \A e : /\ Has(strand', e) <=> Has(strand, e) \/ e = c
             /\ Once(strand, e) /\ (Has(strand, e) => e # c) => Once(strand', e)
  BY <1>1, AppendHas
<1>4. outcome'[c] = "pending" /\ \A d \in Callers \ {c} : outcome'[d] = outcome[d]
  BY <1>1
<1>5. ResolveInv'
  BY <1>1, <1>3, <1>4 DEF NetInv, ResolveInv, Resolves, Results
<1>6. \A d \in Callers : HolderInv(d)'
  BY <1>1, <1>3, <1>4 DEF NetInv, HolderInv
<1> QED BY <1>2, <1>5, <1>6 DEF NetInv

(* What the strand is left with when it runs its next handler.             *)
LEMMA StrandRuns ==
    ASSUME NetInv, NEW handlers, Net!Runs(handlers), strand' = Tail(strand)
    PROVE  /\ Head(strand) \in handlers /\ Head(strand) \in Entries
           /\ Has(strand, Head(strand)) /\ strand' \in Seq(Entries)
           /\ \A e : /\ Has(strand, e) <=> Has(strand', e) \/ e = Head(strand)
                     /\ Once(strand, e) => /\ Once(strand', e)
                                           /\ Has(strand', e) => e # Head(strand)
<1>1. strand \in Seq(Entries) /\ strand # <<>> /\ Head(strand) \in handlers
  BY DEF NetInv, Net!TypeOK, Net!Runs, Entries
<1> QED BY <1>1, TailHas, TailEntries

(* The token moves to the list, and starts to resolve if it is the first.  *)
LEMMA PostedStep ==
    ASSUME NetInv, Net!RunPosted
    PROVE  NetInv'
<1> DEFINE c == Head(strand)
<1>1. /\ connectList' = Append(connectList, c) /\ connectList \in Seq(Callers)
      /\ resolving' = IF Len(connectList') = 1 THEN resolving + 1 ELSE resolving
      /\ UNCHANGED <<connecting, outcome, threads>>
  BY DEF Net!RunPosted, Net!First, NetInv, Net!TypeOK
<1>2. /\ c \in Callers /\ Has(strand, c) /\ strand' \in Seq(Entries)
      /\ \A e : /\ Has(strand, e) <=> Has(strand', e) \/ e = c
                /\ Once(strand, e) => Once(strand', e) /\ (Has(strand', e) => e # c)
  BY StrandRuns DEF Net!RunPosted
<1> HIDE DEF c
<1>3. \A e : /\ Has(connectList', e) <=> Has(connectList, e) \/ e = c
             /\ Once(connectList, e) /\ (Has(connectList, e) => e # c) => Once(connectList', e)
  BY <1>1, <1>2, AppendHas
<1>4. /\ connectList' \in Seq(Callers) /\ connectList' # <<>>
      /\ connectList # <<>> => resolving' = resolving
      /\ connectList = <<>> => resolving' = resolving + 1
  <2>1. /\ Len(connectList') = Len(connectList) + 1 /\ Len(connectList) \in Nat
        /\ connectList = <<>> <=> Len(connectList) = 0
        /\ connectList' \in Seq(Callers) /\ connectList' # <<>>
    BY <1>1, <1>2, AppendEntries, LenProperties, EmptySeq
  <2> QED BY <1>1, <2>1
<1>5. c \notin Results \cup {"failed"}
  BY <1>2, NetAssumption DEF Results, Net!ConnectorAssumption
<1>6. Net!TypeOK'
  BY <1>1, <1>2, <1>4 DEF NetInv, Net!TypeOK, Entries
<1>7. ResolveInv'
  BY <1>1, <1>2, <1>4, <1>5 DEF NetInv, ResolveInv, Resolves, Results
<1>8. \A d \in Callers : HolderInv(d)'
  <2> SUFFICES ASSUME NEW d \in Callers PROVE HolderInv(d)'
    OBVIOUS
  <2>1. HolderInv(d)
    BY DEF NetInv
  <2> QED BY <1>1, <1>2, <1>3, <2>1 DEF HolderInv
<1> QED BY <1>6, <1>7, <1>8 DEF NetInv

(* The operation in flight becomes a handler that waits to run.            *)
LEMMA ResolveStep ==
    ASSUME NetInv, Net!Resolve
    PROVE  NetInv'
<1>1. PICK result \in Results : strand' = Append(strand, result)
  BY DEF Net!Resolve, Results
<1>2. /\ resolving = 1 /\ resolving' = 0 /\ strand \in Seq(Entries)
      /\ UNCHANGED <<connectList, connecting, outcome, threads>>
  BY DEF NetInv, ResolveInv, Net!TypeOK, Net!Resolve, Entries
<1>3. result \in Entries /\ result \notin Callers \cup {"failed"}
  BY NetAssumption DEF Results, Entries, Net!ConnectorAssumption
<1>4. \A e : /\ Has(strand', e) <=> Has(strand, e) \/ e = result
             /\ Once(strand, e) /\ (Has(strand, e) => e # result) => Once(strand', e)
  BY <1>1, <1>2, <1>3, AppendHas
<1>5. Net!TypeOK'
  BY <1>1, <1>2, <1>3, AppendEntries DEF NetInv, Net!TypeOK, Entries
<1>6. ResolveInv'
  BY <1>2, <1>3, <1>4 DEF NetInv, ResolveInv, Resolves, Results
<1>7. \A d \in Callers : HolderInv(d)'
  BY <1>2, <1>3, <1>4 DEF NetInv, HolderInv
<1> QED BY <1>5, <1>6, <1>7 DEF NetInv

(* The first caller is connected, and the next one is resolved for.        *)
LEMMA ResolvedStep ==
    ASSUME NetInv, Net!OnResolve
    PROVE  NetInv'
<1> DEFINE f == Head(connectList)
<1>1. /\ connectList' = Tail(connectList) /\ connectList \in Seq(Callers)
      /\ resolving' = IF connectList' = <<>> THEN resolving ELSE resolving + 1
      /\ connecting' = connecting \cup {f}
      /\ UNCHANGED <<outcome, threads>>
  BY DEF Net!OnResolve, Net!Rest, Net!ResolveNext, NetInv, Net!TypeOK
<1>2. /\ Head(strand) = "resolved" /\ Has(strand, "resolved") /\ strand' \in Seq(Entries)
      /\ \A e : /\ Has(strand, e) <=> Has(strand', e) \/ e = "resolved"
                /\ Once(strand, e) => Once(strand', e) /\ (Has(strand', e) => e # "resolved")
  BY StrandRuns DEF Net!OnResolve
<1>3. connectList # <<>> /\ resolving = 0
  BY <1>2 DEF NetInv, ResolveInv, Resolves, Results
<1>4. /\ f \in Callers /\ connectList' \in Seq(Callers) /\ Has(connectList, f)
      /\ \A e : /\ Has(connectList, e) <=> Has(connectList', e) \/ e = f
                /\ Once(connectList, e) =>
                      Once(connectList', e) /\ (Has(connectList', e) => e # f)
  BY <1>1, <1>3, TailHas, TailEntries
<1> HIDE DEF f
<1>5. \A c \in Callers : c # "resolved"
  BY NetAssumption DEF Net!ConnectorAssumption
<1>6. Net!TypeOK'
  BY <1>1, <1>2, <1>3, <1>4 DEF NetInv, Net!TypeOK, Entries
<1>7. ResolveInv'
  <2>1. \A r \in Results : ~Has(strand', r)
    BY <1>2 DEF NetInv, ResolveInv, Results
  <2> QED BY <1>1, <1>2, <1>3, <2>1 DEF NetInv, ResolveInv, Resolves, Results
<1>8. \A d \in Callers : HolderInv(d)'
  <2> SUFFICES ASSUME NEW d \in Callers PROVE HolderInv(d)'
    OBVIOUS
  <2>1. HolderInv(d)
    BY DEF NetInv
  <2> QED BY <1>1, <1>2, <1>4, <1>5, <2>1 DEF HolderInv
<1> QED BY <1>6, <1>7, <1>8 DEF NetInv

(* The callers in the list stay there, the first of them with an error.    *)
LEMMA FailureStep ==
    ASSUME NetInv, Net!RunFailure
    PROVE  NetInv'
<1>1. /\ Net!FailSocketThenCancel /\ UNCHANGED <<connectList, resolving, connecting>>
      /\ threads > 0 /\ connectList \in Seq(Callers) /\ threads \in 0..Threads
      /\ outcome \in [Callers -> {"uncalled", "pending", "socket", "error"}]
  BY DEF Net!RunFailure, Net!Runs, NetInv, Net!TypeOK
<1>2. /\ Head(strand) \in {"unresolved", "failed"} /\ Has(strand, Head(strand))
      /\ strand' \in Seq(Entries)
      /\ \A e : /\ Has(strand, e) <=> Has(strand', e) \/ e = Head(strand)
                /\ Once(strand, e) => /\ Once(strand', e)
                                      /\ Has(strand', e) => e # Head(strand)
  BY StrandRuns DEF Net!RunFailure
<1>3. /\ outcome' \in [Callers -> {"uncalled", "pending", "socket", "error"}]
      /\ \A c \in Callers :
            \/ outcome'[c] = outcome[c]
            \/ Has(connectList, c) /\ outcome[c] = "pending" /\ outcome'[c] = "error"
  <2>1. /\ outcome' \in [Callers -> {"uncalled", "pending", "socket", "error"}]
        /\ \A c \in Callers :
              \/ outcome'[c] = outcome[c]
              \/ /\ outcome'[c] = "error"
                 /\ \E i \in 1..Len(connectList) :
                       connectList[i] = c /\ ~Net!Settled(connectList[i])
    <3>1. \A i \in 1..Len(connectList) : i \in 1..i
      BY <1>1, LenProperties
    <3> QED BY <1>1, <3>1 DEF Net!FailSocketThenCancel
  <2> QED BY <2>1 DEF Has, Net!Settled
<1>4. threads' \in 0..Threads
  BY <1>1, NetAssumption DEF Net!FailSocketThenCancel, Net!ConnectorAssumption
<1>5. connectList # <<>> => \E c \in Callers : outcome'[c] = "error"
  <2> SUFFICES ASSUME connectList # <<>> PROVE \E c \in Callers : outcome'[c] = "error"
    OBVIOUS
  <2> DEFINE c == connectList[1]
  <2>1. 1 \in 1..Len(connectList) /\ c \in Callers
    BY <1>1, TailEntries
  <2>2. outcome[c] \in {"pending", "error"}
    <3>1. Has(connectList, c) /\ HolderInv(c)
      BY <2>1 DEF Has, NetInv
    <3> QED BY <3>1 DEF HolderInv
  <2>3. CASE outcome[c] = "error"
    BY <1>3, <2>1, <2>3
  <2>4. CASE outcome[c] = "pending"
    <3>1. \A j \in 1..1 : ~Net!Settled(connectList[j])
      BY <2>4 DEF Net!Settled
    <3>2. outcome'[c] = "error"
      BY <1>1, <2>1, <3>1 DEF Net!FailSocketThenCancel
    <3> QED BY <2>1, <3>2
  <2> QED BY <2>2, <2>3, <2>4
<1>6. \A c \in Callers : outcome[c] = "error" => outcome'[c] = "error"
  BY <1>3
<1>7. Net!TypeOK'
  BY <1>1, <1>2, <1>3, <1>4 DEF NetInv, Net!TypeOK, Entries
<1>8. ResolveInv'
  BY <1>1, <1>2, <1>5, <1>6 DEF NetInv, ResolveInv, Resolves, Results
<1>9. \A d \in Callers : HolderInv(d)'
  <2> SUFFICES ASSUME NEW d \in Callers PROVE HolderInv(d)'
    OBVIOUS
  <2>1. HolderInv(d) /\ d \notin {"unresolved", "failed"}
    BY NetAssumption DEF NetInv, Net!ConnectorAssumption
  <2> QED BY <1>1, <1>2, <1>3, <2>1 DEF HolderInv
<1> QED BY <1>7, <1>8, <1>9 DEF NetInv

(* The promise of a caller that was connected is settled, or was before.   *)
LEMMA ConnectStep ==
    ASSUME NetInv, NEW c \in Callers, Net!OnConnect(c)
    PROVE  NetInv'
<1>1. /\ c \in connecting /\ connecting' = connecting \ {c}
      /\ UNCHANGED <<connectList, resolving>>
      /\ threads \in 0..Threads /\ threads > 0
      /\ strand \in Seq(Entries)
      /\ outcome \in [Callers -> {"uncalled", "pending", "socket", "error"}]
  BY DEF Net!OnConnect, NetInv, Net!TypeOK, Entries
<1>2. outcome[c] \in {"pending", "error"} /\ ~Has(strand, c) /\ ~Has(connectList, c)
  BY <1>1 DEF NetInv, HolderInv
<1>3. \/ /\ outcome[c] = "error" /\ threads' = threads - 1 /\ UNCHANGED <<outcome, strand>>
      \/ /\ outcome[c] = "pending" /\ UNCHANGED <<threads, strand>>
         /\ outcome' = [outcome EXCEPT ![c] = "socket"]
      \/ /\ outcome[c] = "pending" /\ UNCHANGED threads
         /\ outcome' = [outcome EXCEPT ![c] = "error"]
         /\ strand' = Append(strand, "failed")
  BY <1>2 DEF Net!OnConnect, Net!Settled, Net!Refused, Net!Connected
<1>4. /\ outcome' \in [Callers -> {"uncalled", "pending", "socket", "error"}]
      /\ outcome'[c] \in {"socket", "error"}
      /\ outcome[c] = "error" => outcome'[c] = "error"
      /\ \A d \in Callers \ {c} : outcome'[d] = outcome[d]
      /\ threads' \in 0..Threads
  BY <1>1, <1>3, NetAssumption DEF Net!ConnectorAssumption
<1>5. /\ strand' \in Seq(Entries)
      /\ \A e \in Callers \cup Results : /\ Has(strand', e) <=> Has(strand, e)
                                         /\ Once(strand, e) => Once(strand', e)
      /\ Has(strand', "failed") => Has(strand, "failed") \/ outcome'[c] = "error"
  <2>1. CASE strand' = strand
    BY <1>1, <2>1
  <2>2. CASE outcome' = [outcome EXCEPT ![c] = "error"] /\ strand' = Append(strand, "failed")
    <3>1. "failed" \in Entries /\ \A e \in Callers \cup Results : e # "failed"
      BY NetAssumption DEF Entries, Results, Net!ConnectorAssumption
    <3>2. outcome'[c] = "error"
      BY <1>1, <2>2
    <3>3. \A e : /\ Has(strand', e) <=> Has(strand, e) \/ e = "failed"
                 /\ Once(strand, e) /\ (Has(strand, e) => e # "failed") => Once(strand', e)
      BY <1>1, <2>2, <3>1, AppendHas
    <3>4. strand' \in Seq(Entries)
      BY <1>1, <2>2, <3>1, AppendEntries
    <3> QED BY <3>1, <3>2, <3>3, <3>4
  <2> QED BY <1>3, <2>1, <2>2
<1>6. Net!TypeOK'
  BY <1>1, <1>4, <1>5 DEF NetInv, Net!TypeOK, Entries
<1>7. ResolveInv'
  <2>1. \A r \in Results : /\ Has(strand', r) <=> Has(strand, r)
                           /\ Once(strand, r) => Once(strand', r)
    BY <1>5
  <2>2. (\E d \in Callers : outcome[d] = "error") => \E d \in Callers : outcome'[d] = "error"
    <3> SUFFICES ASSUME NEW d \in Callers, outcome[d] = "error" PROVE outcome'[d] = "error"
      OBVIOUS
    <3>1. CASE d = c
      BY <1>4, <3>1
    <3>2. CASE d # c
      BY <1>4, <3>2
    <3> QED BY <3>1, <3>2
  <2>3. Resolves' <=> Resolves
    <3>1. (\E r \in Results : Has(strand', r)) <=> \E r \in Results : Has(strand, r)
      BY <2>1
    <3> QED BY <1>1, <3>1 DEF Resolves
  <2>4. ASSUME Has(strand', "failed") PROVE \E d \in Callers : outcome'[d] = "error"
    <3>1. CASE Has(strand, "failed")
      BY <2>2, <3>1 DEF NetInv, ResolveInv
    <3>2. CASE outcome'[c] = "error"
      BY <3>2
    <3> QED BY <1>5, <2>4, <3>1, <3>2
  <2>5. ResolveInv
    BY DEF NetInv
  <2> QED BY <1>1, <2>1, <2>2, <2>3, <2>4, <2>5 DEF ResolveInv, Results
<1>8. \A d \in Callers : HolderInv(d)'
  <2> SUFFICES ASSUME NEW d \in Callers PROVE HolderInv(d)'
    OBVIOUS
  <2>1. HolderInv(d)
    BY DEF NetInv
  <2>2. (Has(strand', d) <=> Has(strand, d)) /\ (Once(strand, d) => Once(strand', d))
    BY <1>5
  <2>3. (Has(connectList', d) <=> Has(connectList, d)) /\ Once(connectList', d)
    BY <1>1, <2>1 DEF HolderInv
  <2>4. CASE d = c
    <3>1. ~Has(strand', d) /\ ~Has(connectList', d) /\ d \notin connecting'
      BY <1>1, <1>2, <2>2, <2>3, <2>4
    <3>2. outcome'[d] # "pending"
      BY <1>4, <2>4
    <3> QED BY <2>1, <2>2, <2>3, <3>1, <3>2 DEF HolderInv
  <2>5. CASE d # c
    <3>1. outcome'[d] = outcome[d] /\ (d \in connecting' <=> d \in connecting)
      BY <1>1, <1>4, <2>5
    <3> QED BY <2>1, <2>2, <2>3, <3>1 DEF HolderInv
  <2> QED BY <2>4, <2>5
<1> QED BY <1>6, <1>7, <1>8 DEF NetInv

(* An io thread that ends changes nothing else.                            *)
LEMMA NetKept ==
    ASSUME NetInv, threads' \in {threads, threads - 1}, threads' \in Nat,
           UNCHANGED <<strand, connectList, resolving, connecting, outcome>>
    PROVE  NetInv'
<1>1. Net!TypeOK'
  BY NetAssumption DEF NetInv, Net!TypeOK, Net!ConnectorAssumption
<1> QED BY <1>1 DEF NetInv, ResolveInv, Resolves, HolderInv

(* No step of the manager disturbs the connector.                          *)
LEMMA NetStep == NetInv /\ [Next]_vars => NetInv'
<1> SUFFICES ASSUME NetInv, [Next]_vars PROVE NetInv'
  OBVIOUS
<1>0. threads \in Nat
  BY NetAssumption DEF NetInv, Net!TypeOK, Net!ConnectorAssumption
<1>1. CASE UNCHANGED connectorVars
  BY <1>0, <1>1, NetKept DEF connectorVars
<1>2. CASE Net!Operation
  BY <1>2, PostedStep, ResolveStep, ResolvedStep, FailureStep, ConnectStep
     DEF Net!Operation, Net!Handler
<1>3. CASE RequestStreamIndex
  BY <1>3, SocketStep DEF RequestStreamIndex, Callers
<1>4. ASSUME NEW t \in Tiles, StreamThread(t) PROVE NetInv'
  <2>1. CASE TileStreamer(t)
    BY <2>1, SocketStep DEF TileStreamer, Callers
  <2>2. CASE ~TileStreamer(t)
    BY <1>1, <1>4, <2>2
       DEF StreamThread, PredictRepresent, RequestSend, NoSession, GetBuffers, GetThrows
  <2> QED BY <2>1, <2>2
<1>5. ASSUME NEW s \in Callers, Session(s) PROVE NetInv'
  <2>1. threads' \in {threads, threads - 1} /\ threads > 0
        /\ UNCHANGED <<strand, connectList, resolving, connecting, outcome>>
    BY <1>5 DEF Session
  <2> QED BY <1>0, <2>1, NetKept
<1> QED BY <1>1, <1>2, <1>3, <1>4, <1>5
        DEF Next, vars, Connect, IndexSession, IndexDocument

(* The invariant of the connector holds of every behaviour of the manager. *)
THEOREM ConnectorInvariance == Spec => []NetInv
<1>1. Init => NetInv
  BY NetInit DEF Init
<1> QED BY <1>1, NetStep, PTL DEF Spec

(* The connector counts as this module does.                               *)
LEMMA SameCardinality == \A S : Net!Cardinality(S) = Cardinality(S)
BY DEF Net!Cardinality, Cardinality

(* There is one resolve operation at most, the list has a front when it    *)
(* ends, and until a first failure nobody in the list is forgotten         *)
(* (connector.cpp:51-54, 64-68).                                           *)
THEOREM OneResolveAtATime == Spec => []OneResolve
<1>1. NetInv => OneResolve
  <2> SUFFICES ASSUME NetInv PROVE OneResolve
    OBVIOUS
  <2> DEFINE places == {i \in 1..Len(strand) : strand[i] \in Results}
  <2>1. strand \in Seq(Entries) /\ ResolveInv
    BY DEF NetInv, Net!TypeOK, Entries
  <2>2. \A i, j \in 1..Len(strand) : strand[i] \in Results /\ strand[j] \in Results => i = j
    BY <2>1 DEF ResolveInv, Has, Once, Results
  <2>3. /\ Cardinality(places) \in {0, 1}
        /\ Cardinality(places) = 1 <=> \E r \in Results : Has(strand, r)
    BY <2>1, <2>2, OnePlace DEF Has
  <2>4. Net!Outstanding = resolving + Cardinality(places)
    BY SameCardinality DEF Net!Outstanding, Net!Places, Results
  <2> HIDE DEF places
  <2>5. Net!Outstanding \in {0, 1} /\ (Net!Outstanding = 1 <=> Resolves)
    BY <2>1, <2>3, <2>4 DEF ResolveInv, Resolves
  <2> QED BY <2>1, <2>5 DEF OneResolve, Net!OneResolve, ResolveInv
<1> QED BY <1>1, ConnectorInvariance, PTL

(* The promise of a caller is held by one party at most, and by one as     *)
(* long as it is open (connector.cpp:35-51, 62-65).                        *)
THEOREM OnePromiseHolder == Spec => []OneHolder
<1>1. NetInv => OneHolder
  <2> SUFFICES ASSUME NetInv, NEW c \in Callers
               PROVE  Net!Holders(c) <= 1 /\ (outcome[c] = "pending" => Net!Holders(c) = 1)
    BY DEF OneHolder, Net!OneHolder
  <2> DEFINE posted == {i \in 1..Len(strand) : strand[i] \in {c}}
  <2> DEFINE listed == {i \in 1..Len(connectList) : connectList[i] \in {c}}
  <2>1. strand \in Seq(Entries) /\ connectList \in Seq(Callers) /\ HolderInv(c)
    BY DEF NetInv, Net!TypeOK, Entries
  <2>2. /\ Cardinality(posted) \in {0, 1}
        /\ Cardinality(posted) = 1 <=> Has(strand, c)
    <3>1. \A i, j \in 1..Len(strand) : strand[i] \in {c} /\ strand[j] \in {c} => i = j
      BY <2>1 DEF HolderInv, Once
    <3>2. Has(strand, c) <=> \E i \in 1..Len(strand) : strand[i] \in {c}
      BY DEF Has
    <3> HIDE DEF Entries
    <3> QED BY <2>1, <3>1, <3>2, OnePlace
  <2>3. /\ Cardinality(listed) \in {0, 1}
        /\ Cardinality(listed) = 1 <=> Has(connectList, c)
    <3>1. \A i, j \in 1..Len(connectList) :
             connectList[i] \in {c} /\ connectList[j] \in {c} => i = j
      BY <2>1 DEF HolderInv, Once
    <3>2. Has(connectList, c) <=> \E i \in 1..Len(connectList) : connectList[i] \in {c}
      BY DEF Has
    <3> QED BY <2>1, <3>1, <3>2, OnePlace
  <2>4. Net!Holders(c) = Cardinality(posted) + Cardinality(listed)
                           + (IF c \in connecting THEN 1 ELSE 0)
    BY SameCardinality DEF Net!Holders, Net!Places
  <2> HIDE DEF posted, listed
  <2> QED BY <2>1, <2>2, <2>3, <2>4 DEF HolderInv
<1> QED BY <1>1, ConnectorInvariance, PTL

---------------------------------------------------------------------------------
(* Which requests are open.                                                *)

Labels == {"off", "predict", "send", "get", "ended", "unexpected", "escaped"}

(* The requests of a tile that are open are the last ones its thread has   *)
(* sent.                                                                   *)
Open(t) ==
    \A q \in Calls!Requests : promise[t][q] = "pending" =>
        /\ q \in {Len(asked[t]) - 1, Len(asked[t])}
        /\ pc[t] \notin {"off", "predict"}
        /\ pc[t] = "send" => /\ todo[t] = <<<<represent[t], traceIndex[t]>>>>
                             /\ q = Len(asked[t])
                             /\ asked[t][q] = <<represent[t], Initial>>
        /\ pc[t] = "get" => \/ q = Len(asked[t])
                            \/ asked[t][q] = <<represent[t], Initial>>

(* There is one request for the index.                                     *)
IndexOpen ==
    \A q \in Calls!Requests :
        /\ index \in {"none", "session"} => promise[Index][q] = "unsent"
        /\ promise[Index][q] # "unsent" => q = 1

(* What is known of the open requests, and the types they rest on.         *)
OpenInv ==
    /\ index \in {"none", "session", "document", "ready", "failed"}
    /\ pc \in [Tiles -> Labels]
    /\ represent \in [Tiles -> Represents]
    /\ \A t \in Tiles : Len(todo[t]) <= 2
    /\ IndexOpen
    /\ \A t \in Tiles : Open(t)

LEMMA InitOpen == Init => OpenInv
<1> SUFFICES ASSUME Init PROVE OpenInv
  OBVIOUS
<1>1. \A s \in Callers : \A q \in Calls!Requests : promise[s][q] = "unsent"
  BY DEF Init, Calls!Init
<1>2. IndexOpen /\ \A t \in Tiles : Open(t)
  BY <1>1 DEF IndexOpen, Open, Callers
<1>3. \A t \in Tiles : Len(todo[t]) <= 2
  BY EmptySeq DEF Init
<1>4. represent \in [Tiles -> Represents]
  BY ManagerAssumption DEF Init
<1> QED BY <1>2, <1>3, <1>4 DEF Init, OpenInv, Labels

(* Requests of a tile that are settled while its thread stands still.      *)
LEMMA OpenKept ==
    ASSUME NEW t, Open(t),
           \A q \in Calls!Requests : promise'[t][q] = "pending" => promise[t][q] = "pending",
           asked'[t] = asked[t], pc'[t] = pc[t], represent'[t] = represent[t],
           traceIndex'[t] = traceIndex[t], todo'[t] = todo[t]
    PROVE  Open(t)'
BY DEF Open

(* The io threads settle requests, of a tile or of the index.              *)
LEMMA ManagerSessionStep ==
    ASSUME IInv, OpenInv, NEW s \in Callers, Session(s)
    PROVE  OpenInv'
<1>1. /\ \A u \in Callers \ {s} : promise'[u] = promise[u]
      /\ \A q \in Calls!Requests : \/ promise'[s][q] = promise[s][q]
                                   \/ promise[s][q] = "pending"
      /\ \A q \in Calls!Requests : promise'[s][q] = "pending" => promise[s][q] = "pending"
  BY SettleShape DEF IInv, Session, Calls!Errors
<1>2. UNCHANGED <<index, pc, traceIndex, represent, todo, asked, got>>
  BY DEF Session, streamVars
<1>3. IndexOpen'
  <2>1. CASE s = Index
    BY <1>1, <1>2, <2>1 DEF OpenInv, IndexOpen
  <2>2. CASE s # Index
    BY <1>1, <1>2, <2>2 DEF OpenInv, IndexOpen, Callers
  <2> QED BY <2>1, <2>2
<1>4. ASSUME NEW t \in Tiles PROVE Open(t)'
  <2>1. \A q \in Calls!Requests : promise'[t][q] = "pending" => promise[t][q] = "pending"
    BY <1>1 DEF Callers
  <2> QED BY <1>2, <2>1, OpenKept DEF OpenInv
<1> QED BY <1>2, <1>3, <1>4 DEF OpenInv

(* The index request makes its one call.                                   *)
LEMMA ManagerIndexStep ==
    ASSUME IInv, OpenInv, RequestStreamIndex \/ IndexSession \/ IndexDocument \/ Connect
    PROVE  OpenInv'
<1>1. /\ UNCHANGED <<pc, traceIndex, represent, todo, asked, got>>
      /\ \/ UNCHANGED <<promise, index>>
         \/ promise' = promise /\ index' \in {"ready", "failed"}
         \/ promise' = promise /\ index = "none" /\ index' = "session"
         \/ Calls!Call(Index) /\ index = "session" /\ index' = "document"
  BY DEF RequestStreamIndex, IndexSession, IndexDocument, Connect, streamVars, callVars
<1>2. CASE promise' = promise
  <2>1. /\ index' \in {"none", "session", "document", "ready", "failed"}
        /\ index' \in {"none", "session"} => index \in {"none", "session"}
    BY <1>1, <1>2 DEF OpenInv
  <2>2. IndexOpen'
    BY <1>2, <2>1 DEF OpenInv, IndexOpen
  <2>3. \A t \in Tiles : Open(t)'
    BY <1>1, <1>2, OpenKept DEF OpenInv
  <2> QED BY <1>1, <2>1, <2>2, <2>3 DEF OpenInv
<1>3. CASE Calls!Call(Index) /\ index = "session" /\ index' = "document"
  <2>1. PICK r \in Calls!Requests :
           /\ promise[Index][r] = "unsent"
           /\ \A q \in 1..(r - 1) : promise[Index][q] # "unsent"
           /\ promise'[Index][r] = "pending"
           /\ \A q \in Calls!Requests \ {r} : promise'[Index][q] = promise[Index][q]
           /\ \A u \in Callers \ {Index} : promise'[u] = promise[u]
    BY <1>3, CallShape DEF IInv, Callers
  <2>2. \A q \in Calls!Requests : promise[Index][q] = "unsent"
    BY <1>3 DEF OpenInv, IndexOpen
  <2>3. r = 1
    <3>1. r \in Nat /\ (r > 1 => 1 \in 1..(r - 1) /\ 1 \in Calls!Requests) /\ r >= 1
      BY ManagerAssumption DEF Calls!Requests
    <3> QED BY <2>1, <2>2, <3>1
  <2>4. IndexOpen'
    BY <1>3, <2>1, <2>2, <2>3 DEF IndexOpen
  <2>5. ASSUME NEW t \in Tiles PROVE Open(t)'
    <3>1. promise'[t] = promise[t]
      BY <2>1, ManagerAssumption DEF Callers
    <3> QED BY <1>1, <3>1, OpenKept DEF OpenInv
  <2> QED BY <1>1, <1>3, <2>4, <2>5 DEF OpenInv
<1> QED BY <1>1, <1>2, <1>3

(* A thread that makes no call.                                            *)
LEMMA ManagerNoCall ==
    ASSUME OpenInv, NEW t \in Tiles, UNCHANGED <<index, promise, asked>>,
           pc' \in [Tiles -> Labels], represent' \in [Tiles -> Represents],
           Len(todo'[t]) <= 2, Open(t)',
           \A u \in Tiles \ {t} :
              /\ pc'[u] = pc[u] /\ represent'[u] = represent[u]
              /\ traceIndex'[u] = traceIndex[u] /\ todo'[u] = todo[u]
    PROVE  OpenInv'
<1>1. \A u \in Tiles \ {t} : Open(u)'
  BY OpenKept DEF OpenInv
<1>2. IndexOpen'
  BY DEF OpenInv, IndexOpen
<1> QED BY <1>1, <1>2 DEF OpenInv

LEMMA ManagerMoves ==
    ASSUME IInv, OpenInv, NEW t \in Tiles, TileStreamer(t) \/ NoSession(t) \/ GetThrows(t)
    PROVE  OpenInv'
<1>1. /\ UNCHANGED <<index, promise, traceIndex, represent, todo, asked>>
      /\ pc \in [Tiles -> Labels]
  BY DEF TileStreamer, NoSession, GetThrows, callVars, OpenInv
<1>2. \E label \in {"predict", "ended", "unexpected", "escaped"} :
         /\ pc' = [pc EXCEPT ![t] = label]
         /\ label = "predict" => pc[t] = "off"
  BY DEF TileStreamer, NoSession, GetThrows, Goto
<1>3. /\ pc' \in [Tiles -> Labels] /\ \A u \in Tiles \ {t} : pc'[u] = pc[u]
      /\ pc'[t] \in {"predict", "ended", "unexpected", "escaped"}
      /\ pc'[t] = "predict" => pc[t] = "off"
  BY <1>1, <1>2 DEF Labels
<1>4. Open(t)'
  BY <1>1, <1>3 DEF OpenInv, Open
<1> QED BY <1>1, <1>3, <1>4, ManagerNoCall DEF OpenInv

(* The thread has nothing open when it predicts.                           *)
LEMMA ManagerPredicts ==
    ASSUME IInv, OpenInv, NEW t \in Tiles, PredictRepresent(t)
    PROVE  OpenInv'
<1>1. PICK r \in Represents :
         /\ represent' = [represent EXCEPT ![t] = r]
         /\ todo' = [todo EXCEPT ![t] = Requests(t, r)]
  BY DEF PredictRepresent
<1>2. /\ pc[t] = "predict" /\ pc' = [pc EXCEPT ![t] = "send"]
      /\ traceIndex' = [traceIndex EXCEPT ![t] = @ + 1]
      /\ UNCHANGED <<index, promise, asked>>
      /\ pc \in [Tiles -> Labels] /\ represent \in [Tiles -> Represents]
      /\ DOMAIN todo = Tiles /\ DOMAIN traceIndex = Tiles
  BY DEF PredictRepresent, Goto, callVars, OpenInv, IInv, Types
<1>3. /\ pc' \in [Tiles -> Labels] /\ represent' \in [Tiles -> Represents]
      /\ pc'[t] = "send"
      /\ \A u \in Tiles \ {t} :
            /\ pc'[u] = pc[u] /\ represent'[u] = represent[u]
            /\ traceIndex'[u] = traceIndex[u] /\ todo'[u] = todo[u]
  BY <1>1, <1>2 DEF Labels
<1>4. Progress(t)'
  BY PredictStep DEF IInv, TileInv
<1>5. Len(todo'[t]) <= 2
  <2>1. \/ todo'[t] = <<<<represent'[t], Initial>>, <<represent'[t], traceIndex'[t]>>>>
        \/ todo'[t] = <<<<represent'[t], traceIndex'[t]>>>>
    BY <1>3, <1>4 DEF Progress
  <2> DEFINE k == Len(todo'[t])
  <2>2. k = 1 \/ k = 2
    BY <2>1
  <2> HIDE DEF k
  <2>3. k <= 2
    BY <2>2
  <2> QED BY <2>3 DEF k
<1>6. Open(t)'
  BY <1>2 DEF OpenInv, Open
<1> QED BY <1>2, <1>3, <1>5, <1>6, ManagerNoCall

(* The initial segment may be open when the media segment is sent.         *)
LEMMA ManagerSends ==
    ASSUME IInv, OpenInv, NEW t \in Tiles, RequestSend(t)
    PROVE  OpenInv'
<1> DEFINE n == Len(asked[t])
<1> DEFINE a == Head(todo[t])
<1>0. /\ Types /\ TileInv(t) /\ t \in Callers /\ asked[t] \in Seq(Asks) /\ n \in Nat
      /\ todo[t] \in Seq(Asks) /\ Open(t) /\ pc \in [Tiles -> Labels]
  BY LenProperties DEF IInv, OpenInv, Types, Callers
<1>1. /\ pc[t] = "send" /\ Calls!Call(t)
      /\ asked' = [asked EXCEPT ![t] = Append(@, a)]
      /\ todo' = [todo EXCEPT ![t] = Tail(@)]
      /\ pc' = [pc EXCEPT ![t] = NextStep(t)]
      /\ UNCHANGED <<index, traceIndex, represent>>
  BY DEF RequestSend, MakeHttpRequest, Goto
<1>2. \/ todo[t] = <<<<represent[t], Initial>>, <<represent[t], traceIndex[t]>>>>
      \/ todo[t] = <<<<represent[t], traceIndex[t]>>>>
  BY <1>0, <1>1 DEF TileInv, Progress
<1>3. \/ /\ a = <<represent[t], Initial>> /\ NextStep(t) = "send"
         /\ Tail(todo[t]) = <<<<represent[t], traceIndex[t]>>>>
         /\ todo[t] # <<<<represent[t], traceIndex[t]>>>>
      \/ /\ a = <<represent[t], traceIndex[t]>> /\ NextStep(t) = "get"
         /\ Tail(todo[t]) = <<>>
  <2>1. CASE todo[t] = <<<<represent[t], Initial>>, <<represent[t], traceIndex[t]>>>>
    <3>1. Len(todo[t]) = 2 /\ Len(<<<<represent[t], traceIndex[t]>>>>) = 1
      BY <2>1, TwoEntries
    <3>2. todo[t] # <<<<represent[t], traceIndex[t]>>>>
      BY <3>1
    <3> QED BY <2>1, <3>1, <3>2 DEF NextStep
  <2>2. CASE todo[t] = <<<<represent[t], traceIndex[t]>>>>
    BY <2>2 DEF NextStep
  <2> QED BY <1>2, <2>1, <2>2
<1>4. todo[t] # <<>> /\ a \in Asks /\ Len(Tail(todo[t])) <= 2
  <2>1. todo[t] # <<>> /\ (Len(todo[t]) = 1 \/ Len(todo[t]) = 2)
    BY <1>2, TwoEntries
  <2>2. Tail(todo[t]) \in Seq(Asks) /\ Len(Tail(todo[t])) = Len(todo[t]) - 1 /\ a \in Asks
    BY <1>0, <2>1, TailEntries
  <2> DEFINE k == Len(todo[t])
  <2>3. k = 1 \/ k = 2
    BY <2>1
  <2>4. Len(Tail(todo[t])) = k - 1
    BY <2>2
  <2> HIDE DEF k
  <2>5. k - 1 <= 2
    BY <2>3
  <2> QED BY <2>1, <2>2, <2>4, <2>5
<1> HIDE DEF a
<1>5. /\ asked'[t] = Append(asked[t], a) /\ todo'[t] = Tail(todo[t])
      /\ pc' \in [Tiles -> Labels] /\ pc'[t] = NextStep(t)
      /\ \A u \in Tiles \ {t} :
            asked'[u] = asked[u] /\ todo'[u] = todo[u] /\ pc'[u] = pc[u]
  BY <1>0, <1>1, <1>3 DEF Types, Labels
<1>6. Len(asked'[t]) = n + 1 /\ asked'[t][n + 1] = a /\ \A i \in 1..n : asked'[t][i] = asked[t][i]
  BY <1>0, <1>4, <1>5, AppendEntries
<1>7. PICK r \in Calls!Requests :
         /\ promise[t][r] = "unsent"
         /\ \A q \in 1..(r - 1) : promise[t][q] # "unsent"
         /\ promise'[t][r] = "pending"
         /\ \A q \in Calls!Requests \ {r} : promise'[t][q] = promise[t][q]
         /\ \A u \in Callers \ {t} : promise'[u] = promise[u]
  BY <1>0, <1>1, CallShape
<1> HIDE DEF n
<1>8. r = n + 1
  <2>1. \A q \in Calls!Requests : q \in Nat \ {0} /\ (promise[t][q] = "unsent" <=> q > n)
    BY <1>0, ManagerAssumption DEF TileInv, CallsCounted, n, Calls!Requests
  <2>2. r > n /\ r \in Nat
    BY <1>7, <2>1
  <2>3. CASE r > n + 1
    <3>1. n + 1 \in 1..(r - 1) /\ n + 1 \in Calls!Requests
      BY <1>0, <2>2, <2>3, ManagerAssumption DEF Calls!Requests
    <3> QED BY <1>0, <1>7, <2>1, <3>1
  <2> QED BY <1>0, <2>2, <2>3
<1>9. Open(t)'
  <2> SUFFICES ASSUME NEW q \in Calls!Requests, promise'[t][q] = "pending"
               PROVE  /\ q \in {n, n + 1}
                      /\ pc'[t] = "send" => /\ todo'[t] = <<<<represent[t], traceIndex[t]>>>>
                                            /\ q = n + 1
                                            /\ asked'[t][q] = <<represent[t], Initial>>
                      /\ pc'[t] = "get" => \/ q = n + 1
                                           \/ asked'[t][q] = <<represent[t], Initial>>
                      /\ pc'[t] \in {"send", "get"}
    <3>1. {Len(asked'[t]) - 1, Len(asked'[t])} = {n, n + 1}
      BY <1>0, <1>6
    <3>2. represent'[t] = represent[t] /\ traceIndex'[t] = traceIndex[t]
      BY <1>1
    <3> QED BY <1>6, <3>1, <3>2 DEF Open
  <2>1. CASE q = n + 1
    BY <1>3, <1>5, <1>6, <2>1
  <2>2. CASE q # n + 1
    <3>1. promise[t][q] = "pending"
      BY <1>7, <1>8, <2>2
    <3>2. /\ q = n /\ asked[t][q] = <<represent[t], Initial>>
          /\ todo[t] = <<<<represent[t], traceIndex[t]>>>>
      BY <1>0, <1>1, <3>1 DEF Open, n
    <3>3. pc'[t] = "get"
      BY <1>3, <1>5, <3>2
    <3>4. q \in 1..n
      BY <1>0, <3>2, ManagerAssumption DEF Calls!Requests
    <3> QED BY <1>6, <3>2, <3>3, <3>4
  <2> QED BY <2>1, <2>2
<1>10. \A u \in Tiles \ {t} : Open(u)'
  <2>1. \A u \in Tiles \ {t} : promise'[u] = promise[u]
    BY <1>7 DEF Callers
  <2> QED BY <1>1, <1>5, <2>1, OpenKept DEF OpenInv
<1>11. IndexOpen'
  <2>1. promise'[Index] = promise[Index]
    BY <1>7, ManagerAssumption DEF Callers
  <2> QED BY <1>1, <2>1 DEF OpenInv, IndexOpen
<1> QED BY <1>1, <1>4, <1>5, <1>9, <1>10, <1>11 DEF OpenInv

(* A thread that gets its buffers has nothing open.                        *)
LEMMA ManagerGets ==
    ASSUME IInv, OpenInv, NEW t \in Tiles, GetBuffers(t)
    PROVE  OpenInv'
<1> DEFINE n == Len(asked[t])
<1>1. /\ pc[t] = "get" /\ DataCall(t) # "pending" /\ InitialCall(t) # "pending"
      /\ pc' = [pc EXCEPT ![t] = "predict"]
      /\ UNCHANGED <<index, promise, traceIndex, represent, todo, asked>>
      /\ pc \in [Tiles -> Labels] /\ Open(t)
  BY DEF GetBuffers, BothSettled, Goto, callVars, OpenInv
<1>2. /\ n \in Nat /\ asked[t][n] = <<represent[t], traceIndex[t]>>
      /\ traceIndex[t] = Len(got[t]) + 1 /\ Len(got[t]) \in Nat
  BY <1>1, LenProperties DEF IInv, Types, TileInv, Progress
<1>3. promise[t][n] # "pending"
  BY <1>1, DataIsLast DEF DataCall
<1>4. \A q \in Calls!Requests : promise[t][q] # "pending"
  <2> SUFFICES ASSUME NEW q \in Calls!Requests, promise[t][q] = "pending" PROVE FALSE
    OBVIOUS
  <2> DEFINE wanted == {<<represent[t], Initial>>}
  <2>1. q = n - 1 /\ asked[t][q] \in wanted
    BY <1>1, <1>3 DEF Open
  <2>2. asked[t][n] \notin wanted
    BY <1>2 DEF Initial
  <2>3. q \in 1..n
    BY <1>2, <2>1, ManagerAssumption DEF Calls!Requests
  <2> HIDE DEF wanted
  <2>4. /\ q \in 1..n /\ asked[t][q] \in wanted
        /\ \A j \in (q + 1)..n : asked[t][j] \notin wanted
    <3>1. \A j \in (q + 1)..n : j = n
      BY <1>2, <2>1
    <3> QED BY <2>1, <2>2, <2>3, <3>1
  <2> DEFINE last == LastCall(t, wanted)
  <2>5. last = CHOOSE i \in 1..n : /\ asked[t][i] \in wanted
                                   /\ \A j \in (i + 1)..n : asked[t][j] \notin wanted
    BY DEF LastCall
  <2> HIDE DEF last
  <2>6. /\ last \in 1..n /\ asked[t][last] \in wanted
        /\ \A j \in (last + 1)..n : asked[t][j] \notin wanted
    BY <2>4, <2>5
  <2> HIDE DEF n
  <2>7. last = q
    BY <1>2, <2>1, <2>2, <2>4, <2>6
  <2> QED BY <1>1, <2>7 DEF InitialCall, last, wanted
<1>5. /\ pc' \in [Tiles -> Labels] /\ \A u \in Tiles \ {t} : pc'[u] = pc[u]
  BY <1>1 DEF Labels
<1>6. Open(t)'
  BY <1>1, <1>4 DEF Open
<1> QED BY <1>1, <1>5, <1>6, ManagerNoCall DEF OpenInv

LEMMA NextOpen == IInv /\ OpenInv /\ [Next]_vars => OpenInv'
<1> SUFFICES ASSUME IInv, OpenInv, [Next]_vars PROVE OpenInv'
  OBVIOUS
<1>1. CASE RequestStreamIndex \/ IndexSession \/ IndexDocument \/ Connect
  BY <1>1, ManagerIndexStep
<1>2. ASSUME NEW t \in Tiles, StreamThread(t) PROVE OpenInv'
  BY <1>2, ManagerMoves, ManagerPredicts, ManagerSends, ManagerGets DEF StreamThread
<1>3. ASSUME NEW s \in Callers, Session(s) PROVE OpenInv'
  BY <1>3, ManagerSessionStep
<1>4. CASE UNCHANGED vars
  BY <1>4, OpenKept DEF vars, callVars, streamVars, OpenInv, IndexOpen
<1> QED BY <1>1, <1>2, <1>3, <1>4 DEF Next

(* Every variable of the manager and of the connector keeps its type, and  *)
(* no session has more than two requests open (dash.manager.cpp:101-138):  *)
(* the discipline that ClientSession takes from its callers.               *)
THEOREM TypeCorrect == Spec => []TypeOK
<1>1. Spec => []OpenInv
  BY InitOpen, NextOpen, Invariance, PTL DEF Spec
<1>2. IInv /\ OpenInv /\ NetInv => TypeOK
  <2> SUFFICES ASSUME IInv, OpenInv, NetInv PROVE TypeOK
    OBVIOUS
  <2>1. ASSUME NEW s \in Callers
        PROVE  Cardinality({r \in 1..MaxRequests : promise[s][r] = "pending"}) <= 2
    <3>1. CASE s \in Tiles
      <4>1. {r \in 1..MaxRequests : promise[s][r] = "pending"}
              \subseteq {Len(asked[s]) - 1, Len(asked[s])}
        BY <3>1 DEF OpenInv, Open, Calls!Requests
      <4> QED BY <4>1, AtMostTwo
    <3>2. CASE s = Index
      <4>1. {r \in 1..MaxRequests : promise[s][r] = "pending"} \subseteq {1, 1}
        BY <3>2 DEF OpenInv, IndexOpen, Calls!Requests
      <4> QED BY <4>1, AtMostTwo
    <3> QED BY <3>1, <3>2 DEF Callers
  <2> QED BY <2>1 DEF TypeOK, IInv, Types, OpenInv, Labels, NetInv
<1> QED BY <1>1, <1>2, Invariance, ConnectorInvariance, PTL
=================================================================================
