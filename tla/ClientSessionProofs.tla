--------------------------- MODULE ClientSessionProofs ---------------------------
(***************************************************************************)
(* Theorems about the HTTP client sessions, for every set of sessions,     *)
(* every number of io threads and of requests.                             *)
(*                                                                         *)
(* The argument: the requests of a session that are open are a window in   *)
(* the order they were sent, first those in the list and then those still  *)
(* posted (Window).  The operation in flight and what is on the wire belong*)
(* to the first of them (OneOperation, WireInv).  Once a request has failed*)
(* nothing is read any more: the session is inactive, or its close has     *)
(* thrown because the connection was reset (FailedInv).                    *)
(***************************************************************************)
EXTENDS ClientSession, SequenceFacts

Failed(s, r) == promise[s][r] \in {"bad_request", "bad_response", "session_closed"}

(* The first k requests of session s are settled, n have been sent.        *)
Window(s, k, n) ==
    /\ n = k + Len(requestList[s]) + Len(posted[s])
    /\ n <= k + 2
    /\ \A i \in 1..Len(requestList[s]) : requestList[s][i] = k + i
    /\ \A i \in 1..Len(posted[s]) : posted[s][i] = k + Len(requestList[s]) + i
    /\ \A r \in Requests : /\ promise[s][r] = "unsent" <=> r > n
                           /\ promise[s][r] = "pending" <=> k < r /\ r <= n

ListInv(s) == \E k, n \in 0..MaxRequests : Window(s, k, n)

(* One operation in flight for the front of the list.                      *)
OperationInv(s) ==
    /\ Len(writing[s]) + reading[s] = (IF requestList[s] = <<>> THEN 0 ELSE 1)
    /\ writing[s] # <<>> => Head(writing[s]) = Head(requestList[s])

(* What is on the wire belongs to the request whose response is awaited.   *)
WireInv(s) ==
    /\ ~active[s] => requestList[s] = <<>> /\ conn[s] # "open"
    /\ conn[s] = "reset" => toServer[s] = <<>>
    /\ reading[s] = 0 => toClient[s] = <<>>
    /\ reading[s] = 0 /\ toServer[s] # <<>> => ~active[s]
    /\ reading[s] # 0 =>
          /\ Len(toServer[s]) + Len(toClient[s]) <= 1
          /\ toServer[s] # <<>> => Head(toServer[s]) = Head(requestList[s])
          /\ toClient[s] # <<>> => Head(toClient[s]).req = Head(requestList[s])
    /\ toClient[s] # <<>> /\ ~Head(toClient[s]).ok => conn[s] # "open"

(* No response is read once a request has failed.                          *)
FailedInv(s) ==
    (\E r \in Requests : Failed(s, r)) =>
        reading[s] = 0 /\ (active[s] => conn[s] = "reset")

SessionInv(s) == ListInv(s) /\ OperationInv(s) /\ WireInv(s) /\ FailedInv(s)

(* TypeOK, without the bound on open requests that ListInv implies.        *)
Types ==
    /\ posted \in [Sessions -> Seq(Requests)]
    /\ requestList \in [Sessions -> Seq(Requests)]
    /\ active \in [Sessions -> BOOLEAN]
    /\ writing \in [Sessions -> Seq(Requests)]
    /\ reading \in [Sessions -> Nat]
    /\ promise \in [Sessions -> [Requests -> Outcomes]]
    /\ answer \in [Sessions -> [Requests -> Nat]]
    /\ toServer \in [Sessions -> Seq(Requests)]
    /\ toClient \in [Sessions -> Seq([req : Requests, ok : BOOLEAN])]
    /\ conn \in [Sessions -> {"open", "eof", "reset"}]
    /\ threads \in 0..Threads

IInv == Types /\ \A s \in Sessions : SessionInv(s)

---------------------------------------------------------------------------------
(* The initial state.                                                      *)

LEMMA InitInvariant == Init => IInv
<1> SUFFICES ASSUME Init PROVE IInv
  OBVIOUS
<1>1. Types
  BY SessionAssumption DEF Init, Types, Outcomes, Requests
<1>2. ASSUME NEW s \in Sessions PROVE SessionInv(s)
  <2>1. /\ posted[s] = <<>> /\ requestList[s] = <<>> /\ writing[s] = <<>>
        /\ toServer[s] = <<>> /\ toClient[s] = <<>>
        /\ active[s] /\ reading[s] = 0 /\ conn[s] = "open"
        /\ \A r \in Requests : promise[s][r] = "unsent"
    BY DEF Init
  <2>2. Window(s, 0, 0)
    BY <2>1 DEF Window, Requests
  <2>3. ListInv(s)
    BY <2>2, SessionAssumption DEF ListInv
  <2>4. OperationInv(s) /\ WireInv(s)
    BY <2>1 DEF OperationInv, WireInv
  <2>5. FailedInv(s)
    BY <2>1 DEF FailedInv, Failed
  <2> QED BY <2>3, <2>4, <2>5 DEF SessionInv
<1> QED BY <1>1, <1>2 DEF IInv

---------------------------------------------------------------------------------
(* The steps of a session.                                                 *)

Step(s) == \/ SendRequest(s) \/ Strand(s)
           \/ Respond(s) \/ ServerCloses(s) \/ Reset(s)

(* A step of one session leaves every other as it is.                      *)
LEMMA Elsewhere ==
    ASSUME Types, NEW s \in Sessions, Step(s), NEW t \in Sessions, t # s, SessionInv(t)
    PROVE  SessionInv(t)'
<1>1. /\ posted'[t] = posted[t] /\ requestList'[t] = requestList[t]
      /\ active'[t] = active[t] /\ writing'[t] = writing[t]
      /\ reading'[t] = reading[t] /\ promise'[t] = promise[t]
      /\ toServer'[t] = toServer[t] /\ toClient'[t] = toClient[t]
      /\ conn'[t] = conn[t]
  <2>1. CASE SendRequest(s)
    BY <2>1 DEF SendRequest, Settle, Types
  <2>2. CASE RunPosted(s)
    BY <2>2 DEF RunPosted, Settle, SendFront, Types
  <2>3. CASE WriteDone(s)
    BY <2>3 DEF WriteDone, Types
  <2>4. CASE WriteFailed(s)
    BY <2>4 DEF WriteFailed, FailThenClose, FailList, Types
  <2>5. CASE ReadValue(s)
    BY <2>5 DEF ReadValue, Settle, Continue, SendFront, Types
  <2>6. CASE ReadBad(s)
    BY <2>6 DEF ReadBad, FailThenClose, FailList, Types
  <2>7. CASE ReadFailed(s)
    BY <2>7 DEF ReadFailed, FailThenClose, FailList, Types
  <2>8. CASE Respond(s) \/ ServerCloses(s) \/ Reset(s)
    BY <2>8 DEF Respond, ServerCloses, Reset, listVars, Types
  <2> QED BY <2>1, <2>2, <2>3, <2>4, <2>5, <2>6, <2>7, <2>8 DEF Step, Strand
<1>2. ListInv(t)'
  <2>1. PICK k, n \in 0..MaxRequests : Window(t, k, n)
    BY DEF SessionInv, ListInv
  <2>2. Window(t, k, n)'
    BY <1>1, <2>1 DEF Window
  <2> QED BY <2>2 DEF ListInv
<1>3. OperationInv(t)'
  BY <1>1 DEF SessionInv, OperationInv
<1>4. WireInv(t)'
  BY <1>1 DEF SessionInv, WireInv
<1>5. FailedInv(t)'
  BY <1>1 DEF SessionInv, FailedInv, Failed
<1> QED BY <1>2, <1>3, <1>4, <1>5 DEF SessionInv

(* The callers: the next request goes to the end of the window.            *)
LEMMA SendRequestStep ==
    ASSUME Types, NEW s \in Sessions, SessionInv(s), SendRequest(s)
    PROVE  Types' /\ SessionInv(s)'
<1>1. PICK r \in Requests :
         /\ promise[s][r] = "unsent"
         /\ \A q \in 1..(r - 1) : IF r = 2 THEN promise[s][q] # "unsent"
                                           ELSE promise[s][q] = "value"
         /\ promise' = [promise EXCEPT ![s][r] = "pending"]
         /\ posted' = [posted EXCEPT ![s] = Append(@, r)]
         /\ UNCHANGED <<requestList, active, writing, reading, answer, toServer,
                        toClient, conn, threads>>
  BY DEF SendRequest, Settle
<1>2. PICK k, n \in 0..MaxRequests : Window(s, k, n)
  BY DEF SessionInv, ListInv
<1>0. k \in Nat /\ n \in Nat /\ k <= n /\ n <= k + 2
  BY <1>2, SessionAssumption, LenProperties DEF Window, Types
<1>p. \A q \in Requests : /\ promise[s][q] = "unsent" <=> q > n
                          /\ promise[s][q] = "pending" <=> k < q /\ q <= n
  BY <1>2 DEF Window
<1>3. r = n + 1 /\ n + 1 <= k + 2
  <2>1. r > n /\ r \in 1..MaxRequests
    BY <1>1, <1>p DEF Requests
  <2>2. r = n + 1
    <3>1. ASSUME r # n + 1 PROVE FALSE
      <4>1. n + 1 \in 1..(r - 1) /\ n + 1 \in Requests
        BY <2>1, <3>1, <1>0, SessionAssumption DEF Requests
      <4>2. promise[s][n + 1] = "unsent"
        BY <4>1, <1>0, <1>p
      <4> QED BY <4>1, <4>2, <1>1
    <3> QED BY <3>1
  <2>3. ASSUME r # 2 PROVE n = k
    <3>1. ASSUME n # k PROVE FALSE
      <4>1. k < n /\ n \in 1..(r - 1) /\ n \in Requests
        BY <2>1, <2>2, <3>1, <1>0, SessionAssumption DEF Requests
      <4>2. promise[s][n] = "pending"
        BY <4>1, <1>0, <1>p
      <4> QED BY <4>1, <4>2, <2>3, <1>1
    <3> QED BY <3>1
  <2> QED BY <2>1, <2>2, <2>3, <1>0, SessionAssumption
<1>4. posted[s] \in Seq(Requests) /\ requestList[s] \in Seq(Requests)
  BY DEF Types
<1>5. /\ posted'[s] = Append(posted[s], r)
      /\ posted'[s] \in Seq(Requests)
      /\ Len(posted'[s]) = Len(posted[s]) + 1
      /\ \A i \in 1..Len(posted[s]) : posted'[s][i] = posted[s][i]
      /\ posted'[s][Len(posted[s]) + 1] = r
  BY <1>1, <1>4, AppendEntries DEF Types
<1>6. /\ promise'[s][r] = "pending"
      /\ \A q \in Requests : q # r => promise'[s][q] = promise[s][q]
  BY <1>1 DEF Types
<1>7. Types'
  <2>1. posted' \in [Sessions -> Seq(Requests)]
    BY <1>1, <1>5 DEF Types
  <2>2. promise' \in [Sessions -> [Requests -> Outcomes]]
    <3>1. promise \in [Sessions -> [Requests -> Outcomes]] /\ "pending" \in Outcomes
      BY DEF Types, Outcomes
    <3> QED BY <1>1, <3>1
  <2>3. UNCHANGED <<requestList, active, writing, reading, answer, toServer,
                    toClient, conn, threads>>
    BY <1>1
  <2> QED BY <2>1, <2>2, <2>3 DEF Types
<1>8. Window(s, k, n + 1)'
  <2>1. /\ n + 1 = k + Len(requestList'[s]) + Len(posted'[s])
        /\ n + 1 <= k + 2
    <3>1. requestList'[s] = requestList[s]
      BY <1>1
    <3>2. n = k + Len(requestList[s]) + Len(posted[s])
      BY <1>2 DEF Window
    <3>3. PICK l \in Nat : l = Len(requestList[s])
      BY <1>4, LenProperties
    <3>4. PICK p \in Nat : p = Len(posted[s])
      BY <1>4, LenProperties
    <3>5. n = k + l + p
      BY <3>2, <3>3, <3>4
    <3>6. n + 1 = k + l + (p + 1)
      BY <1>0, <3>5
    <3>7. Len(requestList'[s]) = l
      BY <3>1, <3>3
    <3>8. Len(posted'[s]) = p + 1
      BY <1>5, <3>4
    <3> QED BY <1>3, <3>6, <3>7, <3>8
  <2>2. \A i \in 1..Len(requestList'[s]) : requestList'[s][i] = k + i
    BY <1>1, <1>2 DEF Window
  <2>3. \A i \in 1..Len(posted'[s]) : posted'[s][i] = k + Len(requestList'[s]) + i
    <3> TAKE i \in 1..Len(posted'[s])
    <3>1. CASE i = Len(posted[s]) + 1
      BY <3>1, <1>1, <1>2, <1>3, <1>4, <1>5, LenProperties DEF Window
    <3>2. CASE i # Len(posted[s]) + 1
      <4>1. i \in 1..Len(posted[s])
        BY <3>2, <1>4, <1>5, LenProperties
      <4> QED BY <4>1, <1>1, <1>2, <1>5 DEF Window
    <3> QED BY <3>1, <3>2
  <2>4. \A q \in Requests : /\ promise'[s][q] = "unsent" <=> q > n + 1
                            /\ promise'[s][q] = "pending" <=> k < q /\ q <= n + 1
    <3> TAKE q \in Requests
    <3>1. CASE q = r
      BY <3>1, <1>0, <1>3, <1>6
    <3>2. CASE q # r
      BY <3>2, <1>0, <1>3, <1>6, <1>p DEF Requests
    <3> QED BY <3>1, <3>2
  <2> QED BY <2>1, <2>2, <2>3, <2>4 DEF Window
<1>9. ListInv(s)'
  <2>1. n + 1 \in 0..MaxRequests
    BY <1>3, SessionAssumption DEF Requests
  <2> QED BY <2>1, <1>8 DEF ListInv
<1>10. OperationInv(s)' /\ WireInv(s)'
  BY <1>1 DEF SessionInv, OperationInv, WireInv
<1>11. FailedInv(s)'
  BY <1>1, <1>6 DEF SessionInv, FailedInv, Failed
<1> QED BY <1>7, <1>9, <1>10, <1>11 DEF SessionInv

(* What the connection does between handlers.                              *)
LEMMA ConnectionStep ==
    ASSUME Types, NEW s \in Sessions, SessionInv(s),
           Respond(s) \/ ServerCloses(s) \/ Reset(s)
    PROVE  Types' /\ SessionInv(s)'
<1>1. UNCHANGED <<posted, requestList, active, writing, reading, promise, answer, threads>>
  BY DEF Respond, ServerCloses, Reset, listVars
<1>2. ListInv(s)'
  <2>1. PICK k, n \in 0..MaxRequests : Window(s, k, n)
    BY DEF SessionInv, ListInv
  <2>2. Window(s, k, n)'
    BY <1>1, <2>1 DEF Window
  <2> QED BY <2>2 DEF ListInv
<1>3. OperationInv(s)'
  BY <1>1 DEF SessionInv, OperationInv
<1>4. CASE Respond(s)
  <2>1. PICK ok \in BOOLEAN :
           /\ conn[s] = "open" /\ toServer[s] # <<>>
           /\ toServer' = [toServer EXCEPT ![s] = Tail(@)]
           /\ toClient' = [toClient EXCEPT ![s] =
                              Append(@, [req |-> Head(toServer[s]), ok |-> ok])]
           /\ conn' = [conn EXCEPT ![s] = IF ok THEN "open" ELSE "eof"]
    BY <1>4 DEF Respond
  <2> DEFINE e == [req |-> Head(toServer[s]), ok |-> ok]
  <2>2. /\ toServer[s] \in Seq(Requests) /\ Len(toServer[s]) \in Nat \ {0}
        /\ Tail(toServer[s]) \in Seq(Requests)
        /\ Len(Tail(toServer[s])) = Len(toServer[s]) - 1
        /\ Head(toServer[s]) \in Requests
    BY <2>1, TailEntries DEF Types
  <2>3. reading[s] # 0 /\ Head(toServer[s]) = Head(requestList[s])
    BY <2>1 DEF SessionInv, WireInv
  <2>4. toClient[s] = <<>> /\ Tail(toServer[s]) = <<>>
    <3>1. toClient[s] \in Seq([req : Requests, ok : BOOLEAN])
      BY DEF Types
    <3>2. Len(toServer[s]) + Len(toClient[s]) <= 1
      BY <2>3 DEF SessionInv, WireInv
    <3>3. Len(toClient[s]) \in Nat
      BY <3>1, LenProperties
    <3>4. Len(toClient[s]) = 0 /\ Len(Tail(toServer[s])) = 0
      <4>1. \A m \in Nat \ {0}, n \in Nat : m + n <= 1 => n = 0 /\ m - 1 = 0
        OBVIOUS
      <4> QED BY <2>2, <3>2, <3>3, <4>1
    <3> QED BY <2>2, <3>1, <3>4, EmptySeq
  <2>5. e \in [req : Requests, ok : BOOLEAN]
    BY <2>2
  <2>6. toServer'[s] = <<>> /\ toClient'[s] = <<e>> /\ conn'[s] = (IF ok THEN "open" ELSE "eof")
    BY <2>1, <2>4 DEF Types
  <2>7. Types'
    <3>1. toServer' \in [Sessions -> Seq(Requests)]
      BY <2>1, <2>2 DEF Types
    <3>2. toClient' \in [Sessions -> Seq([req : Requests, ok : BOOLEAN])]
      <4>1. Append(toClient[s], e) \in Seq([req : Requests, ok : BOOLEAN])
        BY <2>5, AppendProperties DEF Types
      <4> QED BY <2>1, <4>1 DEF Types
    <3>3. conn' \in [Sessions -> {"open", "eof", "reset"}]
      BY <2>1 DEF Types
    <3> QED BY <1>1, <3>1, <3>2, <3>3 DEF Types
  <2>8. WireInv(s)'
    <3>1. ~active'[s] => requestList'[s] = <<>> /\ conn'[s] # "open"
      BY <1>1, <2>1 DEF SessionInv, WireInv
    <3> QED BY <1>1, <2>3, <2>6, <3>1 DEF WireInv
  <2>9. FailedInv(s)'
    BY <1>1, <2>3 DEF SessionInv, FailedInv, Failed
  <2> QED BY <1>2, <1>3, <2>7, <2>8, <2>9 DEF SessionInv
<1>5. CASE ServerCloses(s)
  <2>1. conn'[s] = "eof" /\ conn[s] = "open" /\ UNCHANGED <<toServer, toClient>>
    BY <1>5 DEF ServerCloses, Types
  <2>2. Types'
    BY <1>1, <1>5 DEF ServerCloses, Types
  <2>3. WireInv(s)' /\ FailedInv(s)'
    BY <1>1, <2>1 DEF SessionInv, WireInv, FailedInv, Failed
  <2> QED BY <1>2, <1>3, <2>2, <2>3 DEF SessionInv
<1>6. CASE Reset(s)
  <2>1. /\ conn' = [conn EXCEPT ![s] = "reset"]
        /\ toServer' = [toServer EXCEPT ![s] = <<>>]
        /\ \E rest \in {<<>>, toClient[s]} : toClient' = [toClient EXCEPT ![s] = rest]
    BY <1>6 DEF Reset
  <2>2. /\ conn'[s] = "reset" /\ toServer'[s] = <<>>
        /\ toClient'[s] = <<>> \/ toClient'[s] = toClient[s]
    BY <2>1 DEF Types
  <2>3. Types'
    <3>1. toServer' \in [Sessions -> Seq(Requests)]
      BY <2>1, EmptySeq DEF Types
    <3>2. toClient' \in [Sessions -> Seq([req : Requests, ok : BOOLEAN])]
      <4>1. PICK rest \in {<<>>, toClient[s]} : toClient' = [toClient EXCEPT ![s] = rest]
        BY <2>1
      <4>2. rest \in Seq([req : Requests, ok : BOOLEAN])
        BY EmptySeq DEF Types
      <4> QED BY <4>1, <4>2 DEF Types
    <3> QED BY <1>1, <2>1, <3>1, <3>2 DEF Types
  <2>4. WireInv(s)'
    <3>1. reading[s] # 0 => Len(toServer'[s]) + Len(toClient'[s]) <= 1
      <4>1. /\ toServer[s] \in Seq(Requests)
            /\ toClient[s] \in Seq([req : Requests, ok : BOOLEAN])
        BY DEF Types
      <4>2. Len(toServer[s]) \in Nat /\ Len(toClient[s]) \in Nat /\ Len(<<>>) = 0
        BY <4>1, LenProperties
      <4>3. reading[s] # 0 => Len(toServer[s]) + Len(toClient[s]) <= 1
        BY DEF SessionInv, WireInv
      <4>4. \A m, n \in Nat : m + n <= 1 => 0 + 0 <= 1 /\ 0 + n <= 1
        OBVIOUS
      <4>5. CASE toClient'[s] = <<>>
        BY <2>2, <4>2, <4>5
      <4>6. CASE toClient'[s] = toClient[s]
        BY <2>2, <4>2, <4>3, <4>4, <4>6
      <4> QED BY <2>2, <4>5, <4>6
    <3> QED BY <1>1, <2>2, <3>1 DEF SessionInv, WireInv
  <2>5. FailedInv(s)'
    BY <1>1, <2>2 DEF SessionInv, FailedInv, Failed
  <2> QED BY <1>2, <1>3, <2>3, <2>4, <2>5 DEF SessionInv
<1> QED BY <1>4, <1>5, <1>6

---------------------------------------------------------------------------------
(* The handlers.                                                           *)

(* What a window says in numbers.                                          *)
LEMMA WindowFacts ==
    ASSUME Types, NEW s \in Sessions, NEW k \in 0..MaxRequests, NEW n \in 0..MaxRequests,
           Window(s, k, n)
    PROVE  /\ k \in Nat /\ n \in Nat
           /\ Len(requestList[s]) \in Nat /\ Len(posted[s]) \in Nat
           /\ n = k + Len(requestList[s]) + Len(posted[s])
           /\ k <= n /\ n <= k + 2
           /\ \A q \in Requests : /\ promise[s][q] = "unsent" <=> q > n
                                  /\ promise[s][q] = "pending" <=> k < q /\ q <= n
BY SessionAssumption, LenProperties DEF Window, Types

(* Which requests are in the list.                                         *)
LEMMA ListMembers ==
    ASSUME Types, NEW s \in Sessions, NEW k \in 0..MaxRequests, NEW n \in 0..MaxRequests,
           Window(s, k, n), NEW m \in Nat, m = k + Len(requestList[s])
    PROVE  /\ k <= m /\ m <= n /\ n <= m + 2 /\ m \in 0..MaxRequests
           /\ \A q \in Requests : (\E i \in 1..Len(requestList[s]) : requestList[s][i] = q)
                                   <=> k < q /\ q <= m
<1>1. PICK l \in Nat, p \in Nat : l = Len(requestList[s]) /\ p = Len(posted[s])
  BY WindowFacts
<1>2. k \in Nat /\ n \in Nat /\ n = k + l + p /\ n <= k + 2
  BY <1>1, WindowFacts
<1>3. m = k + l
  BY <1>1
<1>4. k <= m /\ m <= n /\ n <= m + 2 /\ m \in 0..MaxRequests
  BY <1>2, <1>3, SessionAssumption
<1>5. ASSUME NEW q \in Requests PROVE (\E i \in 1..l : requestList[s][i] = q) <=> k < q /\ q <= m
  <2>1. ASSUME NEW i \in 1..l, requestList[s][i] = q PROVE k < q /\ q <= m
    <3>1. q = k + i
      BY <2>1, <1>1 DEF Window
    <3> QED BY <3>1, <1>2, <1>3
  <2>2. ASSUME k < q, q <= m PROVE \E i \in 1..l : requestList[s][i] = q
    <3>1. q - k \in 1..l /\ k + (q - k) = q
      BY <2>2, <1>2, <1>3 DEF Requests
    <3>2. requestList[s][q - k] = k + (q - k)
      BY <3>1, <1>1 DEF Window
    <3> QED BY <3>1, <3>2
  <2> QED BY <2>1, <2>2
<1> QED BY <1>1, <1>4, <1>5

(* A failure settles the list and leaves the posted requests.              *)
LEMMA FailStep ==
    ASSUME Types, NEW s \in Sessions, SessionInv(s),
           NEW error \in {"bad_request", "bad_response"}, FailThenClose(s, error),
           threads > 0, conn[s] # "open",
           writing'[s] = <<>>, reading'[s] = 0, toClient'[s] = <<>>
    PROVE  /\ SessionInv(s)'
           /\ requestList' \in [Sessions -> Seq(Requests)]
           /\ active' \in [Sessions -> BOOLEAN]
           /\ promise' \in [Sessions -> [Requests -> Outcomes]]
           /\ threads' \in 0..Threads
<1>1. /\ promise' = [promise EXCEPT ![s] = [r \in Requests |->
            IF \E i \in 1..Len(requestList[s]) : requestList[s][i] = r
            THEN error ELSE promise[s][r]]]
      /\ requestList' = [requestList EXCEPT ![s] = <<>>]
      /\ UNCHANGED <<posted, answer, toServer, conn>>
  BY DEF FailThenClose, FailList, Types
<1>2. \/ active' = active /\ threads' = threads - 1 /\ conn[s] = "reset"
      \/ active' = [active EXCEPT ![s] = FALSE] /\ threads' = threads
  BY DEF FailThenClose, CloseSocketThrows, ThreadEnds
<1>3. requestList'[s] = <<>> /\ requestList' \in [Sessions -> Seq(Requests)]
  BY <1>1, EmptySeq DEF Types
<1>4. active' \in [Sessions -> BOOLEAN] /\ (active'[s] => conn'[s] = "reset")
  BY <1>1, <1>2 DEF Types
<1>5. threads' \in 0..Threads
  BY <1>2, SessionAssumption DEF Types
<1>6. promise' \in [Sessions -> [Requests -> Outcomes]]
  BY <1>1 DEF Types, Outcomes
<1>7. PICK k, n \in 0..MaxRequests : Window(s, k, n)
  BY DEF SessionInv, ListInv
<1> DEFINE l == Len(requestList[s])
<1>8. ListInv(s)'
  <2>1. PICK m \in Nat : m = k + l
    BY <1>7, WindowFacts
  <2>2. /\ k \in Nat /\ n \in Nat /\ l \in Nat /\ Len(posted[s]) \in Nat
        /\ n = m + Len(posted[s]) /\ n <= m + 2 /\ k <= m /\ m <= n
        /\ m \in 0..MaxRequests
    <3>1. n = m + Len(posted[s]) /\ n <= m + 2 /\ k <= m /\ m <= n /\ m \in 0..MaxRequests
      <4>1. Types /\ m = k + Len(requestList[s]) /\ Window(s, k, n)
        BY <2>1, <1>7
      <4>2. n = m + Len(posted[s])
        <5>1. PICK a \in Nat, p \in Nat : a = Len(requestList[s]) /\ p = Len(posted[s])
          BY <4>1, WindowFacts
        <5>2. k \in Nat /\ n = k + a + p
          BY <4>1, <5>1, WindowFacts
        <5>3. m = k + a
          BY <4>1, <5>1
        <5>4. n = m + p
          BY <5>2, <5>3
        <5> QED BY <5>1, <5>4
      <4>3. n <= m + 2 /\ k <= m /\ m <= n /\ m \in 0..MaxRequests
        BY <4>1, ListMembers
      <4> QED BY <4>2, <4>3
    <3>2. k \in Nat /\ n \in Nat /\ l \in Nat /\ Len(posted[s]) \in Nat
      BY <1>7, WindowFacts
    <3> QED BY <3>1, <3>2
  <2>3. \A q \in Requests : (\E i \in 1..l : requestList[s][i] = q) <=> k < q /\ q <= m
    BY <2>1, <1>7, ListMembers
  <2>4. \A q \in Requests : /\ promise'[s][q] = "unsent" <=> q > n
                            /\ promise'[s][q] = "pending" <=> m < q /\ q <= n
    <3> TAKE q \in Requests
    <3>1. /\ promise[s][q] = "unsent" <=> q > n
          /\ promise[s][q] = "pending" <=> k < q /\ q <= n
      BY <1>7, WindowFacts
    <3>2. promise'[s][q] = IF k < q /\ q <= m THEN error ELSE promise[s][q]
      BY <1>1, <2>3 DEF Types
    <3>3. q \in Nat
      BY DEF Requests
    <3>4. CASE k < q /\ q <= m
      <4>1. promise'[s][q] = error /\ error # "unsent" /\ error # "pending"
        BY <3>2, <3>4
      <4> QED BY <2>2, <3>3, <3>4, <4>1
    <3>5. CASE ~(k < q /\ q <= m)
      <4>1. promise'[s][q] = promise[s][q]
        BY <3>2, <3>5
      <4> QED BY <2>2, <3>1, <3>3, <3>5, <4>1
    <3> QED BY <3>4, <3>5
  <2>5. Window(s, m, n)'
    <3>1. Len(requestList'[s]) = 0 /\ posted'[s] = posted[s]
      BY <1>1, <1>3
    <3>2. \A i \in 1..Len(posted'[s]) : posted'[s][i] = m + Len(requestList'[s]) + i
      <4> TAKE i \in 1..Len(posted'[s])
      <4>1. posted[s][i] = k + l + i
        BY <3>1, <1>7 DEF Window
      <4> QED BY <2>1, <2>2, <3>1, <4>1
    <3> QED BY <2>2, <2>4, <3>1, <3>2 DEF Window
  <2> QED BY <2>2, <2>5 DEF ListInv
<1>9. OperationInv(s)'
  BY <1>3 DEF OperationInv
<1>10. WireInv(s)'
  BY <1>1, <1>3, <1>4 DEF SessionInv, WireInv
<1>11. FailedInv(s)'
  BY <1>4 DEF FailedInv
<1> QED BY <1>3, <1>4, <1>5, <1>6, <1>8, <1>9, <1>10, <1>11 DEF SessionInv

(* Nothing is left of a sequence of one entry, or of one that is empty.    *)
LEMMA TailOfOne ==
    ASSUME NEW S, NEW q \in Seq(S), q # <<>>, Len(q) <= 1
    PROVE  Tail(q) = <<>> /\ Len(q) = 1
<1>1. Len(q) \in Nat \ {0} /\ Tail(q) \in Seq(S) /\ Len(Tail(q)) = Len(q) - 1
  BY TailEntries
<1>2. \A m \in Nat \ {0} : m <= 1 => m = 1 /\ m - 1 = 0
  OBVIOUS
<1>3. Len(q) = 1 /\ Len(Tail(q)) = 0
  BY <1>1, <1>2
<1> QED BY <1>1, <1>3, EmptySeq

(* What is in flight, for a session that has an operation.                 *)
LEMMA InFlight ==
    ASSUME Types, NEW s \in Sessions, SessionInv(s)
    PROVE  /\ writing[s] # <<>> => /\ reading[s] = 0 /\ Tail(writing[s]) = <<>>
                                   /\ Head(writing[s]) = Head(requestList[s])
                                   /\ Head(writing[s]) \in Requests
           /\ reading[s] > 0 => reading[s] = 1 /\ writing[s] = <<>>
           /\ writing[s] # <<>> \/ reading[s] > 0 => requestList[s] # <<>> /\ active[s]
<1>1. writing[s] \in Seq(Requests) /\ reading[s] \in Nat /\ Len(writing[s]) \in Nat
  BY LenProperties DEF Types
<1>2. /\ Len(writing[s]) + reading[s] = (IF requestList[s] = <<>> THEN 0 ELSE 1)
      /\ writing[s] # <<>> => Head(writing[s]) = Head(requestList[s])
  BY DEF SessionInv, OperationInv
<1>3. ~active[s] => requestList[s] = <<>>
  BY DEF SessionInv, WireInv
<1>4. ASSUME writing[s] # <<>>
      PROVE  reading[s] = 0 /\ Tail(writing[s]) = <<>> /\ Head(writing[s]) \in Requests
  <2>1. Len(writing[s]) \in Nat \ {0} /\ Head(writing[s]) \in Requests
    BY <1>1, <1>4, TailEntries
  <2>2. \A m \in Nat \ {0}, n \in Nat : m + n \in {0, 1} => m <= 1 /\ n = 0
    OBVIOUS
  <2>3. Len(writing[s]) <= 1 /\ reading[s] = 0
    BY <1>1, <1>2, <2>1, <2>2
  <2> QED BY <1>1, <1>4, <2>1, <2>3, TailOfOne
<1>5. ASSUME reading[s] > 0 PROVE reading[s] = 1 /\ writing[s] = <<>>
  <2>1. \A m, n \in Nat : m + n \in {0, 1} /\ n > 0 => m = 0 /\ n = 1
    OBVIOUS
  <2>2. Len(writing[s]) = 0 /\ reading[s] = 1
    BY <1>1, <1>2, <1>5, <2>1
  <2> QED BY <1>1, <2>2, EmptySeq
<1>6. ASSUME writing[s] # <<>> \/ reading[s] > 0 PROVE requestList[s] # <<>>
  <2>1. ASSUME requestList[s] = <<>> PROVE FALSE
    <3>1. \A m, n \in Nat : m + n = 0 => m = 0 /\ n = 0
      OBVIOUS
    <3>2. Len(writing[s]) = 0 /\ reading[s] = 0
      BY <1>1, <1>2, <2>1, <3>1
    <3> QED BY <1>1, <1>6, <3>2, EmptySeq
  <2> QED BY <2>1
<1> QED BY <1>2, <1>3, <1>4, <1>5, <1>6

(* While a response is awaited, what is on its way back is that response.  *)
LEMMA OneOnWire ==
    ASSUME Types, NEW s \in Sessions, SessionInv(s), reading[s] # 0, toClient[s] # <<>>
    PROVE  /\ Tail(toClient[s]) = <<>> /\ toServer[s] = <<>>
           /\ Head(toClient[s]).req = Head(requestList[s])
<1>1. /\ toServer[s] \in Seq(Requests) /\ Len(toServer[s]) \in Nat
      /\ toClient[s] \in Seq([req : Requests, ok : BOOLEAN])
      /\ Len(toClient[s]) \in Nat \ {0}
  BY TailEntries, LenProperties DEF Types
<1>2. /\ Len(toServer[s]) + Len(toClient[s]) <= 1
      /\ Head(toClient[s]).req = Head(requestList[s])
  BY DEF SessionInv, WireInv
<1>3. Len(toServer[s]) = 0 /\ Len(toClient[s]) <= 1
  <2>1. PICK m \in Nat, n \in Nat \ {0} : m = Len(toServer[s]) /\ n = Len(toClient[s])
    BY <1>1
  <2>2. m + n <= 1
    BY <1>2, <2>1
  <2>3. m = 0 /\ n <= 1
    BY <2>2
  <2> QED BY <2>1, <2>3
<1> QED BY <1>1, <1>2, <1>3, EmptySeq, TailOfOne

(* With an empty list there is nothing in flight.                          *)
LEMMA NothingInFlight ==
    ASSUME Types, NEW s \in Sessions, SessionInv(s), requestList[s] = <<>>
    PROVE  reading[s] = 0 /\ writing[s] = <<>>
<1>1. reading[s] \in Nat
  BY DEF Types
<1>2. ~(reading[s] > 0) /\ writing[s] = <<>>
  BY InFlight
<1> QED BY <1>1, <1>2

(* A step that leaves the list, the posted requests and the promises.      *)
LEMMA SameList ==
    ASSUME NEW s \in Sessions, SessionInv(s),
           posted' = posted, requestList' = requestList, promise' = promise
    PROVE  ListInv(s)'
<1>1. PICK k, n \in 0..MaxRequests : Window(s, k, n)
  BY DEF SessionInv, ListInv
<1>2. Window(s, k, n)'
  BY <1>1 DEF Window
<1> QED BY <1>2 DEF ListInv

LEMMA WriteFailedStep ==
    ASSUME Types, NEW s \in Sessions, SessionInv(s), WriteFailed(s)
    PROVE  Types' /\ SessionInv(s)'
<1>1. /\ threads > 0 /\ writing[s] # <<>> /\ conn[s] = "reset"
      /\ writing' = [writing EXCEPT ![s] = Tail(@)]
      /\ FailThenClose(s, "bad_request")
      /\ UNCHANGED <<reading, toClient, posted, answer, toServer, conn>>
  BY DEF WriteFailed, FailThenClose
<1>2. reading[s] = 0 /\ Tail(writing[s]) = <<>>
  BY <1>1, InFlight
<1>3. writing'[s] = <<>> /\ writing' \in [Sessions -> Seq(Requests)]
  BY <1>1, <1>2, EmptySeq DEF Types
<1>4. reading'[s] = 0 /\ toClient'[s] = <<>>
  BY <1>1, <1>2 DEF SessionInv, WireInv
<1>5. conn[s] # "open"
  BY <1>1
<1> QED BY <1>1, <1>3, <1>4, <1>5, FailStep DEF Types

LEMMA ReadBadStep ==
    ASSUME Types, NEW s \in Sessions, SessionInv(s), ReadBad(s)
    PROVE  Types' /\ SessionInv(s)'
<1>1. /\ threads > 0 /\ reading[s] > 0 /\ toClient[s] # <<>> /\ ~Head(toClient[s]).ok
      /\ reading' = [reading EXCEPT ![s] = @ - 1]
      /\ toClient' = [toClient EXCEPT ![s] = Tail(@)]
      /\ FailThenClose(s, "bad_response")
      /\ UNCHANGED <<writing, posted, answer, toServer, conn>>
  BY DEF ReadBad, FailThenClose
<1>2. reading[s] = 1 /\ writing[s] = <<>>
  BY <1>1, InFlight
<1>3. reading'[s] = 0 /\ reading' \in [Sessions -> Nat]
  BY <1>1, <1>2 DEF Types
<1>4. Tail(toClient[s]) = <<>>
  BY <1>1, <1>2, OneOnWire
<1>5. toClient'[s] = <<>> /\ toClient' \in [Sessions -> Seq([req : Requests, ok : BOOLEAN])]
  BY <1>1, <1>4, EmptySeq DEF Types
<1>6. conn[s] # "open"
  BY <1>1 DEF SessionInv, WireInv
<1> QED BY <1>1, <1>2, <1>3, <1>5, <1>6, FailStep DEF Types

LEMMA ReadFailedStep ==
    ASSUME Types, NEW s \in Sessions, SessionInv(s), ReadFailed(s)
    PROVE  Types' /\ SessionInv(s)'
<1>1. /\ threads > 0 /\ reading[s] > 0 /\ toClient[s] = <<>> /\ conn[s] # "open"
      /\ reading' = [reading EXCEPT ![s] = @ - 1]
      /\ FailThenClose(s, "bad_response")
      /\ UNCHANGED <<writing, toClient, posted, answer, toServer, conn>>
  BY DEF ReadFailed, FailThenClose
<1>2. reading[s] = 1 /\ writing[s] = <<>>
  BY <1>1, InFlight
<1>3. reading'[s] = 0 /\ reading' \in [Sessions -> Nat]
  BY <1>1, <1>2 DEF Types
<1> QED BY <1>1, <1>2, <1>3, FailStep DEF Types

(* The request is out: what was on the wire before it is gone.             *)
LEMMA WriteDoneStep ==
    ASSUME Types, NEW s \in Sessions, SessionInv(s), WriteDone(s)
    PROVE  Types' /\ SessionInv(s)'
<1>1. /\ writing[s] # <<>> /\ conn[s] # "reset"
      /\ toServer' = [toServer EXCEPT ![s] = Append(@, Head(writing[s]))]
      /\ writing' = [writing EXCEPT ![s] = Tail(@)]
      /\ reading' = [reading EXCEPT ![s] = @ + 1]
      /\ UNCHANGED <<posted, requestList, active, promise, answer, toClient, conn, threads>>
  BY DEF WriteDone
<1>2. /\ reading[s] = 0 /\ Tail(writing[s]) = <<>> /\ active[s]
      /\ Head(writing[s]) = Head(requestList[s]) /\ Head(writing[s]) \in Requests
      /\ requestList[s] # <<>>
  BY <1>1, InFlight
<1>3. toServer[s] = <<>> /\ toClient[s] = <<>>
  BY <1>2 DEF SessionInv, WireInv
<1>4. /\ toServer'[s] = <<Head(requestList[s])>>
      /\ writing'[s] = <<>> /\ reading'[s] = 1 /\ toClient'[s] = <<>>
  <2>1. /\ toServer \in [Sessions -> Seq(Requests)] /\ writing \in [Sessions -> Seq(Requests)]
        /\ reading \in [Sessions -> Nat] /\ Append(<<>>, Head(writing[s])) = <<Head(writing[s])>>
    BY DEF Types
  <2> QED BY <1>1, <1>2, <1>3, <2>1
<1>5. Types'
  <2>1. toServer' \in [Sessions -> Seq(Requests)]
    <3>1. Append(toServer[s], Head(writing[s])) \in Seq(Requests)
      BY <1>2, AppendProperties DEF Types
    <3> QED BY <1>1, <3>1 DEF Types
  <2>2. writing' \in [Sessions -> Seq(Requests)]
    BY <1>1, <1>2, EmptySeq DEF Types
  <2>3. reading' \in [Sessions -> Nat]
    BY <1>1 DEF Types
  <2> QED BY <1>1, <2>1, <2>2, <2>3 DEF Types
<1>6. ListInv(s)'
  <2>1. PICK k, n \in 0..MaxRequests : Window(s, k, n)
    BY DEF SessionInv, ListInv
  <2>2. Window(s, k, n)'
    BY <1>1, <2>1 DEF Window
  <2> QED BY <2>2 DEF ListInv
<1>7. OperationInv(s)'
  <2>1. requestList'[s] # <<>>
    BY <1>1, <1>2
  <2>2. Len(writing'[s]) = 0 /\ 0 + 1 = 1
    BY <1>4
  <2>3. Len(writing'[s]) + reading'[s] = 1
    BY <1>4, <2>2
  <2> QED BY <1>4, <2>1, <2>3 DEF OperationInv
<1>8. WireInv(s)'
  BY <1>1, <1>2, <1>4 DEF SessionInv, WireInv
<1>9. FailedInv(s)'
  BY <1>1, <1>2 DEF SessionInv, FailedInv, Failed
<1> QED BY <1>5, <1>6, <1>7, <1>8, <1>9 DEF SessionInv

(* The front request is answered, and it is the turn of the next.          *)
LEMMA ReadValueStep ==
    ASSUME Types, NEW s \in Sessions, SessionInv(s), ReadValue(s)
    PROVE  Types' /\ SessionInv(s)'
<1> DEFINE r == Head(requestList[s])
<1> DEFINE rest == Tail(requestList[s])
<1>1. /\ reading[s] > 0 /\ toClient[s] # <<>> /\ Head(toClient[s]).ok
      /\ reading' = [reading EXCEPT ![s] = @ - 1]
      /\ toClient' = [toClient EXCEPT ![s] = Tail(@)]
      /\ promise' = [promise EXCEPT ![s][r] = "value"]
      /\ answer' = [answer EXCEPT ![s][r] = Head(toClient[s]).req]
      /\ requestList' = [requestList EXCEPT ![s] = rest]
      /\ writing' = IF rest # <<>> THEN [writing EXCEPT ![s] = Append(@, Head(rest))]
                                   ELSE writing
      /\ UNCHANGED <<posted, active, toServer, conn, threads>>
  BY DEF ReadValue, Settle, Awaiting, Continue, SendFront
<1>2. reading[s] = 1 /\ writing[s] = <<>> /\ requestList[s] # <<>> /\ active[s]
  BY <1>1, InFlight
<1>3. Tail(toClient[s]) = <<>> /\ toServer[s] = <<>> /\ Head(toClient[s]).req = r
  BY <1>1, <1>2, OneOnWire
<1>4. /\ rest \in Seq(Requests) /\ r \in Requests
      /\ Len(requestList[s]) \in Nat \ {0} /\ Len(rest) = Len(requestList[s]) - 1
      /\ \A i \in 1..Len(rest) : rest[i] = requestList[s][i + 1]
      /\ r = requestList[s][1]
  BY <1>2, TailEntries DEF Types
<1>5. rest # <<>> => Head(rest) \in Requests
  BY <1>4, TailEntries
<1>6. /\ requestList'[s] = rest /\ toClient'[s] = <<>> /\ reading'[s] = 0
      /\ writing'[s] = IF rest # <<>> THEN <<Head(rest)>> ELSE <<>>
  <2>1. /\ requestList \in [Sessions -> Seq(Requests)] /\ writing \in [Sessions -> Seq(Requests)]
        /\ DOMAIN toClient = Sessions /\ reading \in [Sessions -> Nat]
    BY DEF Types
  <2> HIDE DEF rest
  <2>2. requestList'[s] = rest /\ toClient'[s] = <<>> /\ reading'[s] = 0
    BY <1>1, <1>2, <1>3, <2>1
  <2>3. writing'[s] = IF rest # <<>> THEN Append(writing[s], Head(rest)) ELSE writing[s]
    BY <1>1, <2>1
  <2>4. Append(<<>>, Head(rest)) = <<Head(rest)>>
    OBVIOUS
  <2> QED BY <1>2, <2>2, <2>3, <2>4
<1>7. /\ promise'[s][r] = "value"
      /\ \A q \in Requests : q # r => promise'[s][q] = promise[s][q]
  BY <1>1, <1>4 DEF Types
<1>8. Types'
  <2> HIDE DEF r, rest
  <2>1. writing' \in [Sessions -> Seq(Requests)]
    <3>1. rest # <<>> => Append(writing[s], Head(rest)) \in Seq(Requests)
      BY <1>5, AppendProperties DEF Types
    <3> QED BY <1>1, <3>1 DEF Types
  <2>2. requestList' \in [Sessions -> Seq(Requests)] /\ reading' \in [Sessions -> Nat]
    <3>1. requestList \in [Sessions -> Seq(Requests)] /\ reading \in [Sessions -> Nat]
      BY DEF Types
    <3>2. reading' = [reading EXCEPT ![s] = 0]
      BY <1>1, <1>2, <3>1
    <3> QED BY <1>1, <1>4, <3>1, <3>2
  <2>3. promise' \in [Sessions -> [Requests -> Outcomes]]
    <3>1. promise \in [Sessions -> [Requests -> Outcomes]] /\ "value" \in Outcomes
      BY DEF Types, Outcomes
    <3> QED BY <1>1, <1>4, <3>1
  <2>4. answer' \in [Sessions -> [Requests -> Nat]]
    <3>1. Head(toClient[s]).req \in Nat
      BY <1>3, <1>4 DEF Requests
    <3> QED BY <1>1, <3>1 DEF Types
  <2>5. toClient' \in [Sessions -> Seq([req : Requests, ok : BOOLEAN])]
    BY <1>1, <1>3, EmptySeq DEF Types
  <2> QED BY <1>1, <2>1, <2>2, <2>3, <2>4, <2>5 DEF Types
<1>9. ListInv(s)'
  <2>1. PICK k, n \in 0..MaxRequests : Window(s, k, n)
    BY DEF SessionInv, ListInv
  <2>2. /\ k \in Nat /\ n \in Nat /\ n <= k + 2 /\ k <= n
        /\ n = k + Len(requestList[s]) + Len(posted[s]) /\ Len(posted[s]) \in Nat
        /\ \A q \in Requests : /\ promise[s][q] = "unsent" <=> q > n
                               /\ promise[s][q] = "pending" <=> k < q /\ q <= n
    BY <2>1, WindowFacts
  <2>3. r = k + 1
    BY <1>4, <2>1 DEF Window
  <2>4. PICK p \in Nat, l \in Nat, j \in Nat :
            /\ p = Len(posted[s]) /\ l = Len(requestList[s]) /\ j = Len(rest)
            /\ l = j + 1 /\ n = k + l + p
    <3>1. Len(rest) \in Nat /\ Len(requestList[s]) = Len(rest) + 1
      BY <1>4, LenProperties
    <3> QED BY <1>4, <2>2, <3>1
  <2>5. k \in Nat /\ n \in Nat /\ n <= k + 2 /\ n \in 0..MaxRequests
    BY <2>2
  <2>6. /\ n = (k + 1) + j + p /\ n <= (k + 1) + 2 /\ k + 1 <= n
        /\ k + 1 \in 0..MaxRequests
    <3>1. l = j + 1 /\ n = k + l + p
      BY <2>4
    <3> QED BY <3>1, <2>5, SessionAssumption
  <2>7. \A i \in 1..j : rest[i] = (k + 1) + i
    <3> TAKE i \in 1..j
    <3>1. i + 1 \in 1..l
      BY <2>4
    <3>2. requestList[s][i + 1] = k + (i + 1)
      BY <2>1, <2>4, <3>1 DEF Window
    <3> QED BY <1>4, <2>4, <2>5, <3>2
  <2>8. \A i \in 1..p : posted[s][i] = (k + 1) + j + i
    <3> TAKE i \in 1..p
    <3>1. posted[s][i] = k + l + i
      BY <2>1, <2>4 DEF Window
    <3>2. l = j + 1
      BY <2>4
    <3> QED BY <2>5, <3>1, <3>2
  <2>9. \A q \in Requests : /\ promise'[s][q] = "unsent" <=> q > n
                            /\ promise'[s][q] = "pending" <=> k + 1 < q /\ q <= n
    <3> TAKE q \in Requests
    <3>1. q \in Nat
      BY DEF Requests
    <3>2. CASE q = r
      BY <1>7, <2>3, <2>5, <2>6, <3>1, <3>2
    <3>3. CASE q # r
      <4>1. /\ promise'[s][q] = promise[s][q]
            /\ promise[s][q] = "unsent" <=> q > n
            /\ promise[s][q] = "pending" <=> k < q /\ q <= n
        BY <1>7, <2>2, <3>3
      <4>2. q # k + 1
        BY <2>3, <3>3
      <4> QED BY <2>5, <3>1, <4>1, <4>2
    <3> QED BY <3>2, <3>3
  <2>10. Window(s, k + 1, n)'
    <3> HIDE DEF rest, r
    <3>1. /\ requestList'[s] = rest /\ posted'[s] = posted[s]
          /\ Len(rest) = j /\ Len(posted[s]) = p
      BY <1>1, <1>6, <2>4
    <3> QED BY <3>1, <2>6, <2>7, <2>8, <2>9 DEF Window
  <2> QED BY <2>6, <2>10 DEF ListInv
<1>10. OperationInv(s)'
  <2> HIDE DEF rest
  <2> QED BY <1>6 DEF OperationInv
<1>11. WireInv(s)'
  BY <1>1, <1>2, <1>3, <1>6 DEF SessionInv, WireInv
<1>12. FailedInv(s)'
  <2>1. ~\E q \in Requests : Failed(s, q)
    BY <1>2 DEF SessionInv, FailedInv
  <2>2. ~\E q \in Requests : Failed(s, q)'
    BY <1>7, <2>1 DEF Failed
  <2> QED BY <2>2 DEF FailedInv
<1> QED BY <1>8, <1>9, <1>10, <1>11, <1>12 DEF SessionInv

(* A posted request is put in the list, or fails because the session has   *)
(* been closed.                                                            *)
LEMMA RunPostedStep ==
    ASSUME Types, NEW s \in Sessions, SessionInv(s), RunPosted(s)
    PROVE  Types' /\ SessionInv(s)'
<1> DEFINE r == Head(posted[s])
<1> DEFINE rest == Tail(posted[s])
<1>1. /\ posted[s] # <<>>
      /\ posted' = [posted EXCEPT ![s] = rest]
      /\ UNCHANGED <<active, reading, answer, toServer, toClient, conn, threads>>
  BY DEF RunPosted
<1>2. /\ rest \in Seq(Requests) /\ r \in Requests
      /\ Len(posted[s]) \in Nat \ {0} /\ Len(rest) = Len(posted[s]) - 1
      /\ \A i \in 1..Len(rest) : rest[i] = posted[s][i + 1]
      /\ r = posted[s][1]
  BY <1>1, TailEntries DEF Types
<1>3. posted'[s] = rest /\ posted' \in [Sessions -> Seq(Requests)]
  <2> HIDE DEF rest
  <2> QED BY <1>1, <1>2 DEF Types
<1>4. requestList[s] \in Seq(Requests) /\ Len(requestList[s]) \in Nat
  BY LenProperties DEF Types
<1>5. PICK k, n \in 0..MaxRequests : Window(s, k, n)
  BY DEF SessionInv, ListInv
<1>6. /\ k \in Nat /\ n \in Nat /\ n <= k + 2 /\ k <= n
      /\ \A q \in Requests : /\ promise[s][q] = "unsent" <=> q > n
                             /\ promise[s][q] = "pending" <=> k < q /\ q <= n
  BY <1>5, WindowFacts
<1>7. PICK p \in Nat, l \in Nat, j \in Nat :
          /\ p = Len(posted[s]) /\ l = Len(requestList[s]) /\ j = Len(rest)
          /\ p = j + 1 /\ n = k + l + p
  <2> HIDE DEF rest
  <2>1. n = k + Len(requestList[s]) + Len(posted[s])
    BY <1>5, WindowFacts
  <2>2. Len(rest) \in Nat
    BY <1>2, LenProperties
  <2>3. Len(posted[s]) = Len(rest) + 1
    BY <1>2, <2>2
  <2> QED BY <1>2, <1>4, <2>1, <2>2, <2>3
<1>8. /\ \A i \in 1..l : requestList[s][i] = k + i
      /\ \A i \in 1..p : posted[s][i] = k + l + i
  BY <1>5, <1>7 DEF Window
<1>9. r = k + l + 1
  <2>1. 1 \in 1..p
    BY <1>7
  <2>2. r = posted[s][1]
    BY <1>2
  <2> QED BY <1>8, <2>1, <2>2
<1>10. \A i \in 1..j : rest[i] = k + l + 1 + i
  <2> TAKE i \in 1..j
  <2>1. i + 1 \in 1..p /\ rest[i] = posted[s][i + 1]
    BY <1>2, <1>7
  <2>2. posted[s][i + 1] = k + l + (i + 1)
    BY <1>8, <2>1
  <2>3. k \in Nat /\ l \in Nat /\ i \in Nat
    BY <1>6, <1>7
  <2>4. k + l + (i + 1) = k + l + 1 + i
    BY <2>3
  <2> QED BY <2>1, <2>2, <2>4
<1>11. CASE active[s]
  <2> DEFINE list == Append(requestList[s], r)
  <2>1. /\ requestList' = [requestList EXCEPT ![s] = list]
        /\ writing' = IF Len(list) = 1 THEN [writing EXCEPT ![s] = Append(@, Head(list))]
                                      ELSE writing
        /\ promise' = promise
    BY <1>11 DEF RunPosted, Starts, SendFront
  <2>2. /\ list \in Seq(Requests) /\ Len(list) = l + 1 /\ list # <<>>
        /\ \A i \in 1..l : list[i] = requestList[s][i]
        /\ list[l + 1] = r
        /\ requestList[s] # <<>> => Head(list) = Head(requestList[s])
    BY <1>2, <1>4, <1>7, AppendEntries
  <2>3. Head(list) \in Requests
    BY <2>2, TailEntries
  <2>4. requestList'[s] = list /\ requestList' \in [Sessions -> Seq(Requests)]
    <3> HIDE DEF list
    <3> QED BY <2>1, <2>2 DEF Types
  <2>5. writing' \in [Sessions -> Seq(Requests)]
    <3> HIDE DEF list
    <3>1. Append(writing[s], Head(list)) \in Seq(Requests)
      BY <2>3, AppendProperties DEF Types
    <3> QED BY <2>1, <3>1 DEF Types
  <2>6. Types'
    BY <1>1, <1>3, <2>1, <2>4, <2>5 DEF Types
  <2>7. Window(s, k, n)'
    <3> HIDE DEF list, rest, r
    <3>1. n = k + (l + 1) + j
      BY <1>6, <1>7
    <3>2. \A i \in 1..(l + 1) : list[i] = k + i
      <4> TAKE i \in 1..(l + 1)
      <4>1. CASE i = l + 1
        BY <1>6, <1>9, <2>2, <4>1
      <4>2. CASE i # l + 1
        <5>1. i \in 1..l
          BY <4>2
        <5> QED BY <5>1, <1>8, <2>2
      <4> QED BY <4>1, <4>2
    <3>3. \A i \in 1..j : rest[i] = k + (l + 1) + i
      BY <1>6, <1>10
    <3>4. /\ requestList'[s] = list /\ posted'[s] = rest /\ promise'[s] = promise[s]
          /\ Len(list) = l + 1 /\ Len(rest) = j
      BY <1>3, <1>7, <2>1, <2>2, <2>4
    <3> QED BY <1>6, <3>1, <3>2, <3>3, <3>4 DEF Window
  <2>8. ListInv(s)'
    BY <2>7 DEF ListInv
  <2>9. OperationInv(s)'
    <3> HIDE DEF list
    <3>1. CASE requestList[s] = <<>>
      <4>1. writing[s] = <<>> /\ reading[s] = 0 /\ l = 0
        BY <3>1, <1>7, NothingInFlight
      <4>2. writing'[s] = <<Head(list)>>
        BY <2>1, <2>2, <4>1 DEF Types
      <4> QED BY <1>1, <2>2, <2>4, <4>1, <4>2 DEF OperationInv
    <3>2. CASE requestList[s] # <<>>
      <4>1. l # 0
        BY <3>2, <1>4, <1>7, EmptySeq
      <4>2. writing' = writing
        BY <2>1, <2>2, <4>1
      <4> QED BY <1>1, <2>2, <2>4, <3>2, <4>2 DEF SessionInv, OperationInv
    <3> QED BY <3>1, <3>2
  <2>10. WireInv(s)'
    <3> HIDE DEF list
    <3>1. reading[s] # 0 => requestList[s] # <<>>
      BY NothingInFlight
    <3>2. reading[s] # 0 => Head(requestList'[s]) = Head(requestList[s])
      BY <2>2, <2>4, <3>1
    <3> QED BY <1>1, <1>11, <3>2 DEF SessionInv, WireInv
  <2>11. FailedInv(s)'
    BY <1>1, <2>1 DEF SessionInv, FailedInv, Failed
  <2> QED BY <2>6, <2>8, <2>9, <2>10, <2>11 DEF SessionInv
<1>12. CASE ~active[s]
  <2>1. /\ promise' = [promise EXCEPT ![s][r] = "session_closed"]
        /\ UNCHANGED <<requestList, writing>>
    BY <1>12 DEF RunPosted, Settle
  <2>2. requestList[s] = <<>> /\ l = 0
    BY <1>7, <1>12 DEF SessionInv, WireInv
  <2>3. /\ promise'[s][r] = "session_closed"
        /\ \A q \in Requests : q # r => promise'[s][q] = promise[s][q]
    BY <1>2, <2>1 DEF Types
  <2>4. Types'
    <3> HIDE DEF r
    <3>1. promise' \in [Sessions -> [Requests -> Outcomes]]
      BY <1>2, <2>1 DEF Types, Outcomes
    <3> QED BY <1>1, <1>3, <2>1, <3>1 DEF Types
  <2>5. ListInv(s)'
    <3> HIDE DEF rest, r
    <3>1. /\ n = (k + 1) + 0 + j /\ n <= (k + 1) + 2 /\ k + 1 <= n
          /\ k + 1 \in 0..MaxRequests
      <4>1. p = j + 1 /\ n = k + l + p /\ l = 0 /\ n \in 0..MaxRequests
        BY <1>7, <2>2
      <4> QED BY <1>6, <4>1, SessionAssumption
    <3>2. \A i \in 1..j : rest[i] = (k + 1) + 0 + i
      BY <1>6, <1>10, <2>2
    <3>3. \A q \in Requests : /\ promise'[s][q] = "unsent" <=> q > n
                              /\ promise'[s][q] = "pending" <=> k + 1 < q /\ q <= n
      <4> TAKE q \in Requests
      <4>1. q \in Nat
        BY DEF Requests
      <4>2. CASE q = r
        <5>1. q = k + 1
          BY <1>6, <1>9, <2>2, <4>2
        <5> QED BY <1>6, <2>3, <3>1, <4>1, <4>2, <5>1
      <4>3. CASE q # r
        <5>1. q # k + 1
          BY <1>6, <1>9, <2>2, <4>3
        <5>2. promise'[s][q] = promise[s][q]
          BY <2>3, <4>3
        <5> QED BY <1>6, <4>1, <5>1, <5>2
      <4> QED BY <4>2, <4>3
    <3>4. /\ requestList'[s] = <<>> /\ posted'[s] = rest
          /\ Len(requestList'[s]) = 0 /\ Len(rest) = j
      BY <1>3, <1>7, <2>1, <2>2
    <3>5. Window(s, k + 1, n)'
      BY <3>1, <3>2, <3>3, <3>4 DEF Window
    <3> QED BY <3>1, <3>5 DEF ListInv
  <2>6. OperationInv(s)' /\ WireInv(s)'
    BY <1>1, <2>1 DEF SessionInv, OperationInv, WireInv
  <2>7. FailedInv(s)'
    <3>1. reading[s] = 0
      BY <2>2, NothingInFlight
    <3> QED BY <1>1, <1>12, <3>1 DEF FailedInv
  <2> QED BY <2>4, <2>5, <2>6, <2>7 DEF SessionInv
<1> QED BY <1>11, <1>12

---------------------------------------------------------------------------------
(* The invariant.                                                          *)

LEMMA NextInvariant == IInv /\ [Next]_vars => IInv'
<1> SUFFICES ASSUME IInv, [Next]_vars PROVE IInv'
  OBVIOUS
<1>1. Types /\ \A t \in Sessions : SessionInv(t)
  BY DEF IInv
<1>2. ASSUME NEW s \in Sessions, Step(s) PROVE IInv'
  <2>1. SessionInv(s)
    BY <1>1
  <2>2. Types' /\ SessionInv(s)'
    BY <1>1, <1>2, <2>1, SendRequestStep, RunPostedStep, WriteDoneStep, WriteFailedStep,
       ReadValueStep, ReadBadStep, ReadFailedStep, ConnectionStep DEF Step, Strand
  <2>3. \A t \in Sessions : t # s => SessionInv(t)'
    BY <1>1, <1>2, Elsewhere
  <2> QED BY <2>2, <2>3 DEF IInv
<1>3. CASE UNCHANGED vars
  <2>1. Types'
    BY <1>1, <1>3 DEF Types, vars
  <2>2. ASSUME NEW t \in Sessions PROVE SessionInv(t)'
    <3>1. SessionInv(t) /\ posted' = posted /\ requestList' = requestList /\ promise' = promise
      BY <1>1, <1>3 DEF vars
    <3>2. ListInv(t)'
      BY <3>1, SameList
    <3> QED BY <1>3, <3>1, <3>2
         DEF SessionInv, OperationInv, WireInv, FailedInv, Failed, vars
  <2> QED BY <2>1, <2>2 DEF IInv
<1> QED BY <1>2, <1>3 DEF Next, Step

(* The inductive invariant of the sessions holds in every reachable state. *)
THEOREM Invariance == Spec => []IInv
BY InitInvariant, NextInvariant, PTL DEF Spec

(* Every variable keeps its type, and a session never has more than two    *)
(* open requests (plugin.cpp:227-231).                                     *)
THEOREM TypeCorrect == Spec => []TypeOK
<1>1. IInv => TypeOK
  <2> SUFFICES ASSUME IInv PROVE TypeOK
    OBVIOUS
  <2>1. Types /\ \A s \in Sessions : SessionInv(s)
    BY DEF IInv
  <2>2. ASSUME NEW s \in Sessions PROVE Len(posted[s]) + Len(requestList[s]) <= 2
    <3>1. PICK k, n \in 0..MaxRequests : Window(s, k, n)
      BY <2>1 DEF SessionInv, ListInv
    <3>2. PICK p \in Nat, l \in Nat : p = Len(posted[s]) /\ l = Len(requestList[s])
      BY <2>1, <3>1, WindowFacts
    <3>3. k \in Nat /\ n = k + l + p /\ n <= k + 2
      BY <2>1, <3>1, <3>2, WindowFacts
    <3>4. p + l <= 2
      BY <3>3
    <3> QED BY <3>2, <3>4
  <2> QED BY <2>1, <2>2 DEF Types, TypeOK
<1> QED BY <1>1, Invariance, PTL

(* A session that has requests has exactly one operation in flight, and a  *)
(* write is that of the front request (session.client.cpp:75-116).         *)
THEOREM OneOperationHolds == Spec => []OneOperation
<1>1. IInv => OneOperation
  BY DEF IInv, SessionInv, OperationInv, OneOperation
<1> QED BY <1>1, Invariance, PTL

---------------------------------------------------------------------------------
(* The refinement of OrderedCalls.                                         *)

(* A failure of the list, or of one request, is Calls!Fail of its last.    *)
LEMMA FailRefines ==
    ASSUME Types, NEW s \in Sessions, NEW error \in Calls!Errors,
           NEW last \in Requests, promise[s][last] = "pending",
           promise' \in [Sessions -> [Requests -> Outcomes]], answer' = answer,
           \A t \in Sessions : t # s => promise'[t] = promise[t],
           \A q \in Requests : promise'[s][q] =
               IF q <= last /\ promise[s][q] = "pending" THEN error ELSE promise[s][q]
    PROVE  Calls!Next
<1>1. promise' = [promise EXCEPT ![s] = [q \in Requests |->
                     IF q <= last /\ @[q] = "pending" THEN error ELSE @[q]]]
  BY DEF Types
<1>2. Calls!Fail(s)
  BY <1>1 DEF Calls!Fail, Calls!Requests, Requests
<1> QED BY <1>2 DEF Calls!Next

LEMMA FailThenCloseRefines ==
    ASSUME Types, NEW s \in Sessions, SessionInv(s), Types', requestList[s] # <<>>,
           NEW error \in {"bad_request", "bad_response"}, FailThenClose(s, error)
    PROVE  Calls!Next
<1>1. /\ promise' = [promise EXCEPT ![s] = [r \in Requests |->
            IF \E i \in 1..Len(requestList[s]) : requestList[s][i] = r
            THEN error ELSE promise[s][r]]]
      /\ answer' = answer
  BY DEF FailThenClose, FailList, Types
<1>2. PICK k, n \in 0..MaxRequests : Window(s, k, n)
  BY DEF SessionInv, ListInv
<1>3. PICK l \in Nat \ {0} : l = Len(requestList[s])
  BY TailEntries DEF Types
<1>4. PICK m \in Nat : m = k + l
  OBVIOUS
<1>5. /\ k \in Nat /\ n \in Nat /\ k <= m /\ m <= n /\ m \in 0..MaxRequests
      /\ \A q \in Requests : (\E i \in 1..l : requestList[s][i] = q) <=> k < q /\ q <= m
      /\ \A q \in Requests : promise[s][q] = "pending" <=> k < q /\ q <= n
  <2>1. m = k + Len(requestList[s])
    BY <1>3, <1>4
  <2>2. k <= m /\ m <= n /\ m \in 0..MaxRequests
    BY <1>2, <2>1, ListMembers
  <2>3. \A q \in Requests : (\E i \in 1..l : requestList[s][i] = q) <=> k < q /\ q <= m
    BY <1>2, <1>3, <2>1, ListMembers
  <2>4. k \in Nat /\ n \in Nat
    OBVIOUS
  <2>5. \A q \in Requests : promise[s][q] = "pending" <=> k < q /\ q <= n
    BY <1>2, WindowFacts
  <2> QED BY <2>2, <2>3, <2>4, <2>5
<1>6. m \in Requests /\ k < m
  BY <1>4, <1>5, SessionAssumption DEF Requests
<1>7. promise[s][m] = "pending"
  BY <1>5, <1>6
<1>8. ASSUME NEW q \in Requests
      PROVE  promise'[s][q] = IF q <= m /\ promise[s][q] = "pending" THEN error
                                                                     ELSE promise[s][q]
  <2>1. promise'[s][q] = IF \E i \in 1..l : requestList[s][i] = q THEN error
                                                                  ELSE promise[s][q]
    BY <1>1, <1>3 DEF Types
  <2>2. (\E i \in 1..l : requestList[s][i] = q) <=> k < q /\ q <= m
    BY <1>5
  <2>3. promise[s][q] = "pending" <=> k < q /\ q <= n
    BY <1>5
  <2>4. (k < q /\ q <= m) <=> (q <= m /\ k < q /\ q <= n)
    BY <1>5 DEF Requests
  <2> QED BY <2>1, <2>2, <2>3, <2>4
<1>9. \A t \in Sessions : t # s => promise'[t] = promise[t]
  BY <1>1 DEF Types
<1>10. error \in Calls!Errors
  BY DEF Calls!Errors
<1>11. promise' \in [Sessions -> [Requests -> Outcomes]]
  BY DEF Types
<1> QED BY <1>1, <1>6, <1>7, <1>8, <1>9, <1>10, <1>11, FailRefines

(* Every step of a session is a step of the ordered calls, or a stutter.   *)
LEMMA StepRefines ==
    ASSUME IInv, Types', NEW s \in Sessions, Step(s)
    PROVE  [Calls!Next]_(Calls!vars)
<1>1. Types /\ SessionInv(s)
  BY DEF IInv
<1>2. CASE SendRequest(s)
  <2>1. Calls!Call(s)
    BY <1>2 DEF SendRequest, Settle, Calls!Call, Calls!Requests, Requests
  <2> QED BY <2>1 DEF Calls!Next
<1>3. CASE RunPosted(s)
  <2> DEFINE r == Head(posted[s])
  <2>1. CASE active[s]
    BY <1>3, <2>1 DEF RunPosted, Calls!vars
  <2>2. CASE ~active[s]
    <3>1. /\ posted[s] # <<>> /\ requestList[s] = <<>> /\ answer' = answer
          /\ promise' = [promise EXCEPT ![s][r] = "session_closed"]
      BY <1>1, <1>3, <2>2 DEF RunPosted, Settle, SessionInv, WireInv
    <3>2. PICK k, n \in 0..MaxRequests : Window(s, k, n)
      BY <1>1 DEF SessionInv, ListInv
    <3>3. r = posted[s][1] /\ r \in Requests /\ Len(posted[s]) \in Nat \ {0}
      BY <1>1, <3>1, TailEntries DEF Types
    <3>4. r = k + 1 /\ k \in Nat /\ n \in Nat /\ k < n
      <4>1. PICK p \in Nat \ {0} : p = Len(posted[s])
        BY <3>3
      <4>2. Len(requestList[s]) = 0
        BY <3>1
      <4>3. k \in Nat /\ n \in Nat /\ n = k + 0 + p
        BY <1>1, <3>2, <4>1, <4>2, WindowFacts
      <4>4. posted[s][1] = k + 0 + 1
        BY <3>2, <4>1, <4>2 DEF Window
      <4> QED BY <3>3, <4>3, <4>4
    <3>5. \A q \in Requests : promise[s][q] = "pending" <=> k < q /\ q <= n
      BY <1>1, <3>2, WindowFacts
    <3> HIDE DEF r
    <3>6. promise[s][r] = "pending"
      BY <3>3, <3>4, <3>5
    <3>7. ASSUME NEW q \in Requests
          PROVE  promise'[s][q] = IF q <= r /\ promise[s][q] = "pending"
                                  THEN "session_closed" ELSE promise[s][q]
      <4>1. q <= r /\ promise[s][q] = "pending" <=> q = r
        BY <3>4, <3>5, <3>6 DEF Requests
      <4>2. promise'[s][q] = IF q = r THEN "session_closed" ELSE promise[s][q]
        BY <1>1, <3>1, <3>3 DEF Types
      <4> QED BY <4>1, <4>2
    <3>8. \A t \in Sessions : t # s => promise'[t] = promise[t]
      BY <1>1, <3>1 DEF Types
    <3>9. "session_closed" \in Calls!Errors
      BY DEF Calls!Errors
    <3>10. promise' \in [Sessions -> [Requests -> Outcomes]]
      BY DEF Types
    <3> QED BY <1>1, <3>1, <3>3, <3>6, <3>7, <3>8, <3>9, <3>10, FailRefines
  <2> QED BY <2>1, <2>2
<1>4. CASE WriteDone(s) \/ Respond(s) \/ ServerCloses(s) \/ Reset(s)
  BY <1>4 DEF WriteDone, Respond, ServerCloses, Reset, Calls!vars
<1>5. CASE WriteFailed(s)
  <2>1. requestList[s] # <<>> /\ FailThenClose(s, "bad_request")
    BY <1>1, <1>5, InFlight DEF WriteFailed
  <2> QED BY <1>1, <2>1, FailThenCloseRefines
<1>6. CASE ReadBad(s) \/ ReadFailed(s)
  <2>1. requestList[s] # <<>> /\ FailThenClose(s, "bad_response")
    BY <1>1, <1>6, InFlight DEF ReadBad, ReadFailed
  <2> QED BY <1>1, <2>1, FailThenCloseRefines
<1>7. CASE ReadValue(s)
  <2> DEFINE r == Head(requestList[s])
  <2>1. /\ reading[s] > 0 /\ toClient[s] # <<>>
        /\ promise' = [promise EXCEPT ![s][r] = "value"]
        /\ answer' = [answer EXCEPT ![s][r] = Head(toClient[s]).req]
    BY <1>7 DEF ReadValue, Settle, Awaiting
  <2>2. reading[s] # 0 /\ requestList[s] # <<>>
    <3>1. requestList[s] # <<>>
      BY <1>1, <2>1, InFlight
    <3> QED BY <2>1, <3>1
  <2>3. Head(toClient[s]).req = r
    BY <1>1, <2>1, <2>2, OneOnWire
  <2>4. r = requestList[s][1] /\ r \in Requests /\ Len(requestList[s]) \in Nat \ {0}
    BY <1>1, <2>2, TailEntries DEF Types
  <2>5. PICK k, n \in 0..MaxRequests : Window(s, k, n)
    BY <1>1 DEF SessionInv, ListInv
  <2>6. r = k + 1 /\ k \in Nat /\ n \in Nat /\ k < n
    <3>1. PICK l \in Nat \ {0}, p \in Nat : l = Len(requestList[s]) /\ p = Len(posted[s])
      BY <1>1, <2>4, <2>5, WindowFacts
    <3>2. k \in Nat /\ n \in Nat /\ n = k + l + p
      BY <1>1, <2>5, <3>1, WindowFacts
    <3>3. requestList[s][1] = k + 1
      BY <2>5, <3>1 DEF Window
    <3> QED BY <2>4, <3>2, <3>3
  <2> HIDE DEF r
  <2>7. promise[s][r] = "pending"
    <3>1. k < r /\ r <= n
      BY <2>6
    <3>2. \A q \in Requests : promise[s][q] = "pending" <=> k < q /\ q <= n
      BY <1>1, <2>5, WindowFacts
    <3> QED BY <2>4, <3>1, <3>2
  <2>8. ASSUME NEW q \in 1..(r - 1) PROVE promise[s][q] = "value"
    <3>1. q \in Requests /\ q <= k /\ q <= n
      BY <2>4, <2>6, SessionAssumption DEF Requests
    <3>2. promise[s][q] # "unsent" /\ promise[s][q] # "pending"
      <4>1. /\ promise[s][q] = "unsent" <=> q > n
            /\ promise[s][q] = "pending" <=> k < q /\ q <= n
        BY <1>1, <2>5, <3>1, WindowFacts
      <4> QED BY <2>6, <3>1, <4>1 DEF Requests
    <3>3. ~Failed(s, q)
      BY <1>1, <2>2, <3>1 DEF SessionInv, FailedInv
    <3>4. promise[s][q] \in Outcomes
      BY <1>1, <3>1 DEF Types
    <3> QED BY <3>2, <3>3, <3>4 DEF Failed, Outcomes
  <2>9. answer' = [answer EXCEPT ![s][r] = r]
    BY <2>1, <2>3
  <2>10. Calls!Answer(s)
    BY <2>1, <2>4, <2>7, <2>8, <2>9 DEF Calls!Answer, Calls!Requests, Requests
  <2> QED BY <2>10 DEF Calls!Next
<1> QED BY <1>2, <1>3, <1>4, <1>5, <1>6, <1>7 DEF Step, Strand

(* The sessions implement the ordered calls: requests are settled in the   *)
(* order they were sent, each with its own response, and none is answered  *)
(* once one has failed (session.client.cpp:60-116).                        *)
THEOREM CallsInOrderHolds == Spec => CallsInOrder
<1>1. Init => Calls!Init
  BY DEF Init, Calls!Init, Calls!Requests, Requests
<1>2. IInv /\ [Next]_vars /\ IInv' => [Calls!Next]_(Calls!vars)
  <2> SUFFICES ASSUME IInv, [Next]_vars, IInv' PROVE [Calls!Next]_(Calls!vars)
    OBVIOUS
  <2>1. CASE UNCHANGED vars
    BY <2>1 DEF vars, Calls!vars
  <2>2. ASSUME NEW s \in Sessions, Step(s) PROVE [Calls!Next]_(Calls!vars)
    <3>1. Types'
      BY DEF IInv
    <3> QED BY <2>2, <3>1, StepRefines
  <2> QED BY <2>1, <2>2 DEF Next, Step
<1> QED BY <1>1, <1>2, Invariance, PTL DEF Spec, CallsInOrder, Calls!Spec
==================================================================================
