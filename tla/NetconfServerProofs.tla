------------------------ MODULE NetconfServerProofs ------------------------
(***************************************************************************)
(* Proofs about NetconfServer for every set of connections, addresses and  *)
(* messages, every way the stream falls into recvs, and every bound.       *)
(***************************************************************************)
EXTENDS NetconfServer, SequenceTheorems, TLAPS

-----------------------------------------------------------------------------
(* Operators.                                                              *)

\* The place where the first message of the buffer ends.
LEMMA EndType ==
  ASSUME TypeOK, NEW c \in Clients
  PROVE  /\ FirstEnd(c) \in Nat
         /\ FirstEnd(c) > start[c]
         /\ FirstEnd(c) \div 2 = start[c] \div 2 + 1
         /\ FirstEnd(c) \div 2 \in Nat
         /\ start[c] % 2 = 0 => FirstEnd(c) = start[c] + 2 /\ FirstEnd(c) % 2 = 0
<1>1. start[c] \in Nat
  BY DEF TypeOK
<1> QED
  BY <1>1 DEF FirstEnd, Kept

\* What is appended to a sequence.
LEMMA AppendElements ==
  ASSUME NEW S, NEW s \in Seq(S), NEW e \in S
  PROVE  /\ Append(s, e) \in Seq(S) /\ Len(Append(s, e)) = Len(s) + 1
         /\ \A i \in 1..Len(s) : Append(s, e)[i] = s[i]
         /\ Append(s, e)[Len(s) + 1] = e
BY AppendProperties

-----------------------------------------------------------------------------
(* The invariant.                                                          *)

\* Short of its end a thread has seen fewer empty messages than end it.
IdleOK(c) == pc[c] # "cleanup" => idle[c] < MaxIdle

\* A thread runs from the end of the handshake until it frees the socket, and
\* has a context from create_session on.
LinkOK(c) ==
  /\ pc[c] = "none" <=> link[c] \in {"away", "backlog", "shaking"}
  /\ context[c] => pc[c] \notin {"none", "context"}
  /\ acceptor = c => link[c] = "shaking"

\* The buffer begins at a message.  Before the loop nothing has been taken off
\* it or answered, in the loop the hello has.
FreshOK(c) ==
  /\ start[c] % 2 = 0
  /\ pc[c] = "none" => said[c] = <<>>
  /\ pc[c] \in {"none", "context", "greet", "hello"} => start[c] = 0 /\ replies[c] = <<>>
  /\ pc[c] \in {"receive", "handle"} => start[c] >= 2

ThreadOK(c) == IdleOK(c) /\ LinkOK(c) /\ FreshOK(c)

\* The first message is no request, the others are no hello; only messages with
\* wide characters are torn.
KindsOK(c) ==
  /\ \A n \in 1..Len(said[c]) :
       said[c][n].kind \notin (IF n = 1 THEN Requests ELSE Hellos)
  /\ \A n \in torn[c] : n \in 1..Len(said[c]) /\ said[c][n].text # "plain"

\* The message being handled is the last one taken off the buffer.
HandOK(c) ==
  LET n == hand[c].last \div 2 IN
  pc[c] = "handle" =>
    /\ hand[c].last = start[c] /\ hand[c].last = hand[c].first + 1
    /\ n \in Asked(c)
    /\ hand[c].text # "intact" => said[c][n].text # "plain"
    /\ hand[c].text = "broken" => said[c][n].text = "wide chunks"

\* The pieces of the messages that are done with: those taken off the buffer,
\* but for the message being handled.
Done(c) == IF pc[c] = "handle" THEN start[c] - 2 ELSE start[c]

\* What has been answered is a request, done with, and answered under its id
\* unless it came apart; short of the end every request done with is answered.
RepliesOK(c) ==
  /\ \A i \in 1..Len(replies[c]) :
       LET r == replies[c][i] IN
       /\ r.to \in Asked(c) /\ 2 * r.to <= Done(c)
       /\ r.id # r.to => said[c][r.to].text = "wide chunks"
  /\ pc[c] # "cleanup" =>
       \A m \in Asked(c) : 2 * m <= Done(c) => m \in Replied(c)

\* A message its client waited to send is read when all before it is done with.
WaitOK(c) ==
  \A n \in 1..Len(said[c]) : said[c][n].waited =>
    /\ start[c] + 2 >= 2 * n
    /\ start[c] + 2 = 2 * n => taken[c] < 2 * n

SessionOK(c) == KindsOK(c) /\ HandOK(c) /\ RepliesOK(c) /\ WaitOK(c)

IInv == /\ TypeOK /\ ContextsOwned
        /\ \A c \in Clients : ThreadOK(c) /\ SessionOK(c)

-----------------------------------------------------------------------------
(* Types.                                                                  *)

\* The types of one connection.
LEMMA ConnTypes ==
  ASSUME TypeOK, NEW c \in Clients
  PROVE  /\ said[c] \in Seq(Message) /\ Len(said[c]) \in Nat
         /\ start[c] \in Nat /\ taken[c] \in Nat
         /\ start[c] <= taken[c] /\ taken[c] <= 2 * Len(said[c])
         /\ torn[c] \in SUBSET Nat /\ idle[c] \in 0..MaxIdle
         /\ replies[c] \in Seq(Reply) /\ Len(replies[c]) \in Nat
<1>1. said[c] \in Seq(Message) /\ replies[c] \in Seq(Reply)
  BY DEF TypeOK
<1>2. Len(said[c]) \in Nat /\ Len(replies[c]) \in Nat
  BY <1>1, LenProperties
<1> QED
  BY <1>1, <1>2 DEF TypeOK

\* A client that speaks sends one message of its vocabulary.
LEMMA SayTypes ==
  ASSUME TypeOK, NEW c \in Clients, Say(c)
  PROVE  TypeOK'
<1>1. PICK m \in Vocabulary[c] : said' = [said EXCEPT ![c] = Append(@, m)]
  BY DEF Say
<1>2. m \in Message
  BY ClientsAssumption
<1>3. said[c] \in Seq(Message)
  BY DEF TypeOK
<1>4. Append(said[c], m) \in Seq(Message) /\ Len(Append(said[c], m)) = Len(said[c]) + 1
  BY <1>2, <1>3, AppendElements
<1>5. said' \in [Clients -> Seq(Message)]
  BY <1>1, <1>4 DEF TypeOK
<1>6. \A d \in Clients : start[d] <= taken[d] /\ taken[d] <= 2 * Len(said'[d])
  <2>1. \A d \in Clients : Len(said'[d]) >= Len(said[d])
    BY <1>1, <1>3, <1>4 DEF TypeOK
  <2>2. \A d \in Clients : Len(said'[d]) \in Nat /\ Len(said[d]) \in Nat
    BY <1>5, LenProperties DEF TypeOK
  <2> QED
    BY <2>1, <2>2, ConnTypes
<1> QED
  BY <1>5, <1>6 DEF TypeOK, Say

\* The rest of the clients, the accept thread and the start of a thread.
LEMMA OutsideTypes ==
  ASSUME TypeOK, NEW c \in Clients,
         Connect(c) \/ Leave(c) \/ Accept(c) \/ Handshake(c) \/ Begin(c)
  PROVE  TypeOK'
<1>1. CASE Connect(c)
  <2>1. PICK a \in From[c] : addr' = [addr EXCEPT ![c] = a]
    BY <1>1 DEF Connect
  <2>2. a \in Addresses
    BY ClientsAssumption
  <2> QED
    BY <1>1, <2>1, <2>2 DEF TypeOK, Connect, stream
<1>2. CASE Leave(c)
  BY <1>2 DEF TypeOK, Leave, session, stream
<1>3. CASE Accept(c)
  BY <1>3 DEF TypeOK, Accept, session, stream
<1>4. CASE Handshake(c)
  BY <1>4 DEF TypeOK, Handshake, HandshakeDone, HandshakeFails, Goto, session, stream
<1>5. CASE Denied(c)
  BY <1>5 DEF TypeOK, Denied, Goto, session, stream
<1>6. CASE Admit(c)
  BY <1>6, ClientsAssumption DEF TypeOK, Admit, Goto, session, stream
<1>7. CASE Greet(c)
  BY <1>7 DEF TypeOK, Greet, Goto, session, stream
<1> QED
  BY <1>1, <1>2, <1>3, <1>4, <1>5, <1>6, <1>7 DEF Begin

\* The body of Receive, for what one recv returns.
Recv(c, upto, tears) ==
  /\ upto \in (taken[c] + 1)..(2 * Len(said[c]))
  /\ tears \in {torn[c], torn[c] \cup MayTear(c, upto)}
  /\ taken' = [taken EXCEPT ![c] = upto]
  /\ torn' = [torn EXCEPT ![c] = tears]
  /\ IF Complete(c, upto)
     THEN /\ start' = [start EXCEPT ![c] = Rest(c, upto)]
          /\ Dispatch(c, FirstEnd(c) \div 2, tears)
     ELSE UNCHANGED <<start, pc, chunked, idle, hand>>

\* One recv: what it takes was sent, and what it hands over was taken.
LEMMA ReceiveTypes ==
  ASSUME TypeOK, NEW c \in Clients, IdleOK(c), Receive(c)
  PROVE  TypeOK'
<1>1. PICK upto, tears : Recv(c, upto, tears)
  BY DEF Receive, Recv
<1> DEFINE n == FirstEnd(c) \div 2
<1>2. /\ n \in Nat /\ FirstEnd(c) \in Nat /\ FirstEnd(c) > start[c]
      /\ upto \in Nat /\ start[c] \in Nat /\ taken[c] \in Nat
      /\ start[c] <= taken[c] /\ upto > taken[c] /\ upto <= 2 * Len(said[c])
  <2>1. upto \in (taken[c] + 1)..(2 * Len(said[c]))
    BY <1>1 DEF Recv
  <2> QED
    BY <2>1, EndType, ConnTypes
<1>3. tears \in SUBSET Nat
  <2>1. MayTear(c, upto) \subseteq Nat
    BY DEF MayTear
  <2> QED
    BY <1>1, <2>1, ConnTypes DEF Recv
<1>4. /\ taken' \in [Clients -> Nat] /\ torn' \in [Clients -> SUBSET Nat]
      /\ UNCHANGED <<link, addr, said, replies, context, contexts, acceptor>>
  BY <1>1, <1>2, <1>3 DEF TypeOK, Receive, Recv
<1>5. CASE ~Complete(c, upto)
  <2>1. UNCHANGED <<start, pc, chunked, idle, hand>>
    BY <1>1, <1>5 DEF Recv
  <2>2. \A d \in Clients : start'[d] <= taken'[d] /\ taken'[d] <= 2 * Len(said'[d])
    <3>1. /\ taken'[c] = upto /\ start'[c] = start[c]
          /\ \A d \in Clients \ {c} : taken'[d] = taken[d] /\ start'[d] = start[d]
      BY <1>1, <2>1 DEF TypeOK, Recv
    <3>2. \A d \in Clients \ {c} : /\ start[d] <= taken[d]
                                    /\ taken[d] <= 2 * Len(said[d])
      BY ConnTypes
    <3>3. start[c] <= upto
      BY <1>2
    <3> QED
      BY <1>2, <1>4, <3>1, <3>2, <3>3
  <2> QED
    BY <1>4, <2>1, <2>2 DEF TypeOK
<1>6. CASE Complete(c, upto)
  <2>1. start' = [start EXCEPT ![c] = FirstEnd(c)] /\ Dispatch(c, n, tears)
    BY <1>1, <1>6 DEF Rest, Recv
  <2>2. FirstEnd(c) <= upto
    BY <1>6 DEF Complete
  <2>3. start' \in [Clients -> Nat]
    BY <1>2, <2>1 DEF TypeOK
  <2>4. \A d \in Clients : start'[d] <= taken'[d] /\ taken'[d] <= 2 * Len(said'[d])
    <3>1. /\ taken'[c] = upto /\ start'[c] = FirstEnd(c)
          /\ \A d \in Clients \ {c} : taken'[d] = taken[d] /\ start'[d] = start[d]
      BY <1>1, <2>1 DEF TypeOK, Recv
    <3> QED
      BY <1>2, <1>4, <2>2, <3>1, ConnTypes
  <2> HIDE DEF n
  <2>5. /\ pc' \in [Clients -> {"none", "context", "greet", "hello", "receive",
                                "handle", "cleanup"}]
        /\ chunked' \in [Clients -> BOOLEAN] /\ idle' \in [Clients -> 0..MaxIdle]
        /\ hand' \in [Clients -> [first : Nat, last : Nat,
                                  text : {"intact", "altered", "broken"}]]
    <3>1. CASE Hello(c, n)
      BY <3>1 DEF TypeOK, Hello, Goto
    <3>2. CASE Blank(c)
      <4>1. idle[c] + 1 \in 0..MaxIdle \/ pc[c] = "cleanup"
        BY ClientsAssumption, ConnTypes DEF IdleOK
      <4>2. pc[c] # "cleanup"
        BY DEF Receive
      <4> QED
        BY <3>2, <4>1, <4>2 DEF TypeOK, Blank, Goto
    <3>3. CASE HandOver(c, n, tears)
      <4>1. PICK text \in Decoded(c, n, tears) :
              hand' = [hand EXCEPT ![c] = [first |-> Kept(c) + 1, last |-> 2 * n, text |-> text]]
        BY <3>3 DEF HandOver
      <4>2. text \in {"intact", "altered", "broken"}
        BY DEF Decoded
      <4>3. [first |-> Kept(c) + 1, last |-> 2 * n, text |-> text]
              \in [first : Nat, last : Nat, text : {"intact", "altered", "broken"}]
        BY <1>2, <4>2 DEF Kept, n
      <4>4. idle' \in [Clients -> 0..MaxIdle]
        BY <3>3, ClientsAssumption DEF TypeOK, HandOver
      <4> QED
        BY <3>3, <4>1, <4>3, <4>4 DEF TypeOK, HandOver, Goto
    <3> QED
      BY <2>1, <3>1, <3>2, <3>3 DEF Dispatch
  <2> QED
    BY <1>4, <2>3, <2>4, <2>5 DEF TypeOK
<1> QED
  BY <1>5, <1>6

\* What a reply is, and the sequence it is added to.
LEMMA ReplyTypes ==
  ASSUME TypeOK, NEW c \in Clients
  PROVE  /\ ReplyTo(c) \in Reply
         /\ replies[c] \o RepliesTo(c) = Append(replies[c], ReplyTo(c))
         /\ replies[c] \o RepliesTo(c) \in Seq(Reply)
<1>1. hand[c].last \in Nat
  BY DEF TypeOK
<1>2. ReplyTo(c) \in Reply
  <2>1. hand[c].last \div 2 \in Nat
    BY <1>1
  <2> QED
    BY <2>1 DEF ReplyTo, Reply
<1>3. replies[c] \in Seq(Reply)
  BY DEF TypeOK
<1>4. replies[c] \o <<ReplyTo(c)>> = Append(replies[c], ReplyTo(c))
  BY <1>2, <1>3, AppendIsConcat
<1>5. Append(replies[c], ReplyTo(c)) \in Seq(Reply)
  BY <1>2, <1>3, AppendElements
<1> QED
  BY <1>2, <1>4, <1>5 DEF RepliesTo

\* The end of a connection, and a request answered.
LEMMA ServedTypes ==
  ASSUME TypeOK, NEW c \in Clients,
         Closed(c) \/ Handle(c) \/ SendFails(c) \/ Cleanup(c)
  PROVE  TypeOK'
<1>1. CASE Closed(c)
  BY <1>1 DEF TypeOK, Closed, Goto, session, stream
<1>2. CASE SendFails(c)
  BY <1>2 DEF TypeOK, SendFails, Goto, session, stream
<1>3. CASE Handle(c)
  <2>1. replies' \in [Clients -> Seq(Reply)]
    BY <1>3, ReplyTypes DEF TypeOK, Handle
  <2> QED
    BY <1>3, <2>1 DEF TypeOK, Handle, Goto, NoHand
<1>4. CASE Cleanup(c)
  <2>1. contexts' \in [Addresses -> Clients \cup {None}]
    BY <1>4, ClientsAssumption DEF TypeOK, Cleanup, Removed
  <2>2. /\ <<>> \in Seq(Message) /\ <<>> \in Seq(Reply) /\ {} \in SUBSET Nat
        /\ 0 \in 0..MaxIdle /\ 0 \in Nat
    BY ClientsAssumption, EmptySeq
  <2>7. NoHand \in [first : Nat, last : Nat, text : {"intact", "altered", "broken"}]
    BY DEF NoHand
  <2>3. /\ said' \in [Clients -> Seq(Message)] /\ replies' \in [Clients -> Seq(Reply)]
        /\ taken' \in [Clients -> Nat] /\ start' \in [Clients -> Nat]
        /\ torn' \in [Clients -> SUBSET Nat]
        /\ idle' \in [Clients -> 0..MaxIdle]
        /\ hand' \in [Clients -> [first : Nat, last : Nat,
                                  text : {"intact", "altered", "broken"}]]
    BY <1>4, <2>2, <2>7 DEF TypeOK, Cleanup
  <2>4. /\ link' \in [Clients -> {"away", "backlog", "shaking", "open", "eof", "reset"}]
        /\ addr' \in [Clients -> Addresses \cup {None}]
        /\ pc' \in [Clients -> {"none", "context", "greet", "hello", "receive",
                                "handle", "cleanup"}]
        /\ chunked' \in [Clients -> BOOLEAN] /\ context' \in [Clients -> BOOLEAN]
        /\ acceptor' \in Clients \cup {None}
    BY <1>4 DEF TypeOK, Cleanup, Goto
  <2>5. \A d \in Clients : start'[d] <= taken'[d] /\ taken'[d] <= 2 * Len(said'[d])
    <3>1. \A d \in Clients : d # c => /\ start'[d] = start[d] /\ taken'[d] = taken[d]
                                      /\ said'[d] = said[d]
      BY <1>4 DEF TypeOK, Cleanup
    <3>2. start'[c] = 0 /\ taken'[c] = 0 /\ said'[c] = <<>>
      BY <1>4 DEF TypeOK, Cleanup
    <3>3. Len(<<>>) = 0
      OBVIOUS
    <3> QED
      BY <3>1, <3>2, <3>3, ConnTypes
  <2> QED
    BY <2>1, <2>3, <2>4, <2>5 DEF TypeOK
<1> QED
  BY <1>1, <1>2, <1>3, <1>4

-----------------------------------------------------------------------------
(* What a step leaves alone.                                               *)

Step(c) == Client(c) \/ Accept(c) \/ Handshake(c) \/ Thread(c)

Same(d) == /\ link'[d] = link[d] /\ addr'[d] = addr[d] /\ pc'[d] = pc[d]
           /\ said'[d] = said[d]
           /\ taken'[d] = taken[d] /\ start'[d] = start[d] /\ torn'[d] = torn[d]
           /\ idle'[d] = idle[d] /\ hand'[d] = hand[d]
           /\ replies'[d] = replies[d] /\ context'[d] = context[d]

\* A step is about one connection.
LEMMA Others ==
  ASSUME TypeOK, NEW c \in Clients, Step(c), NEW d \in Clients, d # c
  PROVE  Same(d) /\ acceptor' \in {acceptor, c, None}
<1>1. CASE Client(c)
  BY <1>1 DEF Same, TypeOK, Client, Connect, Say, Leave, session, stream
<1>2. CASE Accept(c) \/ Handshake(c)
  BY <1>2
     DEF Same, TypeOK, Accept, Handshake, HandshakeDone, HandshakeFails, Goto, session, stream
<1>3. CASE Begin(c)
  BY <1>3 DEF Same, TypeOK, Begin, Denied, Admit, Greet, Goto, session, stream
<1>4. CASE Receive(c)
  <2>1. PICK upto, tears : Recv(c, upto, tears)
    BY <1>4 DEF Receive, Recv
  <2>2. /\ taken'[d] = taken[d] /\ torn'[d] = torn[d]
        /\ UNCHANGED <<link, addr, said, replies, context, contexts, acceptor>>
    BY <1>4, <2>1 DEF TypeOK, Recv, Receive
  <2>3. CASE Dispatch(c, FirstEnd(c) \div 2, tears) /\ start'[d] = start[d]
    <3>1. CASE Hello(c, FirstEnd(c) \div 2)
      BY <2>2, <2>3, <3>1 DEF Same, TypeOK, Hello, Goto
    <3>2. CASE Blank(c)
      BY <2>2, <2>3, <3>2 DEF Same, TypeOK, Blank, Goto
    <3>3. CASE HandOver(c, FirstEnd(c) \div 2, tears)
      BY <2>2, <2>3, <3>3 DEF Same, TypeOK, HandOver, Goto
    <3> QED
      BY <2>3, <3>1, <3>2, <3>3 DEF Dispatch
  <2>4. CASE UNCHANGED <<start, pc, chunked, idle, hand>>
    BY <2>2, <2>4 DEF Same
  <2> QED
    BY <2>1, <2>3, <2>4 DEF Recv, TypeOK
<1>5. CASE Closed(c) \/ Handle(c) \/ SendFails(c)
  BY <1>5 DEF Same, TypeOK, Closed, Handle, SendFails, Goto, session, stream
<1>6. CASE Cleanup(c)
  BY <1>6 DEF Same, TypeOK, Cleanup, Goto
<1> QED
  BY <1>1, <1>2, <1>3, <1>4, <1>5, <1>6 DEF Step, Thread, Serve

\* What holds of a connection holds after a step of another.
LEMMA Frame ==
  ASSUME NEW c \in Clients, NEW d \in Clients, d # c, Same(d),
         acceptor' \in {acceptor, c, None}, ThreadOK(d), SessionOK(d)
  PROVE  ThreadOK(d)' /\ SessionOK(d)'
<1>1. ThreadOK(d)'
  BY ClientsAssumption DEF Same, ThreadOK, IdleOK, LinkOK, FreshOK
<1>2. KindsOK(d)' /\ WaitOK(d)'
  BY DEF Same, SessionOK, KindsOK, WaitOK
<1>3. Asked(d)' = Asked(d) /\ Replied(d)' = Replied(d) /\ Done(d)' = Done(d)
  BY DEF Same, Asked, IsRequest, Replied, Done
<1>4. HandOK(d)'
  BY <1>3 DEF Same, SessionOK, HandOK
<1>5. RepliesOK(d)'
  BY <1>3 DEF Same, SessionOK, RepliesOK
<1> QED
  BY <1>1, <1>2, <1>4, <1>5 DEF SessionOK

-----------------------------------------------------------------------------
(* The steps that leave the session as it is.                              *)

\* Requests are messages.
LEMMA AskedType ==
  ASSUME TypeOK, NEW c \in Clients
  PROVE  /\ Asked(c) \subseteq 1..Len(said[c])
         /\ \A n \in Asked(c) : n \in Nat /\ n >= 1
BY ConnTypes DEF Asked

\* Where a thread may go while its session stays as it is: on towards the loop,
\* or to its end.
LEMMA SessionKept ==
  ASSUME NEW c \in Clients, SessionOK(c), TypeOK,
         \/ pc'[c] = pc[c]
         \/ pc[c] \notin {"cleanup", "handle"} /\ pc'[c] # "handle"
         \/ pc[c] = "handle" /\ pc'[c] = "cleanup",
         UNCHANGED stream
  PROVE  SessionOK(c)'
<1>1. KindsOK(c)' /\ WaitOK(c)'
  BY DEF stream, SessionOK, KindsOK, WaitOK
<1>2. Asked(c)' = Asked(c) /\ Replied(c)' = Replied(c)
  BY DEF stream, Asked, IsRequest, Replied
<1>3. HandOK(c)'
  BY <1>2 DEF stream, SessionOK, HandOK
<1>4. RepliesOK(c)'
  <2>1. CASE pc[c] = "handle" /\ pc'[c] = "cleanup"
    <3>1. /\ start[c] \in Nat /\ Done(c) = start[c] - 2 /\ Done(c)' = start[c]
      BY <2>1, ConnTypes DEF Done, stream
    <3>2. ASSUME NEW i \in 1..Len(replies[c])
          PROVE  /\ replies[c][i].to \in Asked(c) /\ 2 * replies[c][i].to <= start[c]
                 /\ replies[c][i].id # replies[c][i].to =>
                      said[c][replies[c][i].to].text = "wide chunks"
      <4>1. /\ replies[c][i].to \in Asked(c) /\ 2 * replies[c][i].to <= start[c] - 2
            /\ replies[c][i].id # replies[c][i].to =>
                 said[c][replies[c][i].to].text = "wide chunks"
        BY <3>1 DEF SessionOK, RepliesOK
      <4>2. replies[c][i].to \in Nat
        BY <4>1, AskedType
      <4>3. 2 * replies[c][i].to <= start[c]
        <5>1. \A x, s \in Nat : 2 * x <= s - 2 => 2 * x <= s
          OBVIOUS
        <5> QED
          BY <3>1, <4>1, <4>2, <5>1
      <4> QED
        BY <4>1, <4>3
    <3> QED
      BY <1>2, <2>1, <3>1, <3>2 DEF RepliesOK, stream
  <2>2. CASE ~(pc[c] = "handle" /\ pc'[c] = "cleanup")
    <3>1. /\ pc'[c] = "handle" <=> pc[c] = "handle"
          /\ pc'[c] # "cleanup" => pc[c] # "cleanup"
      BY <2>2
    <3>2. Done(c)' = Done(c)
      BY <3>1 DEF Done, stream
    <3>3. RepliesOK(c)
      BY DEF SessionOK
    <3>4. replies' = replies /\ said' = said
      BY DEF stream
    <3> QED
      BY <1>2, <3>1, <3>2, <3>3, <3>4 DEF RepliesOK
  <2> QED
    BY <2>1, <2>2
<1> QED
  BY <1>1, <1>3, <1>4 DEF SessionOK

\* Connecting, leaving, the accept thread, the start of a thread, the peer gone.
LEMMA QuietSteps ==
  ASSUME TypeOK, NEW c \in Clients, ThreadOK(c), SessionOK(c),
         \/ Connect(c) \/ Leave(c) \/ Accept(c) \/ Handshake(c)
         \/ Begin(c) \/ Closed(c) \/ SendFails(c)
  PROVE  ThreadOK(c)' /\ SessionOK(c)'
<1>1. CASE Connect(c)
  BY <1>1, SessionKept
     DEF TypeOK, Connect, ThreadOK, IdleOK, LinkOK, FreshOK, session, stream
<1>2. CASE Leave(c)
  BY <1>2, SessionKept
     DEF TypeOK, Leave, ThreadOK, IdleOK, LinkOK, FreshOK, session, stream
<1>3. CASE Accept(c)
  BY <1>3, SessionKept
     DEF TypeOK, Accept, ThreadOK, IdleOK, LinkOK, FreshOK, session, stream
<1>4. CASE HandshakeDone(c)
  <2>1. ThreadOK(c)'
    BY <1>4, ClientsAssumption
       DEF TypeOK, HandshakeDone, Goto, ThreadOK, IdleOK, LinkOK, FreshOK, session, stream
  <2>2. SessionOK(c)'
    BY <1>4, SessionKept DEF TypeOK, HandshakeDone, Goto, ThreadOK, LinkOK, session
  <2> QED
    BY <2>1, <2>2
<1>5. CASE HandshakeFails(c)
  BY <1>5, SessionKept, ClientsAssumption
     DEF TypeOK, HandshakeFails, Goto, ThreadOK, IdleOK, LinkOK, FreshOK, session, stream
<1>6. CASE Denied(c)
  BY <1>6, SessionKept
     DEF TypeOK, Denied, Goto, ThreadOK, IdleOK, LinkOK, FreshOK, session, stream
<1>7. CASE Admit(c)
  <2>1. ThreadOK(c)'
    BY <1>7 DEF TypeOK, Admit, Goto, ThreadOK, IdleOK, LinkOK, FreshOK, session, stream
  <2>2. SessionOK(c)'
    BY <1>7, SessionKept DEF TypeOK, Admit, Goto, ThreadOK, LinkOK, session
  <2> QED
    BY <2>1, <2>2
<1>8. CASE Greet(c)
  <2>1. ThreadOK(c)'
    BY <1>8 DEF TypeOK, Greet, Goto, ThreadOK, IdleOK, LinkOK, FreshOK, session, stream
  <2>2. SessionOK(c)'
    BY <1>8, SessionKept DEF TypeOK, Greet, Goto, ThreadOK, LinkOK, session
  <2> QED
    BY <2>1, <2>2
<1>9. CASE Closed(c)
  BY <1>9, SessionKept
     DEF TypeOK, Closed, Goto, ThreadOK, IdleOK, LinkOK, FreshOK, session, stream
<1>10. CASE SendFails(c)
  BY <1>10, SessionKept
     DEF TypeOK, SendFails, Goto, ThreadOK, IdleOK, LinkOK, FreshOK, session, stream
<1> QED
  BY <1>1, <1>2, <1>3, <1>4, <1>5, <1>6, <1>7, <1>8, <1>9, <1>10 DEF Handshake, Begin

-----------------------------------------------------------------------------
(* A client speaks.                                                        *)

\* What was said before stays, and what is said next is no request when it is
\* the first message and no hello when it is not.
LEMMA SaidMore ==
  ASSUME TypeOK, NEW c \in Clients, Say(c)
  PROVE  \E m \in Message :
           /\ MaySay(c, m)
           /\ Len(said'[c]) = Len(said[c]) + 1
           /\ said'[c][Len(said[c]) + 1] = m
           /\ \A n \in 1..Len(said[c]) : said'[c][n] = said[c][n]
<1>1. PICK m \in Vocabulary[c] : MaySay(c, m) /\ said' = [said EXCEPT ![c] = Append(@, m)]
  BY DEF Say
<1>2. m \in Message
  BY ClientsAssumption
<1>3. said'[c] = Append(said[c], m)
  BY <1>1 DEF TypeOK
<1>4. said[c] \in Seq(Message)
  BY DEF TypeOK
<1> QED
  BY <1>1, <1>2, <1>3, <1>4, AppendElements

\* A client that waits has seen everything it sent taken off the buffer.
LEMMA WaitsMeansRead ==
  ASSUME TypeOK, NEW c \in Clients, SessionOK(c), Waits(c)
  PROVE  start[c] = 2 * Len(said[c]) /\ taken[c] = start[c]
<1>1. Len(said[c]) \in 1..Len(said[c])
  BY ConnTypes DEF Waits
<1>2. Len(said[c]) \in Asked(c)
  BY <1>1 DEF Asked, Waits
<1>3. Len(said[c]) \in Replied(c)
  BY <1>2 DEF Waits, Pending
<1>4. PICK i \in 1..Len(replies[c]) : replies[c][i].to = Len(said[c])
  BY <1>3 DEF Replied
<1>5. 2 * Len(said[c]) <= Done(c)
  BY <1>4 DEF SessionOK, RepliesOK
<1>6. Done(c) <= start[c] /\ Done(c) \in Int
  BY ConnTypes DEF Done
<1> QED
  BY <1>5, <1>6, ConnTypes

LEMMA SayKeeps ==
  ASSUME TypeOK, NEW c \in Clients, ThreadOK(c), SessionOK(c), Say(c)
  PROVE  ThreadOK(c)' /\ SessionOK(c)'
<1>1. /\ link[c] = "open"
      /\ UNCHANGED <<link, pc, addr, taken, start, torn, chunked, idle, hand,
                     replies, context, contexts, acceptor>>
  BY DEF Say
<1>2. PICK m \in Message :
        /\ MaySay(c, m)
        /\ Len(said'[c]) = Len(said[c]) + 1
        /\ said'[c][Len(said[c]) + 1] = m
        /\ \A n \in 1..Len(said[c]) : said'[c][n] = said[c][n]
  BY SaidMore
<1>3. /\ Len(said[c]) \in Nat
      /\ 1..Len(said'[c]) = 1..Len(said[c]) \cup {Len(said[c]) + 1}
      /\ Len(said[c]) + 1 \notin 1..Len(said[c])
      /\ said[c] # <<>> <=> Len(said[c]) # 0
  BY <1>2, ConnTypes, EmptySeq
<1>4. ThreadOK(c)'
  BY <1>1 DEF ThreadOK, IdleOK, LinkOK, FreshOK
<1>5. KindsOK(c)'
  <2>1. \A n \in 1..Len(said'[c]) :
          said'[c][n].kind \notin (IF n = 1 THEN Requests ELSE Hellos)
    <3>1. ASSUME NEW n \in 1..Len(said[c])
          PROVE  said'[c][n].kind \notin (IF n = 1 THEN Requests ELSE Hellos)
      BY <1>2 DEF SessionOK, KindsOK
    <3>2. m.kind \notin (IF Len(said[c]) + 1 = 1 THEN Requests ELSE Hellos)
      BY <1>2, <1>3 DEF MaySay
    <3> QED
      BY <1>2, <1>3, <3>1, <3>2
  <2>2. \A n \in torn[c] : n \in 1..Len(said'[c]) /\ said'[c][n].text # "plain"
    BY <1>2, <1>3 DEF SessionOK, KindsOK
  <2> QED
    BY <1>1, <2>1, <2>2 DEF KindsOK
<1>6. /\ Asked(c) \subseteq Asked(c)'
      /\ \A n \in Asked(c)' : n \in Asked(c) \/ n = Len(said[c]) + 1
      /\ Replied(c)' = Replied(c) /\ Done(c)' = Done(c)
  <2>1. \A n \in 1..Len(said[c]) : IsRequest(c, n)' <=> IsRequest(c, n)
    BY <1>2 DEF IsRequest
  <2>2. Replied(c)' = Replied(c) /\ Done(c)' = Done(c)
    BY <1>1 DEF Replied, Done
  <2> QED
    BY <1>3, <2>1, <2>2 DEF Asked
<1>7. HandOK(c)'
  <2>1. \A n \in Asked(c) : n \in Asked(c)' /\ said'[c][n] = said[c][n]
    BY <1>2, <1>6, AskedType
  <2> QED
    BY <1>1, <2>1 DEF SessionOK, HandOK
<1>8. RepliesOK(c)'
  <2>1. \A n \in Asked(c) : said'[c][n] = said[c][n]
    BY <1>2, AskedType
  <2>2. ~(2 * (Len(said[c]) + 1) <= Done(c))
    BY ConnTypes DEF Done
  <2>3. /\ \A i \in 1..Len(replies[c]) :
             LET r == replies[c][i] IN
             /\ r.to \in Asked(c) /\ 2 * r.to <= Done(c)
             /\ r.id # r.to => said[c][r.to].text = "wide chunks"
        /\ pc[c] # "cleanup" =>
             \A k \in Asked(c) : 2 * k <= Done(c) => k \in Replied(c)
    BY DEF SessionOK, RepliesOK
  <2>4. pc'[c] # "cleanup" =>
          \A k \in Asked(c)' : 2 * k <= Done(c)' => k \in Replied(c)'
    BY <1>1, <1>6, <2>2, <2>3
  <2>5. \A i \in 1..Len(replies[c]) :
             LET r == replies[c][i] IN
             /\ r.to \in Asked(c)' /\ 2 * r.to <= Done(c)
             /\ r.id # r.to => said'[c][r.to].text = "wide chunks"
    BY <1>6, <2>1, <2>3
  <2> QED
    BY <1>1, <1>6, <2>4, <2>5 DEF RepliesOK
<1>9. WaitOK(c)'
  <2>1. ASSUME NEW n \in 1..Len(said[c]), said'[c][n].waited
        PROVE  /\ start[c] + 2 >= 2 * n
               /\ start[c] + 2 = 2 * n => taken[c] < 2 * n
    BY <1>2, <2>1 DEF SessionOK, WaitOK
  <2>2. ASSUME m.waited
        PROVE  LET n == Len(said[c]) + 1 IN
               /\ start[c] + 2 >= 2 * n
               /\ start[c] + 2 = 2 * n => taken[c] < 2 * n
    <3>1. start[c] = 2 * Len(said[c]) /\ taken[c] = start[c]
      BY <1>2, <2>2, WaitsMeansRead DEF MaySay
    <3> QED
      BY <3>1, ConnTypes
  <2> QED
    BY <1>1, <1>2, <1>3, <2>1, <2>2 DEF WaitOK
<1> QED
  BY <1>4, <1>5, <1>7, <1>8, <1>9 DEF SessionOK

-----------------------------------------------------------------------------
(* A request is answered, a connection ends.                               *)

\* The replies after Handle.
LEMMA Answers ==
  ASSUME TypeOK, NEW c \in Clients, Handle(c)
  PROVE  /\ replies'[c] = Append(replies[c], ReplyTo(c))
         /\ Len(replies'[c]) = Len(replies[c]) + 1
         /\ replies'[c][Len(replies[c]) + 1] = ReplyTo(c)
         /\ \A i \in 1..Len(replies[c]) : replies'[c][i] = replies[c][i]
<1>1. replies'[c] = replies[c] \o RepliesTo(c)
  BY DEF Handle, TypeOK
<1>2. replies[c] \in Seq(Reply)
  BY DEF TypeOK
<1> QED
  BY <1>1, <1>2, ReplyTypes, AppendElements

LEMMA HandleKeeps ==
  ASSUME TypeOK, NEW c \in Clients, ThreadOK(c), SessionOK(c), Handle(c)
  PROVE  ThreadOK(c)' /\ SessionOK(c)'
<1> DEFINE n == hand[c].last \div 2
<1>1. /\ pc[c] = "handle" /\ pc'[c] \in {"receive", "cleanup"}
      /\ UNCHANGED <<link, said, taken, start, torn, chunked, idle, context, acceptor>>
  BY DEF Handle, Goto, TypeOK
<1>2. /\ hand[c].last = start[c] /\ n \in Asked(c)
      /\ hand[c].text = "broken" => said[c][n].text = "wide chunks"
  BY <1>1 DEF SessionOK, HandOK
<1>3. 2 * n = start[c] /\ n \in Nat /\ start[c] \in Nat /\ start[c] >= 2
  <2>1. start[c] % 2 = 0 /\ start[c] \in Nat /\ start[c] >= 2
    BY <1>1, ConnTypes DEF ThreadOK, FreshOK
  <2>2. \A x \in Nat : x % 2 = 0 => 2 * (x \div 2) = x /\ x \div 2 \in Nat
    OBVIOUS
  <2> QED
    BY <1>2, <2>1, <2>2
<1>4. ThreadOK(c)'
  BY <1>1 DEF ThreadOK, IdleOK, LinkOK, FreshOK
<1>5. KindsOK(c)' /\ WaitOK(c)' /\ HandOK(c)'
  BY <1>1 DEF SessionOK, KindsOK, WaitOK, HandOK
<1>6. Asked(c)' = Asked(c) /\ Done(c)' = start[c] /\ Done(c) = start[c] - 2
  BY <1>1 DEF Asked, IsRequest, Done
<1> HIDE DEF n
<1>7. /\ ReplyTo(c).to = n
      /\ ReplyTo(c).id # n => hand[c].text = "broken"
  BY DEF ReplyTo, n
<1>8. /\ 1..Len(replies'[c]) = 1..Len(replies[c]) \cup {Len(replies[c]) + 1}
  BY Answers, ConnTypes
<1>9. Replied(c)' = Replied(c) \cup {n}
  BY <1>7, <1>8, Answers DEF Replied
<1>10. RepliesOK(c)'
  <2>1. ASSUME NEW i \in 1..Len(replies[c])
        PROVE  LET r == replies[c][i] IN
               /\ r.to \in Asked(c) /\ 2 * r.to <= start[c]
               /\ r.id # r.to => said[c][r.to].text = "wide chunks"
    <3>1. /\ replies[c][i].to \in Asked(c) /\ 2 * replies[c][i].to <= start[c] - 2
          /\ replies[c][i].id # replies[c][i].to =>
               said[c][replies[c][i].to].text = "wide chunks"
      BY <1>6 DEF SessionOK, RepliesOK
    <3>2. replies[c][i].to \in Nat
      BY <3>1, AskedType
    <3>3. \A x, s \in Nat : 2 * x <= s - 2 => 2 * x <= s
      OBVIOUS
    <3> QED
      BY <1>3, <3>1, <3>2, <3>3
  <2>2. LET r == ReplyTo(c) IN
        /\ r.to \in Asked(c) /\ 2 * r.to <= start[c]
        /\ r.id # r.to => said[c][r.to].text = "wide chunks"
    <3>1. 2 * n <= start[c]
      BY <1>3
    <3> QED
      BY <1>2, <1>7, <3>1
  <2>3. ASSUME NEW k \in Asked(c), 2 * k <= start[c]
        PROVE  k \in Replied(c) \cup {n}
    <3>1. k \in Nat
      BY AskedType
    <3>2. 2 * k <= start[c] - 2 \/ k = n
      BY <1>3, <2>3, <3>1
    <3>3. 2 * k <= Done(c) => k \in Replied(c)
      BY <1>1 DEF SessionOK, RepliesOK
    <3> QED
      BY <1>6, <3>2, <3>3
  <2>4. \A i \in 1..Len(replies'[c]) :
               LET r == replies'[c][i] IN
               /\ r.to \in Asked(c) /\ 2 * r.to <= start[c]
               /\ r.id # r.to => said[c][r.to].text = "wide chunks"
    BY <1>8, <2>1, <2>2, Answers
  <2> QED
    BY <1>1, <1>6, <1>9, <2>3, <2>4 DEF RepliesOK
<1> QED
  BY <1>4, <1>5, <1>10 DEF SessionOK

\* A slot is left as it was found.
LEMMA CleanupKeeps ==
  ASSUME TypeOK, NEW c \in Clients, ThreadOK(c), Cleanup(c)
  PROVE  ThreadOK(c)' /\ SessionOK(c)'
<1>1. /\ pc'[c] = "none" /\ link'[c] = "away" /\ said'[c] = <<>>
      /\ start'[c] = 0 /\ taken'[c] = 0 /\ torn'[c] = {} /\ idle'[c] = 0
      /\ replies'[c] = <<>> /\ context'[c] = FALSE
  BY DEF TypeOK, Cleanup, Goto
<1>2. acceptor' # c
  BY DEF Cleanup, ThreadOK, LinkOK
<1>3. Len(<<>>) = 0 /\ 1..0 = {}
  OBVIOUS
<1>4. ThreadOK(c)'
  BY <1>1, <1>2, ClientsAssumption DEF ThreadOK, IdleOK, LinkOK, FreshOK
<1>5. KindsOK(c)' /\ WaitOK(c)' /\ HandOK(c)'
  BY <1>1, <1>3 DEF KindsOK, WaitOK, HandOK
<1>6. Asked(c)' = {}
  BY <1>1, <1>3 DEF Asked
<1>7. RepliesOK(c)'
  BY <1>1, <1>3, <1>6 DEF RepliesOK
<1> QED
  BY <1>4, <1>5, <1>7 DEF SessionOK

-----------------------------------------------------------------------------
(* One recv.                                                               *)

\* A recv tears only messages with wide characters.
LEMMA TornStays ==
  ASSUME TypeOK, NEW c \in Clients, KindsOK(c), NEW upto, NEW tears, Recv(c, upto, tears)
  PROVE  \A n \in tears : n \in 1..Len(said[c]) /\ said[c][n].text # "plain"
BY DEF Recv, MayTear, KindsOK

\* A recv that completes no message: only the buffer grows, and the message at
\* its head is still short of its end.
LEMMA ReceivePart ==
  ASSUME TypeOK, NEW c \in Clients, ThreadOK(c), SessionOK(c), Receive(c),
         NEW upto, NEW tears, Recv(c, upto, tears), ~Complete(c, upto)
  PROVE  ThreadOK(c)' /\ SessionOK(c)'
<1>1. /\ UNCHANGED <<link, said, replies, context, acceptor, start, pc, chunked, idle, hand>>
      /\ taken'[c] = upto /\ torn'[c] = tears
  BY DEF Receive, Recv, TypeOK
<1>2. upto \in Nat /\ upto < start[c] + 2
  <2>1. upto \in Nat
    BY ConnTypes DEF Recv
  <2>2. FirstEnd(c) = start[c] + 2
    BY EndType DEF ThreadOK, FreshOK
  <2> QED
    BY <2>1, <2>2, ConnTypes DEF Complete
<1>3. ThreadOK(c)'
  BY <1>1 DEF ThreadOK, IdleOK, LinkOK, FreshOK
<1>4. KindsOK(c)'
  BY <1>1, TornStays DEF SessionOK, KindsOK
<1>5. Asked(c)' = Asked(c) /\ Replied(c)' = Replied(c) /\ Done(c)' = Done(c)
  BY <1>1 DEF Asked, IsRequest, Replied, Done
<1>6. HandOK(c)' /\ RepliesOK(c)'
  BY <1>1, <1>5 DEF SessionOK, HandOK, RepliesOK
<1>7. WaitOK(c)'
  <2>1. ASSUME NEW n \in 1..Len(said[c]), said[c][n].waited
        PROVE  start[c] + 2 >= 2 * n /\ (start[c] + 2 = 2 * n => upto < 2 * n)
    BY <1>2, <2>1 DEF SessionOK, WaitOK
  <2> QED
    BY <1>1, <2>1 DEF WaitOK
<1> QED
  BY <1>3, <1>4, <1>6, <1>7 DEF SessionOK

\* A recv that completes one: it is the next message, and no other, that is
\* taken off the buffer, greeted, passed over or handed over.
LEMMA ReceiveWhole ==
  ASSUME TypeOK, NEW c \in Clients, ThreadOK(c), SessionOK(c), Receive(c),
         NEW upto, NEW tears, Recv(c, upto, tears), Complete(c, upto)
  PROVE  ThreadOK(c)' /\ SessionOK(c)'
<1> DEFINE n == FirstEnd(c) \div 2
<1>1. /\ UNCHANGED <<link, said, replies, context, acceptor>>
      /\ taken'[c] = upto /\ torn'[c] = tears
      /\ start'[c] = FirstEnd(c) /\ Dispatch(c, n, tears)
      /\ pc[c] \in {"hello", "receive"}
  BY DEF Receive, Recv, TypeOK, Rest
<1>2. /\ upto \in Nat /\ upto <= 2 * Len(said[c]) /\ start[c] + 2 <= upto
      /\ FirstEnd(c) = start[c] + 2
  <2>1. upto \in Nat /\ upto <= 2 * Len(said[c])
    BY ConnTypes DEF Recv
  <2>2. FirstEnd(c) = start[c] + 2
    BY EndType DEF ThreadOK, FreshOK
  <2> QED
    BY <2>1, <2>2, ConnTypes DEF Complete
<1>3. /\ n \in Nat /\ n \in 1..Len(said[c]) /\ 2 * n = start[c] + 2
      /\ start[c] \in Nat /\ start[c] % 2 = 0
  <2>1. start[c] % 2 = 0 /\ start[c] \in Nat /\ Len(said[c]) \in Nat
    BY ConnTypes DEF ThreadOK, FreshOK
  <2>2. \A x \in Nat : x % 2 = 0 => /\ 2 * ((x + 2) \div 2) = x + 2
                                    /\ (x + 2) \div 2 \in Nat
                                    /\ (x + 2) \div 2 >= 1
    OBVIOUS
  <2>3. 2 * n = start[c] + 2 /\ n \in Nat /\ n >= 1
    BY <1>2, <2>1, <2>2
  <2> HIDE DEF n
  <2> QED
    BY <1>2, <2>1, <2>3
<1> HIDE DEF n
<1>4. start'[c] = start[c] + 2 /\ start'[c] % 2 = 0
  BY <1>1, <1>2, <1>3
<1>5. KindsOK(c)'
  BY <1>1, TornStays DEF SessionOK, KindsOK
<1>6. Asked(c)' = Asked(c) /\ Replied(c)' = Replied(c)
  BY <1>1 DEF Asked, IsRequest, Replied
<1>7. WaitOK(c)'
  <2>1. ASSUME NEW k \in 1..Len(said[c]), said[c][k].waited
        PROVE  /\ start[c] + 4 >= 2 * k
               /\ start[c] + 4 = 2 * k => upto < 2 * k
    <3>1. /\ start[c] + 2 >= 2 * k
          /\ start[c] + 2 = 2 * k => taken[c] < 2 * k
      BY <2>1 DEF SessionOK, WaitOK
    <3> QED
      BY <1>3, <3>1
  <2> QED
    BY <1>1, <1>3, <1>4, <2>1 DEF WaitOK
<1>8. /\ pc[c] = "hello" => start[c] = 0 /\ n = 1
      /\ pc[c] = "receive" => n # 1
  BY <1>1, <1>3 DEF ThreadOK, FreshOK
<1>9. Done(c) = start[c]
  BY <1>1 DEF Done
<1>10. CASE \/ pc[c] = "hello" /\ Hello(c, n)
            \/ said[c][n].kind = "blank" /\ Blank(c)
  <2>1. /\ pc'[c] \in {"receive", "cleanup"}
        /\ n \notin Asked(c)
    <3>1. CASE pc[c] = "hello" /\ Hello(c, n)
      <4>1. said[c][n].kind \notin Requests
        BY <1>3, <1>8, <3>1 DEF SessionOK, KindsOK
      <4> QED
        BY <3>1, <4>1 DEF Hello, Goto, TypeOK, Asked, IsRequest
    <3>2. CASE said[c][n].kind = "blank" /\ Blank(c)
      BY <3>2 DEF Blank, Goto, TypeOK, Asked, IsRequest, Requests
    <3> QED
      BY <1>10, <3>1, <3>2
  <2>2. ThreadOK(c)'
    <3>1. IdleOK(c)'
      <4>1. CASE pc[c] = "hello" /\ Hello(c, n)
        BY <1>1, <4>1 DEF ThreadOK, IdleOK, Hello
      <4>2. CASE Blank(c)
        <5>1. idle'[c] = idle[c] + 1 /\ (pc'[c] = "cleanup" \/ ~(idle[c] + 1 >= MaxIdle))
          BY <4>2 DEF Blank, Goto, TypeOK
        <5>2. idle[c] \in Nat /\ MaxIdle \in Nat
          BY ConnTypes, ClientsAssumption
        <5> QED
          BY <5>1, <5>2 DEF IdleOK
      <4> QED
        BY <1>10, <4>1, <4>2
    <3>2. LinkOK(c)'
      BY <1>1, <2>1 DEF ThreadOK, LinkOK
    <3>3. start'[c] >= 2
      BY <1>3, <1>4
    <3>4. FreshOK(c)'
      BY <1>4, <2>1, <3>3 DEF FreshOK
    <3> QED
      BY <3>1, <3>2, <3>4 DEF ThreadOK
  <2>3. HandOK(c)'
    BY <2>1 DEF HandOK
  <2>4. RepliesOK(c)'
    <3>1. Done(c)' = start[c] + 2
      BY <1>4, <2>1 DEF Done
    <3>2. ASSUME NEW i \in 1..Len(replies[c])
          PROVE  LET r == replies[c][i] IN
                 /\ r.to \in Asked(c) /\ 2 * r.to <= start[c] + 2
                 /\ r.id # r.to => said[c][r.to].text = "wide chunks"
      <4>1. /\ replies[c][i].to \in Asked(c) /\ 2 * replies[c][i].to <= start[c]
            /\ replies[c][i].id # replies[c][i].to =>
                 said[c][replies[c][i].to].text = "wide chunks"
        BY <1>9 DEF SessionOK, RepliesOK
      <4>2. replies[c][i].to \in Nat
        BY <4>1, AskedType
      <4>3. \A x, s \in Nat : 2 * x <= s => 2 * x <= s + 2
        OBVIOUS
      <4> QED
        BY <1>3, <4>1, <4>2, <4>3
    <3>3. ASSUME NEW k \in Asked(c), 2 * k <= start[c] + 2
          PROVE  k \in Replied(c)
      <4>1. k \in Nat /\ k # n
        BY <2>1, AskedType
      <4>2. 2 * k <= start[c]
        BY <1>3, <3>3, <4>1
      <4> QED
        BY <1>1, <1>9, <4>2 DEF SessionOK, RepliesOK
    <3> QED
      BY <1>1, <1>6, <3>1, <3>2, <3>3 DEF RepliesOK
  <2> QED
    BY <1>5, <1>7, <2>2, <2>3, <2>4 DEF SessionOK
<1>11. CASE HandOver(c, n, tears) /\ pc[c] = "receive" /\ said[c][n].kind # "blank"
  <2>1. PICK text \in Decoded(c, n, tears) :
          hand' = [hand EXCEPT ![c] = [first |-> Kept(c) + 1, last |-> 2 * n, text |-> text]]
    BY <1>11 DEF HandOver
  <2>2. /\ hand'[c].first = start[c] + 1 /\ hand'[c].last = start[c] + 2
        /\ hand'[c].text = text /\ pc'[c] = "handle" /\ idle'[c] = 0
    BY <1>3, <1>11, <2>1 DEF HandOver, Goto, TypeOK, Kept
  <2>3. /\ text # "intact" => said[c][n].text # "plain"
        /\ text = "broken" => said[c][n].text = "wide chunks"
    BY <2>1, TornStays DEF Decoded, SessionOK
  <2>4. n \in Asked(c)
    <3>1. said[c][n] \in Message
      BY <1>3 DEF TypeOK
    <3>2. said[c][n].kind \notin Hellos
      BY <1>3, <1>8, <1>11 DEF SessionOK, KindsOK
    <3> QED
      BY <1>3, <1>11, <3>1, <3>2 DEF Message, Asked, IsRequest
  <2>5. ThreadOK(c)'
    <3>1. IdleOK(c)'
      BY <2>2, ClientsAssumption DEF IdleOK
    <3>2. start'[c] >= 2
      BY <1>3, <1>4
    <3> QED
      BY <1>1, <1>4, <2>2, <3>1, <3>2 DEF ThreadOK, LinkOK, FreshOK
  <2>6. HandOK(c)'
    <3>1. hand'[c].last \div 2 = n
      BY <1>3, <2>2
    <3>2. hand'[c].last = start'[c] /\ hand'[c].last = hand'[c].first + 1
      BY <1>3, <1>4, <2>2
    <3> QED
      BY <1>1, <1>6, <2>2, <2>3, <2>4, <3>1, <3>2 DEF HandOK
  <2>7. RepliesOK(c)'
    <3>1. Done(c)' = Done(c)
      BY <1>3, <1>4, <1>9, <2>2 DEF Done
    <3> QED
      BY <1>1, <1>6, <2>2, <3>1 DEF SessionOK, RepliesOK
  <2> QED
    BY <1>5, <1>7, <2>5, <2>6, <2>7 DEF SessionOK
<1> QED
  BY <1>1, <1>10, <1>11, <1>8 DEF Dispatch

-----------------------------------------------------------------------------
(* The contexts, and the invariant.                                        *)

\* A context is stored when its thread gets it and removed when the thread ends;
\* no other step touches the table or a thread that owns one of its entries.
LEMMA ContextsKept ==
  ASSUME TypeOK, ContextsOwned, NEW c \in Clients, ThreadOK(c), Step(c)
  PROVE  ContextsOwned'
<1>1. \A d \in Clients \ {c} : /\ context'[d] = context[d] /\ pc'[d] = pc[d]
                               /\ addr'[d] = addr[d]
  BY Others DEF Same
<1>2. CASE Admit(c)
  <2>1. /\ contexts' = [contexts EXCEPT ![addr[c]] = c]
        /\ context'[c] = TRUE /\ pc'[c] \in {"greet", "cleanup"}
        /\ addr'[c] = addr[c]
    BY <1>2, ClientsAssumption DEF Admit, Goto, TypeOK, session
  <2>2. addr[c] \in Addresses => contexts'[addr[c]] = c
    BY <2>1 DEF TypeOK
  <2>3. ASSUME NEW a \in Addresses, a # addr[c], contexts'[a] # None
        PROVE  contexts'[a] = contexts[a] /\ contexts[a] # c /\ contexts[a] \in Clients
    <3>1. contexts'[a] = contexts[a] /\ contexts[a] \in Clients
      BY <2>1, <2>3 DEF TypeOK
    <3>2. contexts[a] # c
      BY <2>3, <3>1 DEF ContextsOwned
    <3> QED
      BY <3>1, <3>2
  <2>4. ASSUME NEW a \in Addresses, contexts'[a] # None
        PROVE  /\ addr'[contexts'[a]] = a /\ context'[contexts'[a]]
               /\ pc'[contexts'[a]] \notin {"none", "context"}
    <3>1. CASE a = addr[c]
      BY <2>1, <2>2, <3>1
    <3>2. CASE a # addr[c]
      BY <1>1, <2>3, <2>4, <3>2 DEF ContextsOwned
    <3> QED
      BY <3>1, <3>2
  <2> QED
    BY <2>4 DEF ContextsOwned
<1>3. CASE Cleanup(c)
  <2>1. /\ contexts' = Removed(c) /\ context'[c] = FALSE
    BY <1>3, ClientsAssumption DEF Cleanup, TypeOK
  <2>2. ASSUME NEW a \in Addresses, contexts'[a] # None
        PROVE  contexts'[a] = contexts[a] /\ contexts[a] # c
    <3>1. CASE context[c]
      <4>1. contexts' = [contexts EXCEPT ![addr[c]] = None]
        BY <2>1, <3>1 DEF Removed
      <4>2. a # addr[c] /\ contexts'[a] = contexts[a]
        BY <2>1, <2>2, <4>1 DEF TypeOK
      <4> QED
        BY <2>2, <4>2 DEF ContextsOwned
    <3>2. CASE ~context[c]
      BY <2>1, <2>2, <3>2 DEF Removed, ContextsOwned
    <3> QED
      BY <3>1, <3>2
  <2>3. \A a \in Addresses : contexts[a] \in Clients \cup {None}
    BY DEF TypeOK
  <2> QED
    BY <1>1, <2>2, <2>3 DEF ContextsOwned
<1>4. CASE ~Admit(c) /\ ~Cleanup(c)
  <2>1. contexts' = contexts /\ context' = context
    BY <1>4 DEF Step, Client, Connect, Say, Leave, Accept, Handshake, HandshakeDone,
                HandshakeFails, Thread, Begin, Denied, Greet, Serve, Receive, Closed,
                Handle, SendFails
  <2>2. context[c] /\ pc[c] \notin {"none", "context"} =>
          pc'[c] \notin {"none", "context"} /\ addr'[c] = addr[c]
    <3>1. CASE Client(c) \/ Accept(c) \/ Handshake(c)
      BY <3>1 DEF Client, Connect, Say, Leave, Accept, Handshake, HandshakeDone,
                  HandshakeFails, Goto, ThreadOK, LinkOK, TypeOK, session
    <3>2. CASE Denied(c) \/ Greet(c) \/ Closed(c) \/ Handle(c) \/ SendFails(c)
      BY <3>2 DEF Denied, Greet, Closed, Handle, SendFails, Goto, TypeOK, session
    <3>3. CASE Receive(c)
      <4>1. PICK upto, tears : Recv(c, upto, tears)
        BY <3>3 DEF Receive, Recv
      <4>2. addr' = addr
        BY <3>3 DEF Receive
      <4>3. CASE Hello(c, FirstEnd(c) \div 2)
        BY <4>2, <4>3 DEF Hello, Goto, TypeOK
      <4>4. CASE Blank(c)
        BY <4>2, <4>4 DEF Blank, Goto, TypeOK
      <4>5. CASE HandOver(c, FirstEnd(c) \div 2, tears)
        BY <4>2, <4>5 DEF HandOver, Goto, TypeOK
      <4> QED
        BY <4>1, <4>2, <4>3, <4>4, <4>5 DEF Recv, Dispatch
    <3> QED
      BY <1>4, <3>1, <3>2, <3>3 DEF Step, Thread, Begin, Serve
  <2>3. ASSUME NEW a \in Addresses, contexts'[a] # None
        PROVE  /\ addr'[contexts'[a]] = a /\ context'[contexts'[a]]
               /\ pc'[contexts'[a]] \notin {"none", "context"}
    <3>1. contexts'[a] = contexts[a] /\ contexts[a] \in Clients
      BY <2>1, <2>3 DEF TypeOK
    <3>2. /\ addr[contexts[a]] = a /\ context[contexts[a]]
          /\ pc[contexts[a]] \notin {"none", "context"}
      BY <2>1, <2>3 DEF ContextsOwned
    <3>3. CASE contexts[a] = c
      BY <2>1, <2>2, <3>1, <3>2, <3>3
    <3>4. CASE contexts[a] # c
      BY <1>1, <2>1, <3>1, <3>2, <3>4
    <3> QED
      BY <3>3, <3>4
  <2> QED
    BY <2>3 DEF ContextsOwned
<1> QED
  BY <1>2, <1>3, <1>4

\* A step of a connection keeps what the invariant says of it.
LEMMA OwnStep ==
  ASSUME TypeOK, NEW c \in Clients, ThreadOK(c), SessionOK(c), Step(c)
  PROVE  TypeOK' /\ ThreadOK(c)' /\ SessionOK(c)'
<1>1. CASE \/ Connect(c) \/ Leave(c) \/ Accept(c) \/ Handshake(c) \/ Begin(c)
  BY <1>1, OutsideTypes, QuietSteps
<1>2. CASE Say(c)
  BY <1>2, SayTypes, SayKeeps
<1>3. CASE Receive(c)
  <2>1. PICK upto, tears : Recv(c, upto, tears)
    BY <1>3 DEF Receive, Recv
  <2> QED
    BY <1>3, <2>1, ReceiveTypes, ReceivePart, ReceiveWhole DEF ThreadOK
<1>4. CASE Closed(c) \/ SendFails(c)
  BY <1>4, ServedTypes, QuietSteps
<1>5. CASE Handle(c)
  BY <1>5, ServedTypes, HandleKeeps
<1>6. CASE Cleanup(c)
  BY <1>6, ServedTypes, CleanupKeeps
<1> QED
  BY <1>1, <1>2, <1>3, <1>4, <1>5, <1>6 DEF Step, Client, Thread, Serve

\* The server starts with every slot free.
LEMMA Initially == Init => IInv
<1> SUFFICES ASSUME Init PROVE IInv
  OBVIOUS
<1>1. Len(<<>>) = 0 /\ 1..0 = {}
  OBVIOUS
<1>2. TypeOK
  <2>1. <<>> \in Seq(Message) /\ <<>> \in Seq(Reply)
    OBVIOUS
  <2> QED
    BY <1>1, <2>1, ClientsAssumption DEF Init, TypeOK, NoHand
<1>3. ContextsOwned
  BY DEF Init, ContextsOwned
<1>4. ASSUME NEW c \in Clients
      PROVE  ThreadOK(c) /\ SessionOK(c)
  <2>1. /\ pc[c] = "none" /\ link[c] = "away" /\ said[c] = <<>> /\ start[c] = 0
        /\ taken[c] = 0 /\ torn[c] = {} /\ idle[c] = 0 /\ replies[c] = <<>>
        /\ context[c] = FALSE /\ acceptor # c
    BY ClientsAssumption DEF Init
  <2>2. ThreadOK(c)
    BY <2>1, ClientsAssumption DEF ThreadOK, IdleOK, LinkOK, FreshOK
  <2>3. KindsOK(c) /\ WaitOK(c) /\ HandOK(c)
    BY <1>1, <2>1 DEF KindsOK, WaitOK, HandOK
  <2>4. Asked(c) = {}
    BY <1>1, <2>1 DEF Asked
  <2>5. RepliesOK(c)
    BY <1>1, <2>1, <2>4 DEF RepliesOK
  <2> QED
    BY <2>2, <2>3, <2>5 DEF SessionOK
<1> QED
  BY <1>2, <1>3, <1>4 DEF IInv

\* The invariant is inductive.
LEMMA InvStep == IInv /\ [Next]_vars => IInv'
<1> SUFFICES ASSUME IInv, [Next]_vars PROVE IInv'
  OBVIOUS
<1>1. ASSUME NEW c \in Clients, Step(c)
      PROVE  IInv'
  <2>1. TypeOK' /\ ThreadOK(c)' /\ SessionOK(c)'
    BY <1>1, OwnStep DEF IInv
  <2>2. ContextsOwned'
    BY <1>1, ContextsKept DEF IInv
  <2>3. ASSUME NEW d \in Clients, d # c
        PROVE  ThreadOK(d)' /\ SessionOK(d)'
    BY <1>1, <2>3, Others, Frame DEF IInv
  <2> QED
    BY <2>1, <2>2, <2>3 DEF IInv
<1>2. CASE UNCHANGED vars
  <2>1. TypeOK' /\ ContextsOwned'
    BY <1>2 DEF IInv, vars, session, stream, TypeOK, ContextsOwned
  <2>2. ASSUME NEW d \in Clients
        PROVE  ThreadOK(d)' /\ SessionOK(d)'
    <3>1. Asked(d)' = Asked(d) /\ Replied(d)' = Replied(d) /\ Done(d)' = Done(d)
      BY <1>2 DEF vars, session, stream, Asked, IsRequest, Replied, Done
    <3>2. ThreadOK(d)' /\ KindsOK(d)' /\ WaitOK(d)'
      BY <1>2 DEF IInv, vars, session, stream, ThreadOK, IdleOK, LinkOK, FreshOK, SessionOK,
                  KindsOK, WaitOK
    <3>3. HandOK(d)' /\ RepliesOK(d)'
      BY <1>2, <3>1 DEF IInv, vars, session, stream, SessionOK, HandOK, RepliesOK
    <3> QED
      BY <3>2, <3>3 DEF SessionOK
  <2> QED
    BY <2>1, <2>2 DEF IInv
<1> QED
  BY <1>1, <1>2 DEF Next, Step

-----------------------------------------------------------------------------
(* The theorems.                                                           *)

\* The strengthened invariant holds in every state.
THEOREM Invariant == Spec => []IInv
BY Initially, InvStep, PTL DEF Spec

\* The type invariant: the buffer begins at a message and ends in what was sent.
THEOREM TypeCorrect == Spec => []TypeOK
<1>1. IInv => TypeOK
  BY DEF IInv
<1> QED
  BY <1>1, Invariant, PTL

\* create_session and remove_session: no context outlives its thread.
THEOREM ContextsAlwaysOwned == Spec => []ContextsOwned
<1>1. IInv => ContextsOwned
  BY DEF IInv
<1> QED
  BY <1>1, Invariant, PTL

\* receive_message and handle_rpc: what is handled is one message, as it was
\* sent but for wide characters, and its reply has its id unless it came apart.
THEOREM AlwaysHandledAsSent == Spec => []HandledAsSent
<1>1. IInv => HandledAsSent
  BY DEF IInv, SessionOK, HandOK, RepliesOK, HandledAsSent
<1> QED
  BY <1>1, Invariant, PTL

\* receive_message looks at the buffer only after a recv: that strands no request
\* whose client waited for the reply before it.
THEOREM WaitingAlwaysHelps == Spec => []WaitingHelps
<1>1. ASSUME IInv, NEW c \in Clients, Stranded(c)
      PROVE  ~said[c][FirstEnd(c) \div 2].waited
  <2>1. TypeOK /\ start[c] % 2 = 0 /\ WaitOK(c)
    BY <1>1 DEF IInv, ThreadOK, FreshOK, SessionOK
  <2>2. FirstEnd(c) = start[c] + 2 /\ start[c] \in Nat /\ taken[c] \in Nat
    BY <2>1, EndType, ConnTypes
  <2>3. taken[c] <= 2 * Len(said[c]) /\ Len(said[c]) \in Nat /\ FirstEnd(c) <= taken[c]
    BY <1>1, <2>1, ConnTypes DEF Stranded
  <2>4. \A x \in Nat : x % 2 = 0 => /\ 2 * ((x + 2) \div 2) = x + 2
                                    /\ (x + 2) \div 2 \in Nat
                                    /\ (x + 2) \div 2 >= 1
    OBVIOUS
  <2> DEFINE n == FirstEnd(c) \div 2
  <2>5. 2 * n = start[c] + 2 /\ n \in Nat /\ n >= 1
    BY <2>1, <2>2, <2>4
  <2> HIDE DEF n
  <2>6. n \in 1..Len(said[c]) /\ ~(taken[c] < 2 * n)
    BY <2>2, <2>3, <2>5
  <2>7. ~said[c][n].waited
    BY <2>1, <2>5, <2>6 DEF WaitOK
  <2> QED
    BY <2>7 DEF n
<1>2. IInv => WaitingHelps
  BY <1>1 DEF WaitingHelps
<1> QED
  BY <1>2, Invariant, PTL

-----------------------------------------------------------------------------
(* Every connection implements RpcExchange.                                *)

\* What an Exchange knows of a connection whose messages and replies stay.
LEMMA NoExchange ==
  ASSUME NEW c \in Clients, said'[c] = said[c], replies'[c] = replies[c]
  PROVE  ExchangeStep(c)
<1>1. Asked(c)' = Asked(c)
  BY DEF Asked, IsRequest
<1>2. Answered(c)' = Answered(c)
  BY DEF Answered
<1> QED
  BY <1>1, <1>2 DEF ExchangeStep, Exchange!vars

\* The requests an Exchange calls open are the pending ones.
LEMMA OpenIsPending ==
  ASSUME NEW c \in Clients, Len(replies[c]) \in Nat
  PROVE  Exchange(c)!Open = Pending(c)
<1>1. DOMAIN Answered(c) = 1..Len(replies[c])
  BY DEF Answered
<1>2. {Answered(c)[i] : i \in DOMAIN Answered(c)} = Replied(c)
  BY <1>1 DEF Answered, Replied
<1> QED
  BY <1>2 DEF Exchange!Open, Pending

\* A client that speaks asks for one thing more, or, with a hello or an empty
\* message, for nothing.
LEMMA SayAsks ==
  ASSUME TypeOK, NEW c \in Clients, Say(c)
  PROVE  ExchangeStep(c)
<1>1. replies' = replies
  BY DEF Say
<1>2. PICK m \in Message :
        /\ MaySay(c, m)
        /\ Len(said'[c]) = Len(said[c]) + 1
        /\ said'[c][Len(said[c]) + 1] = m
        /\ \A n \in 1..Len(said[c]) : said'[c][n] = said[c][n]
  BY SaidMore
<1>3. /\ Len(said[c]) \in Nat
      /\ 1..Len(said'[c]) = 1..Len(said[c]) \cup {Len(said[c]) + 1}
      /\ Len(said[c]) + 1 \notin 1..Len(said[c])
  BY <1>2, ConnTypes
<1>4. \A n \in 1..Len(said[c]) : IsRequest(c, n)' <=> IsRequest(c, n)
  BY <1>2 DEF IsRequest
<1>5. Answered(c)' = Answered(c)
  BY <1>1 DEF Answered
<1>6. CASE m.kind \in Requests
  <2>1. Asked(c)' = Asked(c) \cup {Len(said[c]) + 1}
    BY <1>2, <1>3, <1>4, <1>6 DEF Asked, IsRequest
  <2>2. Len(said[c]) + 1 \notin Asked(c)
    BY <1>3 DEF Asked
  <2>3. \A k \in Asked(c) : k < Len(said[c]) + 1
    BY <1>3 DEF Asked
  <2>4. Exchange(c)!Ask
    BY <1>5, <2>1, <2>2, <2>3 DEF Exchange!Ask
  <2> QED
    BY <2>4 DEF ExchangeStep, Exchange!Next
<1>7. CASE m.kind \notin Requests
  <2>1. Asked(c)' = Asked(c)
    BY <1>2, <1>3, <1>4, <1>7 DEF Asked, IsRequest
  <2> QED
    BY <1>5, <2>1 DEF ExchangeStep, Exchange!vars
<1> QED
  BY <1>6, <1>7

\* The message handed over is the oldest request without a reply: what stands
\* before it is done with, and what is done with has been answered.
LEMMA HandleAnswers ==
  ASSUME TypeOK, NEW c \in Clients, ThreadOK(c), SessionOK(c), Handle(c)
  PROVE  ExchangeStep(c)
<1> DEFINE n == hand[c].last \div 2
<1>1. pc[c] = "handle" /\ said' = said
  BY DEF Handle
<1>2. hand[c].last = start[c] /\ n \in Asked(c)
  BY <1>1 DEF SessionOK, HandOK
<1>3. 2 * n = start[c] /\ n \in Nat /\ start[c] \in Nat /\ start[c] >= 2
  <2>1. start[c] % 2 = 0 /\ start[c] \in Nat /\ start[c] >= 2
    BY <1>1, ConnTypes DEF ThreadOK, FreshOK
  <2>2. \A x \in Nat : x % 2 = 0 => 2 * (x \div 2) = x /\ x \div 2 \in Nat
    OBVIOUS
  <2> QED
    BY <1>2, <2>1, <2>2
<1>4. Asked(c)' = Asked(c) /\ Done(c) = start[c] - 2
  BY <1>1 DEF Asked, IsRequest, Done
<1>5. ReplyTo(c).to = n
  BY DEF ReplyTo
<1> HIDE DEF n
<1>6. n \notin Replied(c)
  <2>1. ASSUME NEW i \in 1..Len(replies[c])
        PROVE  replies[c][i].to # n
    <3>1. replies[c][i].to \in Asked(c) /\ 2 * replies[c][i].to <= start[c] - 2
      BY <1>4 DEF SessionOK, RepliesOK
    <3>2. replies[c][i].to \in Nat
      BY <3>1, AskedType
    <3>3. \A x, s \in Nat : 2 * x <= s - 2 => 2 * x # s
      OBVIOUS
    <3> QED
      BY <1>3, <3>1, <3>2, <3>3
  <2> QED
    BY <2>1 DEF Replied
<1>7. \A k \in Pending(c) : n <= k
  <2>1. ASSUME NEW k \in Pending(c)
        PROVE  n <= k
    <3>1. k \in Asked(c) /\ k \notin Replied(c) /\ k \in Nat
      BY AskedType DEF Pending
    <3>2. ~(2 * k <= start[c] - 2)
      BY <1>1, <1>4, <3>1 DEF SessionOK, RepliesOK
    <3>3. \A x, y, s \in Nat : ~(2 * x <= s - 2) /\ 2 * y = s => y <= x
      OBVIOUS
    <3> QED
      BY <1>3, <3>1, <3>2, <3>3
  <2> QED
    BY <2>1
<1>8. Answered(c)' = Append(Answered(c), n)
  <2>1. /\ Len(replies[c]) \in Nat
        /\ Len(replies'[c]) = Len(replies[c]) + 1
        /\ replies'[c][Len(replies[c]) + 1] = ReplyTo(c)
        /\ \A i \in 1..Len(replies[c]) : replies'[c][i] = replies[c][i]
    BY Answers, ConnTypes
  <2> QED
    BY <1>5, <2>1 DEF Answered
<1>9. Exchange(c)!Answer
  <2>1. n \in Pending(c)
    BY <1>2, <1>6 DEF Pending, n
  <2>2. Exchange(c)!Open = Pending(c)
    BY OpenIsPending, ConnTypes
  <2> QED
    BY <1>4, <1>7, <1>8, <2>1, <2>2 DEF Exchange!Answer
<1> QED
  BY <1>9 DEF ExchangeStep, Exchange!Next

\* The slot is emptied: the exchange is over.
LEMMA CleanupEnds ==
  ASSUME TypeOK, NEW c \in Clients, Cleanup(c)
  PROVE  ExchangeStep(c)
<1>1. said'[c] = <<>> /\ replies'[c] = <<>>
  BY DEF Cleanup, TypeOK
<1>2. Asked(c)' = {} /\ Answered(c)' = <<>>
  BY <1>1 DEF Asked, Answered
<1> QED
  BY <1>2 DEF ExchangeStep, Exchange!Next, Exchange!End

\* Every step of a connection is one of its Exchange, or none.
LEMMA OwnExchange ==
  ASSUME TypeOK, NEW c \in Clients, ThreadOK(c), SessionOK(c), Step(c)
  PROVE  ExchangeStep(c)
<1>1. CASE Say(c) \/ Handle(c) \/ Cleanup(c)
  BY <1>1, SayAsks, HandleAnswers, CleanupEnds
<1>2. CASE ~(Say(c) \/ Handle(c) \/ Cleanup(c))
  <2>1. UNCHANGED <<said, replies>>
    BY <1>2 DEF Step, Client, Connect, Leave, Accept, Handshake, HandshakeDone,
                HandshakeFails, Thread, Begin, Denied, Admit, Greet, Serve, Receive,
                Closed, SendFails, session, stream
  <2> QED
    BY <2>1, NoExchange
<1> QED
  BY <1>1, <1>2

\* receive_message, handle_rpc and send_response: the requests of a connection
\* are answered one at a time, in the order they were made, none passed over.
THEOREM AlwaysOrdered == Spec => Ordered
<1>1. Init => ExchangesStart
  <2> SUFFICES ASSUME Init, NEW c \in Clients PROVE Exchange(c)!Init
    BY DEF ExchangesStart
  <2>1. said[c] = <<>> /\ replies[c] = <<>>
    BY DEF Init
  <2>2. Asked(c) = {} /\ Answered(c) = <<>>
    BY <2>1 DEF Asked, Answered
  <2> QED
    BY <2>2 DEF Exchange!Init
<1>2. IInv /\ [Next]_vars => [ExchangesStep]_vars
  <2> SUFFICES ASSUME IInv, Next PROVE ExchangesStep
    OBVIOUS
  <2>1. PICK c \in Clients : Step(c)
    BY DEF Next, Step
  <2>2. ExchangeStep(c)
    BY <2>1, OwnExchange DEF IInv
  <2>3. ASSUME NEW d \in Clients, d # c
        PROVE  ExchangeStep(d)
    BY <2>1, <2>3, Others, NoExchange DEF IInv, Same
  <2> QED
    BY <2>2, <2>3 DEF ExchangesStep
<1> QED
  BY <1>1, <1>2, Invariant, PTL DEF Spec, Ordered
=============================================================================
