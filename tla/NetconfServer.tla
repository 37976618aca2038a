--------------------------- MODULE NetconfServer ---------------------------
(***************************************************************************)
(* The NETCONF-over-TLS front end of the Secure Framework                  *)
(* (netconf/netconfserver.py, netconf/netconf_session.py): one thread      *)
(* accepts connections and does the TLS handshakes, one thread per         *)
(* connection runs the session, and the session manager keeps a context    *)
(* per peer address.                                                       *)
(*                                                                         *)
(* A message is abstracted to its kind and to whether its text has         *)
(* characters of more than one byte.  On the wire it is two pieces: piece  *)
(* 2n - 1 opens message n and piece 2n carries its end marker.  A recv     *)
(* returns any number of the pieces sent; the receive buffer is the run of *)
(* pieces start + 1 .. taken.                                              *)
(***************************************************************************)
EXTENDS Naturals, Sequences

CONSTANTS
  Clients,     \* slots for connections; a slot is used again when it is free
  Addresses,   \* peer addresses (host and port)
  From,        \* the addresses a slot may connect from; slots may share one
  Vocabulary,  \* bound: the messages a client may say
  Quota,       \* bound: how many it says on one connection
  MaxIdle,     \* max_idle
  None

VARIABLES
  link,       \* the connection as the kernel of the server sees it
  addr,       \* client_addr: the address it comes from
  pc,         \* where the thread of the connection is
  said,       \* messages the client has sent, in order
  taken,      \* pieces the session has read from the socket
  start,      \* pieces already split off the front of the buffer
  torn,       \* messages that lost a character at the edge of a recv
  chunked,    \* use_chunked: base:1.1 was negotiated
  idle,       \* idle_count
  hand,       \* the message being handled
  replies,    \* replies the client has been sent, in order
  context,    \* session_context of the thread is set
  contexts,   \* SessionContextManager._sessions: whose context is stored
  acceptor    \* the connection the accept thread is shaking hands with

stream == <<said, taken, start, torn, chunked, idle, hand, replies>>
session == <<addr, stream>>
vars == <<link, pc, session, context, contexts, acceptor>>

\* An operation other than close-session is one kind: get, get-config,
\* get-schema, edit-config, lock, unlock, commit and any unknown one get one
\* reply each, data, ok or error, and none changes the session.
Hellos   == {"hello10", "hello11"}
Requests == {"operation", "close-session"}
Texts    == {"plain", "wide", "wide chunks"}
Message  == [kind : Hellos \cup Requests \cup {"blank"}, text : Texts,
             waited : BOOLEAN]
Reply    == [to : Nat, id : Nat]

ASSUME ClientsAssumption ==
  /\ From \in [Clients -> SUBSET Addresses]
  /\ Vocabulary \in [Clients -> SUBSET Message]
  /\ Quota \in [Clients -> Nat]
  /\ MaxIdle \in Nat \ {0}
  /\ None \notin Clients

NoHand  == [first |-> 0, last |-> 0, text |-> "intact"]

Init ==
  /\ link = [c \in Clients |-> "away"]
  /\ addr = [c \in Clients |-> None]
  /\ pc = [c \in Clients |-> "none"]
  /\ said = [c \in Clients |-> <<>>]
  /\ taken = [c \in Clients |-> 0]
  /\ start = [c \in Clients |-> 0]
  /\ torn = [c \in Clients |-> {}]
  /\ chunked = [c \in Clients |-> FALSE]
  /\ idle = [c \in Clients |-> 0]
  /\ hand = [c \in Clients |-> NoHand]
  /\ replies = [c \in Clients |-> <<>>]
  /\ context = [c \in Clients |-> FALSE]
  /\ contexts = [a \in Addresses |-> None]
  /\ acceptor = None

Goto(c, where) == pc' = [pc EXCEPT ![c] = where]

-----------------------------------------------------------------------------
(* The clients and the network.                                            *)

\* The requests among the messages of a connection, by their place.
IsRequest(c, n) == said[c][n].kind \in Requests
Asked(c) == {n \in 1..Len(said[c]) : IsRequest(c, n)}

Answered(c) == [i \in 1..Len(replies[c]) |-> replies[c][i].to]
Replied(c) == {replies[c][i].to : i \in 1..Len(replies[c])}
Pending(c) == Asked(c) \ Replied(c)

\* A new connection, from an address that is free: no other connection of that
\* address is up.  One that was reset is gone for the kernel even while its
\* thread is still running.
Connect(c) ==
  /\ link[c] = "away" /\ pc[c] = "none"
  /\ \E a \in From[c] :
        /\ \A d \in Clients \ {c} : addr[d] = a => link[d] \in {"away", "reset"}
        /\ addr' = [addr EXCEPT ![c] = a]
  /\ link' = [link EXCEPT ![c] = "backlog"]
  /\ UNCHANGED <<pc, stream, context, contexts, acceptor>>

\* A client speaks of its own accord, or waits for the reply to its last
\* request before it asks again.
Waits(c) ==
  /\ said[c] # <<>> /\ IsRequest(c, Len(said[c]))
  /\ Pending(c) = {}

MaySay(c, m) ==
  /\ m.waited => Waits(c)
  /\ IF said[c] = <<>> THEN m.kind \notin Requests
     ELSE /\ m.kind \notin Hellos
          /\ pc[c] \notin {"context", "greet"}
          /\ said[c][Len(said[c])].kind # "close-session"

Say(c) ==
  /\ link[c] = "open" /\ Len(said[c]) < Quota[c]
  /\ \E m \in Vocabulary[c] :
        /\ MaySay(c, m)
        /\ said' = [said EXCEPT ![c] = Append(@, m)]
  /\ UNCHANGED <<link, pc, addr, taken, start, torn, chunked, idle, hand,
                 replies, context, contexts, acceptor>>

\* The client closes its side (what it sent can still be read), or the
\* connection is reset (it cannot).
Leave(c) ==
  /\ link[c] = "open"
  /\ \E how \in {"eof", "reset"} : link' = [link EXCEPT ![c] = how]
  /\ UNCHANGED <<pc, session, context, contexts, acceptor>>

-----------------------------------------------------------------------------
(* The accept thread: start().                                             *)

\* Mutant: a server that serves one session at a time.
AcceptWhenIdle(c) ==
  /\ acceptor = None /\ link[c] = "backlog"
  /\ \A d \in Clients : pc[d] = "none"
  /\ acceptor' = c
  /\ link' = [link EXCEPT ![c] = "shaking"]
  /\ UNCHANGED <<pc, session, context, contexts>>

\* sock.accept() and the handshake that follows it in the same thread.
Accept(c) ==
  /\ acceptor = None /\ link[c] = "backlog"
  /\ acceptor' = c
  /\ link' = [link EXCEPT ![c] = "shaking"]
  /\ UNCHANGED <<pc, session, context, contexts>>

HandshakeDone(c) ==
  /\ acceptor = c
  /\ acceptor' = None
  /\ link' = [link EXCEPT ![c] = "open"]
  /\ Goto(c, "context")
  /\ UNCHANGED <<session, context, contexts>>

HandshakeFails(c) ==
  /\ acceptor = c
  /\ acceptor' = None
  /\ link' = [link EXCEPT ![c] = "away"]
  /\ addr' = [addr EXCEPT ![c] = None]
  /\ UNCHANGED <<pc, stream, context, contexts>>

-----------------------------------------------------------------------------
(* The thread of a connection: handle_client() and NetconfSession.run().   *)

\* create_session refuses a certificate without a trusted organisation.
Denied(c) ==
  /\ pc[c] = "context"
  /\ Goto(c, "cleanup")
  /\ UNCHANGED <<link, session, context, contexts, acceptor>>

\* create_session stores the context; without a gNMI client for the role and
\* without the shared adapter the thread returns at once.
Admit(c) ==
  /\ pc[c] = "context"
  /\ context' = [context EXCEPT ![c] = TRUE]
  /\ contexts' = [contexts EXCEPT ![addr[c]] = c]
  /\ \E adapter \in BOOLEAN : Goto(c, IF adapter THEN "greet" ELSE "cleanup")
  /\ UNCHANGED <<link, session, acceptor>>

\* send_hello; an exception of sendall leaves run.
Greet(c) ==
  /\ pc[c] = "greet"
  /\ \/ link[c] # "reset" /\ Goto(c, "hello")
     \/ link[c] # "open" /\ Goto(c, "cleanup")
  /\ UNCHANGED <<link, session, context, contexts, acceptor>>

\* The first message that is complete once pieces up to upto have been read:
\* split(marker, 1) hands over what stands before its end marker.
\* Mutants: data replaces what was in the buffer; the end marker counts when
\* its first character is there; a message has to come in one recv; what
\* follows the message in the buffer is dropped.
KeptNone(c) == taken[c]
Kept(c) == start[c]
FirstEnd(c) == 2 * (Kept(c) \div 2 + 1)
CompleteEarly(c, upto) == FirstEnd(c) <= upto + 1
CompleteAtOnce(c, upto) == start[c] = taken[c] /\ FirstEnd(c) <= upto
Complete(c, upto) == FirstEnd(c) <= upto
RestDropped(c, upto) == upto
Rest(c, upto) == FirstEnd(c)

\* data.decode(errors='ignore') drops a character that a recv cuts in two:
\* the message a recv ends in the middle of may lose one if it is wide.
MayTear(c, upto) ==
  {n \in 1..Len(said[c]) : 2 * n - 1 = upto /\ said[c][n].text # "plain"}

\* The text of message n after unframing.  A chunk size counts bytes and is
\* used to slice characters: with one chunk the slice ends with the message,
\* with several it runs into the next chunk header.
Decoded(c, n, tears) ==
  IF chunked[c] /\ said[c][n].text = "wide chunks" THEN {"altered", "broken"}
  ELSE IF n \in tears THEN {"altered"} ELSE {"intact"}

\* What run does with a message: the hello sets the framing, an empty
\* message counts as an idle interval, anything else is handled.
Hello(c, n) ==
  /\ Goto(c, IF said[c][n].kind = "blank" THEN "cleanup" ELSE "receive")
  /\ chunked' = [chunked EXCEPT ![c] = said[c][n].kind = "hello11"]
  /\ UNCHANGED <<idle, hand>>

Blank(c) ==
  /\ idle' = [idle EXCEPT ![c] = @ + 1]
  /\ Goto(c, IF idle[c] + 1 >= MaxIdle THEN "cleanup" ELSE "receive")
  /\ UNCHANGED <<chunked, hand>>

HandOver(c, n, tears) ==
  /\ idle' = [idle EXCEPT ![c] = 0]
  /\ \E text \in Decoded(c, n, tears) :
        hand' = [hand EXCEPT ![c] = [first |-> Kept(c) + 1,
                                     last |-> 2 * n, text |-> text]]
  /\ Goto(c, "handle")
  /\ UNCHANGED chunked

Dispatch(c, n, tears) ==
  IF pc[c] = "hello" THEN Hello(c, n)
  ELSE IF said[c][n].kind = "blank" THEN Blank(c)
  ELSE HandOver(c, n, tears)

\* One recv that returns data, and the framing that follows it.  The buffer is
\* looked at only after a recv: a message already complete in the buffer waits
\* for the next one.
Receive(c) ==
  /\ pc[c] \in {"hello", "receive"} /\ link[c] \in {"open", "eof"}
  /\ \E upto \in (taken[c] + 1)..(2 * Len(said[c])) :
     \E tears \in {torn[c], torn[c] \cup MayTear(c, upto)} :
        /\ taken' = [taken EXCEPT ![c] = upto]
        /\ torn' = [torn EXCEPT ![c] = tears]
        /\ IF Complete(c, upto)
           THEN /\ start' = [start EXCEPT ![c] = Rest(c, upto)]
                /\ Dispatch(c, FirstEnd(c) \div 2, tears)
           ELSE UNCHANGED <<start, pc, chunked, idle, hand>>
  /\ UNCHANGED <<link, addr, said, replies, context, contexts, acceptor>>

\* Mutant: an end of file is taken for a timeout.
ClosedByReset(c) ==
  /\ pc[c] \in {"hello", "receive"} /\ link[c] \in {"eof", "reset"}
  /\ Goto(c, IF link[c] = "reset" THEN "cleanup" ELSE pc[c])
  /\ UNCHANGED <<link, session, context, contexts, acceptor>>

\* recv returns nothing, or raises: the peer has closed or reset.  A timeout
\* of recv only starts the next one and changes nothing.
Closed(c) ==
  /\ pc[c] \in {"hello", "receive"}
  /\ \/ link[c] = "eof" /\ taken[c] = 2 * Len(said[c])
     \/ link[c] = "reset"
  /\ Goto(c, "cleanup")
  /\ UNCHANGED <<link, session, context, contexts, acceptor>>

\* handle_rpc and send_response.  A message that does not parse is answered
\* with an error under the default message-id; close-session ends the loop
\* after its reply.
ReplyTo(c) ==
  LET n == hand[c].last \div 2 IN
  [to |-> n, id |-> IF hand[c].text = "broken" THEN 0 ELSE n]

Closing(c) == /\ said[c][hand[c].last \div 2].kind = "close-session"
              /\ hand[c].text # "broken"

\* Mutant: a message that does not parse is logged and not answered.
ReplyUnlessBroken(c) == IF hand[c].text = "broken" THEN <<>> ELSE <<ReplyTo(c)>>
RepliesTo(c) == <<ReplyTo(c)>>

Handle(c) ==
  /\ pc[c] = "handle" /\ link[c] # "reset"
  /\ replies' = [replies EXCEPT ![c] = @ \o RepliesTo(c)]
  /\ hand' = [hand EXCEPT ![c] = NoHand]
  /\ Goto(c, IF Closing(c) THEN "cleanup" ELSE "receive")
  /\ UNCHANGED <<link, addr, said, taken, start, torn, chunked, idle, context,
                 contexts, acceptor>>

\* sendall raises (the peer is gone, or reads nothing for the 60 seconds of the
\* socket's timeout): running = False ends the loop.
SendFails(c) ==
  /\ pc[c] = "handle"
  /\ Goto(c, "cleanup")
  /\ UNCHANGED <<link, session, context, contexts, acceptor>>

\* Mutant: the context stays.
RemovedNot(c) == contexts
Removed(c) == IF context[c] THEN [contexts EXCEPT ![addr[c]] = None] ELSE contexts

\* The finally blocks of run and of handle_client.
Cleanup(c) ==
  /\ pc[c] = "cleanup"
  /\ contexts' = Removed(c)
  /\ context' = [context EXCEPT ![c] = FALSE]
  /\ link' = [link EXCEPT ![c] = "away"]
  /\ addr' = [addr EXCEPT ![c] = None]
  /\ Goto(c, "none")
  /\ said' = [said EXCEPT ![c] = <<>>]
  /\ taken' = [taken EXCEPT ![c] = 0]
  /\ start' = [start EXCEPT ![c] = 0]
  /\ torn' = [torn EXCEPT ![c] = {}]
  /\ chunked' = [chunked EXCEPT ![c] = FALSE]
  /\ idle' = [idle EXCEPT ![c] = 0]
  /\ hand' = [hand EXCEPT ![c] = NoHand]
  /\ replies' = [replies EXCEPT ![c] = <<>>]
  /\ UNCHANGED acceptor

-----------------------------------------------------------------------------
Client(c) == Connect(c) \/ Say(c) \/ Leave(c)
Handshake(c) == HandshakeDone(c) \/ HandshakeFails(c)
Begin(c) == Denied(c) \/ Admit(c) \/ Greet(c)
Serve(c) == Receive(c) \/ Closed(c) \/ Handle(c) \/ SendFails(c)
Thread(c) == Begin(c) \/ Serve(c) \/ Cleanup(c)

Next == \E c \in Clients : Client(c) \/ Accept(c) \/ Handshake(c) \/ Thread(c)

Spec == Init /\ [][Next]_vars

\* A thread that can take a step takes one, and accept() takes connections in
\* the order they came.  Nothing is assumed of the clients: a handshake need
\* never end and a message need never be sent.
FairSpec == Spec /\ \A c \in Clients : WF_vars(Thread(c)) /\ SF_vars(Accept(c))

-----------------------------------------------------------------------------
(* Properties.                                                             *)

\* Type invariant.  The buffer begins at a message, what was read was sent,
\* and the thread of a connection that is down is not running.
TypeOK ==
  /\ link \in [Clients -> {"away", "backlog", "shaking", "open", "eof", "reset"}]
  /\ addr \in [Clients -> Addresses \cup {None}]
  /\ pc \in [Clients -> {"none", "context", "greet", "hello", "receive",
                         "handle", "cleanup"}]
  /\ said \in [Clients -> Seq(Message)]
  /\ taken \in [Clients -> Nat] /\ start \in [Clients -> Nat]
  /\ torn \in [Clients -> SUBSET Nat]
  /\ chunked \in [Clients -> BOOLEAN] /\ context \in [Clients -> BOOLEAN]
  /\ idle \in [Clients -> 0..MaxIdle]
  /\ hand \in [Clients -> [first : Nat, last : Nat,
                           text : {"intact", "altered", "broken"}]]
  /\ replies \in [Clients -> Seq(Reply)]
  /\ contexts \in [Addresses -> Clients \cup {None}]
  /\ acceptor \in Clients \cup {None}
  /\ \A c \in Clients : start[c] <= taken[c] /\ taken[c] <= 2 * Len(said[c])

\* What is handled is one whole message, as it was sent unless it had
\* characters of more than one byte: neither the cutting of the stream into
\* recvs nor the messages that share a recv add to it or take from it.  A
\* reply carries the id of its request, unless the request was such a one.
HandledAsSent ==
  \A c \in Clients :
    LET n == hand[c].last \div 2 IN
    /\ pc[c] = "handle" =>
         /\ hand[c].last = hand[c].first + 1
         /\ hand[c].text # "intact" => said[c][n].text # "plain"
    /\ \A i \in 1..Len(replies[c]) :
         replies[c][i].id # replies[c][i].to =>
           said[c][replies[c][i].to].text = "wide chunks"

\* The session manager holds a context only for a connection whose thread
\* still runs and will take it away: none is left behind by a denied client, a
\* missing adapter, a failed hello or a lost peer.
ContextsOwned ==
  \A a \in Addresses :
    contexts[a] # None => /\ addr[contexts[a]] = a
                          /\ context[contexts[a]]
                          /\ pc[contexts[a]] \notin {"none", "context"}

\* A connection is an RpcExchange: whatever the recvs, the errors and the
\* replies, requests are answered one at a time, in order, none passed over.
Exchange(c) == INSTANCE RpcExchange WITH asked <- Asked(c), answers <- Answered(c)
ExchangeStep(c) == Exchange(c)!Next \/ UNCHANGED Exchange(c)!vars
ExchangesStart == \A c \in Clients : Exchange(c)!Init
ExchangesStep == \A c \in Clients : ExchangeStep(c)
Ordered == ExchangesStart /\ [][ExchangesStep]_vars

\* A request is answered, or the session ends, or it is stranded: complete in
\* the buffer behind a message that came with it in one recv, where it stays
\* until the client sends something more.
Stranded(c) == pc[c] = "receive" /\ FirstEnd(c) <= taken[c]
AnsweredInTime ==
  \A c \in Clients : Pending(c) # {} ~> Pending(c) = {} \/ Stranded(c)

\* A request that its client made after the reply to the one before is never
\* stranded: only pipelining is hurt, and a first request right behind a hello.
WaitingHelps ==
  \A c \in Clients : Stranded(c) => ~said[c][FirstEnd(c) \div 2].waited

\* Once the peer is gone the thread comes to its end and frees the socket.
ConnectionsEnd ==
  \A c \in Clients : link[c] \in {"eof", "reset"} ~> link[c] = "away"

\* As long as every handshake ends, a connection that waits is taken, however
\* long the sessions before it stay silent.
AcceptsNext ==
  []<>(acceptor = None) => \A c \in Clients : link[c] = "backlog" ~> link[c] # "backlog"
=============================================================================
