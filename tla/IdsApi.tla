------------------------------- MODULE IdsApi -------------------------------
(***************************************************************************)
(* ids-api.py: one thread follows Suricata's eve.json and fills two rings; *)
(* alerts also go to the queue of every listed /stream client.  Suricata   *)
(* and logrotate, which write, rename and truncate the file, are outside.  *)
(*                                                                         *)
(* A file is a sequence of bytes, two or three for a line, which is one    *)
(* event: a line with a character beyond ASCII has one byte more than it   *)
(* has characters.  What the tail thread adds up are characters, what it   *)
(* seeks with and compares with the size of the file is the same number.   *)
(***************************************************************************)
EXTENDS Integers, Sequences, FiniteSets

CONSTANTS Streams,      \* connections to /stream
          MaxClients,   \* SSE_MAX_CLIENTS
          QueueSize,    \* SSE_QUEUE_SIZE
          RingSize,     \* RING_ALERTS and RING_FLOWS
          Lines,        \* what Suricata writes: a kind, and whether it is wide
          MaxEvents, MaxFiles, MaxTruncations, MaxRestarts  \* bounds

ASSUME LimitsAssumption ==
  /\ {MaxClients, QueueSize, RingSize} \subseteq Nat \ {0}
  /\ {MaxEvents, MaxTruncations, MaxRestarts} \subseteq Nat
  /\ MaxFiles \in Nat \ {0}
ASSUME LinesAssumption ==
  Lines \subseteq [kind : {"alert", "flow", "other"}, wide : BOOLEAN]

\* An alert, a flow, or a line of another type or none that parses; wide when
\* it has a character of two bytes.
EventType ==
  [number : 1..MaxEvents, kind : {"alert", "flow", "other"}, wide : BOOLEAN]

Byte == [event : EventType, part : {"first", "lead", "cont", "last"}]

\* A line ends with its last byte.  The wide character is "lead", "cont".
Bytes(e) ==
  LET b(p) == [event |-> e, part |-> p]
  IN IF e.wide THEN <<b("lead"), b("cont"), b("last")>>
               ELSE <<b("first"), b("last")>>

Inodes == 1..MaxFiles
NoFile == 0

VARIABLES
  files,     \* the bytes of every inode
  current,   \* the newest inode
  gone,      \* nothing is at the path: it was renamed, its successor not there
  rest,      \* the bytes of its last line that are not written yet
  pc,        \* the tail thread: "stat", "open", "read", "append", "broadcast"
  seen,      \* the inode its last stat returned
  inode,     \* the inode it believes it reads
  handle,    \* the inode it reads
  at,        \* the offset it has come to, in bytes
  pos,       \* the characters it has counted, which it seeks to as bytes
  event,     \* the alert in hand
  alerts, flows,  \* the rings
  clients,   \* the listed streams
  open,      \* the streams being served
  queue,     \* the queue of each
  sent,      \* history: the alerts broadcast
  past,      \* history: how many of them each stream connected after or has
  passed,    \* history: the numbers of the lines readline has returned bytes of
  written, truncations, restarts  \* counters of the bounds

fileVars   == <<files, current, gone, rest>>
tailVars   == <<pc, seen, inode, handle, at, pos, event, passed>>
ringVars   == <<alerts, flows>>
streamVars == <<clients, open, queue, past>>
bounds     == <<written, truncations, restarts>>
vars == <<fileVars, tailVars, ringVars, streamVars, sent, bounds>>

NoEvent == [number |-> 0, kind |-> "other", wide |-> FALSE]

\* A process begins: nothing read, nothing remembered, nobody listening.
Fresh ==
  /\ pc = "stat" /\ seen = NoFile /\ inode = NoFile /\ handle = NoFile
  /\ at = 0 /\ pos = 0 /\ event = NoEvent /\ passed = {}
  /\ alerts = <<>> /\ flows = <<>>
  /\ clients = {} /\ open = {}
  /\ queue = [c \in Streams |-> <<>>]
  /\ sent = <<>>
  /\ past = [c \in Streams |-> 0]

Init ==
  /\ files = [i \in Inodes |-> <<>>] /\ current = 1
  /\ gone = FALSE /\ rest = <<>>
  /\ Fresh
  /\ written = 0 /\ truncations = 0 /\ restarts = 0

-----------------------------------------------------------------------------
(* The world: Suricata and logrotate.                                      *)

\* A new line, or the first n bytes of one.
Write(l, n) ==
  LET line == Bytes([number |-> written + 1, kind |-> l.kind, wide |-> l.wide])
  IN /\ ~gone /\ rest = <<>> /\ written < MaxEvents /\ n <= Len(line)
     /\ written' = written + 1
     /\ files' = [files EXCEPT ![current] = @ \o SubSeq(line, 1, n)]
     /\ rest' = SubSeq(line, n + 1, Len(line))
     /\ UNCHANGED <<current, gone, tailVars, ringVars, streamVars, sent,
                    truncations, restarts>>

WriteRest ==
  /\ rest # <<>> /\ rest' = <<>>
  /\ files' = [files EXCEPT ![current] = @ \o rest]
  /\ UNCHANGED <<current, gone, tailVars, ringVars, streamVars, sent, bounds>>

\* Renamed away; nothing is at the path until the next file is created.
Rotate ==
  /\ ~gone /\ current < MaxFiles /\ rest = <<>>
  /\ gone' = TRUE
  /\ UNCHANGED <<files, current, rest, tailVars, ringVars, streamVars, sent,
                 bounds>>

Create ==
  /\ gone /\ gone' = FALSE
  /\ current' = current + 1
  /\ UNCHANGED <<files, rest, tailVars, ringVars, streamVars, sent, bounds>>

Truncate ==
  /\ ~gone /\ rest = <<>> /\ truncations < MaxTruncations
  /\ truncations' = truncations + 1
  /\ files' = [files EXCEPT ![current] = <<>>]
  /\ UNCHANGED <<current, gone, rest, tailVars, ringVars, streamVars, sent,
                 written, restarts>>

-----------------------------------------------------------------------------
(* tail_loop.                                                              *)

Size == Len(files[current])

\* Mutant: a shrunken file goes unnoticed.
Renamed == current # inode \/ handle = NoFile
\* Another inode, none yet, or fewer bytes than characters were counted.
Replaced == Renamed \/ Size < pos

\* os.stat fails while there is no file: the thread sleeps and tries again.
\* The same file is read on from where the count says.
Stat ==
  /\ pc = "stat" /\ ~gone
  /\ seen' = current
  /\ pc' = IF Replaced THEN "open" ELSE "read"
  /\ at' = pos
  /\ UNCHANGED <<fileVars, inode, handle, pos, event, passed, ringVars,
                 streamVars, sent, bounds>>

\* What is opened is what is at the path by now; what is remembered is what
\* stat said.
Open ==
  /\ pc = "open"
  /\ IF gone
     THEN /\ pc' = "stat" /\ handle' = NoFile
          /\ UNCHANGED <<inode, at, pos>>
     ELSE /\ pc' = "read" /\ handle' = current
          /\ inode' = seen /\ at' = 0 /\ pos' = 0
  /\ UNCHANGED <<fileVars, seen, event, passed, ringVars, streamVars, sent,
                 bounds>>

Newest(ring) ==
  IF Len(ring) <= RingSize THEN ring
  ELSE SubSeq(ring, Len(ring) - RingSize + 1, Len(ring))

\* readline returns what is there up to the end of a line or of the file.
EndsLine(n) == n = Len(files[handle]) \/ files[handle][n].part = "last"
IsNext(n) == EndsLine(n) /\ \A m \in at + 1..n - 1 : ~EndsLine(m)
Upto(n) == SubSeq(files[handle], at + 1, n)

\* It raises when what it decodes begins or ends inside a character.
Decodes(line) == line[1].part # "cont" /\ line[Len(line)].part # "lead"

\* len(line).
Characters(line) == Cardinality({i \in DOMAIN line : line[i].part # "cont"})

\* A piece of a line does not parse.
Parses(line) == line = Bytes(line[1].event)

\* The handler of the exception sleeps, as the end of the file does; what was
\* counted stays.
Pause == pc' = "stat" /\ UNCHANGED <<at, pos, event, flows, passed>>

\* A line is counted, and kept when it is an alert or a flow.
Take(line) ==
  LET e == line[1].event IN
  /\ at' = at + Len(line)
  /\ pos' = pos + Characters(line)
  /\ passed' = passed \cup {line[i].event.number : i \in DOMAIN line}
  /\ \/ /\ Parses(line) /\ e.kind = "alert"
        /\ pc' = "append" /\ event' = e /\ UNCHANGED flows
     \/ /\ Parses(line) /\ e.kind = "flow"
        /\ flows' = Newest(Append(flows, e)) /\ UNCHANGED <<pc, event>>
     \/ /\ ~Parses(line) \/ e.kind = "other"
        /\ UNCHANGED <<pc, event, flows>>

\* One readline.
ReadLine ==
  /\ pc = "read"
  /\ \/ at >= Len(files[handle]) /\ Pause
     \/ \E n \in at + 1..Len(files[handle]) :
          /\ IsNext(n)
          /\ IF Decodes(Upto(n)) THEN Take(Upto(n)) ELSE Pause
  /\ UNCHANGED <<fileVars, seen, inode, handle, alerts, streamVars, sent,
                 bounds>>

\* Mutant: a full ring keeps what it has.
AppendUnlessFull ==
  /\ pc = "append" /\ pc' = "broadcast"
  /\ alerts' = IF Len(alerts) < RingSize THEN Append(alerts, event) ELSE alerts
  /\ UNCHANGED <<fileVars, seen, inode, handle, at, pos, event, passed,
                 flows, streamVars, sent, bounds>>

AppendAlert ==
  /\ pc = "append" /\ pc' = "broadcast"
  /\ alerts' = Newest(Append(alerts, event))
  /\ UNCHANGED <<fileVars, seen, inode, handle, at, pos, event, passed,
                 flows, streamVars, sent, bounds>>

\* Mutant: one message too many.
RoomForOneMore(c) == Len(queue[c]) <= QueueSize
HasRoom(c) == Len(queue[c]) < QueueSize

\* Mutant: a client whose queue is full just misses the alert.
StaysListed == clients
\* A client whose queue is full is no longer listed.
StillListed == {c \in clients : HasRoom(c)}

\* _broadcast: under _sse_lock from beginning to end.
Broadcast ==
  /\ pc = "broadcast" /\ pc' = "read"
  /\ queue' = [c \in Streams |-> IF c \in clients /\ HasRoom(c)
                                 THEN Append(queue[c], event) ELSE queue[c]]
  /\ clients' = StillListed
  /\ sent' = Append(sent, event)
  /\ UNCHANGED <<fileVars, seen, inode, handle, at, pos, event, passed,
                 ringVars, open, past, bounds>>

-----------------------------------------------------------------------------
(* _stream, one handler thread per connection.                             *)

\* 503 when the list is full: nothing changes.
Connect(c) ==
  /\ c \notin open /\ Cardinality(clients) < MaxClients
  /\ clients' = clients \cup {c}
  /\ open' = open \cup {c}
  /\ queue' = [queue EXCEPT ![c] = <<>>]
  /\ past' = [past EXCEPT ![c] = Len(sent)]
  /\ UNCHANGED <<fileVars, tailVars, ringVars, sent, bounds>>

\* A message, or with none for 15 seconds a heartbeat, which changes nothing;
\* listed or not.
Deliver(c) ==
  /\ c \in open /\ queue[c] # <<>>
  /\ queue' = [queue EXCEPT ![c] = Tail(@)]
  /\ past' = [past EXCEPT ![c] = @ + 1]
  /\ UNCHANGED <<fileVars, tailVars, ringVars, clients, open, sent, bounds>>

\* A write fails: the client has gone.
Leave(c) ==
  /\ c \in open
  /\ open' = open \ {c}
  /\ clients' = clients \ {c}
  /\ queue' = [queue EXCEPT ![c] = <<>>]
  /\ past' = [past EXCEPT ![c] = 0]
  /\ UNCHANGED <<fileVars, tailVars, ringVars, sent, bounds>>

\* The supervisor starts the process again: the file is read from its start.
Restart ==
  /\ restarts < MaxRestarts /\ restarts' = restarts + 1
  /\ pc' = "stat" /\ seen' = NoFile /\ inode' = NoFile /\ handle' = NoFile
  /\ at' = 0 /\ pos' = 0 /\ event' = NoEvent /\ passed' = {}
  /\ alerts' = <<>> /\ flows' = <<>> /\ sent' = <<>>
  /\ clients' = {} /\ open' = {}
  /\ queue' = [c \in Streams |-> <<>>]
  /\ past' = [c \in Streams |-> 0]
  /\ UNCHANGED <<fileVars, written, truncations>>

-----------------------------------------------------------------------------
TailLoop == Stat \/ Open \/ ReadLine \/ AppendAlert \/ Broadcast

World ==
  \/ \E l \in Lines, n \in 1..3 : Write(l, n)
  \/ WriteRest \/ Rotate \/ Create \/ Truncate

Next ==
  \/ TailLoop \/ World \/ Restart
  \/ \E c \in Streams : Connect(c) \/ Deliver(c) \/ Leave(c)

Spec == Init /\ [][Next]_vars

\* The tail thread runs; a line that was begun is finished; a rotated file has
\* a successor.  Nothing is asked of the clients.
FairSpec == Spec /\ WF_vars(TailLoop) /\ WF_vars(WriteRest) /\ WF_vars(Create)

-----------------------------------------------------------------------------
(* Properties.                                                             *)

\* Every variable in its range: rings and queues never exceed their limits.
TypeOK ==
  /\ files \in [Inodes -> Seq(Byte)] /\ rest \in Seq(Byte)
  /\ current \in Inodes /\ gone \in BOOLEAN
  /\ rest # <<>> => ~gone
  /\ pc \in {"stat", "open", "read", "append", "broadcast"}
  /\ {seen, inode, handle} \subseteq Inodes \cup {NoFile}
  /\ pc = "read" => handle # NoFile
  /\ at \in Nat /\ pos \in Nat
  /\ passed \subseteq 1..MaxEvents
  /\ event \in EventType \cup {NoEvent}
  /\ alerts \in Seq(EventType) /\ Len(alerts) <= RingSize
  /\ flows \in Seq(EventType) /\ Len(flows) <= RingSize
  /\ clients \subseteq open /\ open \subseteq Streams
  /\ Cardinality(clients) <= MaxClients
  /\ queue \in [Streams -> Seq(EventType)]
  /\ \A c \in Streams : Len(queue[c]) <= QueueSize
  /\ sent \in Seq(EventType)
  /\ past \in [Streams -> Nat]
  /\ written \in 0..MaxEvents
  /\ truncations \in 0..MaxTruncations
  /\ restarts \in 0..MaxRestarts

\* While a stream is listed it misses nothing: it has been written, or has in
\* its queue, every alert broadcast since it connected, in order.  A slow
\* client loses its place in the list rather than an alert (27-38).
ListedMissNothing ==
  \A c \in clients : queue[c] = SubSeq(sent, past[c] + 1, Len(sent))

\* The ring of /alerts is never behind the streams: it holds the newest alerts
\* broadcast, and the one about to be.  A client that connects to /stream and
\* then reads /alerts has every alert from one or the other (71-73).
RingLeads ==
  alerts = Newest(IF pc = "broadcast" THEN Append(sent, event) ELSE sent)

\* The count has come out inside a character of the file.
InCharacter == pos < Size /\ files[current][pos + 1].part = "cont"

\* Every line of the file has been returned, whole or in pieces.
NothingSkipped ==
  \A n \in 1..Size : files[current][n].event.number \in passed

\* When the writers stop, the tail comes to the end of the file that is at the
\* path, whatever renames and truncations it raced with and however often its
\* count fell behind the bytes; unless the file was truncated, which it may
\* notice too late, it has skipped no line.  Only a count that comes out inside
\* a character stops it: readline raises there, again and again (45-78).
CaughtUp ==
  <>[](/\ handle = current
       /\ \/ InCharacter
          \/ pos = Size /\ (truncations = 0 => NothingSkipped))
=============================================================================
