----------------------------- MODULE TamperLog -----------------------------
(***************************************************************************)
(* The audit log of the Secure Framework (tamper_logger.py) and the        *)
(* handlers that write to it (netconf_gnmi_adapter.py, sam/role_api.py).   *)
(* A log() call appends to a ring in memory and to a file, under one lock; *)
(* the ring is read back from the file when the process starts.  A write   *)
(* may fail, and the process may die, with part of a line in the file: the *)
(* next line then continues that line and neither can be decoded.          *)
(*                                                                         *)
(* An entry is its number, the operation that logged it and whether that   *)
(* operation succeeded; hashes, identities and the signature are functions *)
(* of it.                                                                  *)
(***************************************************************************)
EXTENDS Naturals, Sequences, FiniteSets

CONSTANTS
  Threads,     \* handler threads, NETCONF and REST
  Main,        \* the main thread, which logs while the process starts
  Offered,     \* bound: the operations that clients ask for
  MaxLogs,     \* max_logs
  MaxEntries,  \* bound: operations ever begun
  MaxFaults,   \* bound: writes that fail or meet the death of the process
  MaxStarts,   \* bound: starts of the process
  None

\* push, delete, blocked, read: _push_rule, _delete_rule, the refusal of an
\* agent's ACCEPT rule, and handle_get_config of the adapter; post and remove:
\* the REST handlers; startup: what the main thread logs before it serves
\* NETCONF, several entries that are one here.
Kinds   == {"push", "delete", "blocked", "read", "post", "remove", "startup"}
All     == Threads \cup {Main}
Changes == {"push", "delete", "post", "remove"}
Entry   == [n : 1..(MaxEntries + MaxStarts), kind : Kinds, ok : BOOLEAN]
NoEntry == [n |-> 0, kind |-> "read", ok |-> FALSE]

\* A line that json.loads does not take.
Junk == [n |-> 0, kind |-> "read", ok |-> TRUE]

ASSUME TamperAssumption ==
  /\ MaxLogs \in Nat \ {0} /\ MaxEntries \in Nat /\ MaxFaults \in Nat
  /\ MaxStarts \in Nat \ {0}
  /\ Offered \subseteq Kinds \ {"startup"}
  /\ Main \notin Threads /\ None \notin Threads \cup {Main}

VARIABLES
  up,      \* the process runs
  ring,    \* self.logs, a deque of at most MaxLogs entries
  file,    \* the lines of the log file
  tail,    \* "open" when the last line has no end of line yet
  lock,    \* the thread that holds self.lock
  pc,      \* where a handler is: before the device call, before log(), ...
  doing,   \* the entry of its operation
  begun,   \* operations begun so far, starts of the process among them
  starts,  \* starts of the process so far
  changed, \* the entries of operations that changed a device
  acked,   \* the entries of operations whose handler has sent its reply
  written, \* entries whose write to the file returned without an error
  faults   \* writes that did not come to their end so far

vars == <<up, ring, file, tail, lock, pc, doing, begun, starts,
          changed, acked, written, faults>>

Init ==
  /\ up = FALSE /\ ring = <<>> /\ file = <<>> /\ tail = "closed"
  /\ lock = None
  /\ pc = [t \in All |-> "idle"]
  /\ doing = [t \in All |-> NoEntry]
  /\ begun = 0 /\ starts = 0 /\ changed = {} /\ acked = {} /\ written = {} /\ faults = 0

Goto(t, where) == pc' = [pc EXCEPT ![t] = where]

-----------------------------------------------------------------------------
(* The log.                                                                *)

\* The last k elements of s, or all of them.
LastOf(s, k) == IF Len(s) <= k THEN s ELSE SubSeq(s, Len(s) - k + 1, Len(s))

\* The lines that decode, in order.
Readable(lines) ==
  LET upTo[i \in 0..Len(lines)] ==
        IF i = 0 THEN <<>>
        ELSE IF lines[i] = Junk THEN upTo[i - 1]
        ELSE Append(upTo[i - 1], lines[i])
  IN  upTo[Len(lines)]
InFile == {file[i] : i \in {j \in DOMAIN file : file[j] # Junk}}
InRing == {ring[i] : i \in DOMAIN ring}

\* A deque with maxlen drops its oldest element.
Pushed(e) == LastOf(Append(ring, e), MaxLogs)

\* What an appended line makes of the file: after an end of line it is a line
\* of its own, otherwise it runs on from the last one.
\* Mutant: an entry is written without an end of line.
JoinedBare(lines, e) == IF lines = <<>> THEN <<e>>
                        ELSE [lines EXCEPT ![Len(lines)] = Junk]
Joined(lines, e) == IF tail = "closed" THEN Append(lines, e)
                    ELSE [lines EXCEPT ![Len(lines)] = Junk]

\* _load_logs_from_file: the last max_logs lines, those that decode.
\* Mutant: the first ones.
LoadedFirst == Readable(SubSeq(file, 1, IF Len(file) < MaxLogs THEN Len(file) ELSE MaxLogs))
Loaded == Readable(LastOf(file, MaxLogs))

\* _is_tampering_relevant and the explicit flag of log_data_modification: a
\* read is not, nor is a start, nor the refusal of an agent's rule, whose words
\* are not among the keywords.
Tampering(e) == e.kind \notin {"read", "blocked", "startup"}

\* get_tampering_events(from_file=True).
TamperingEvents == {e \in InFile : Tampering(e)}

-----------------------------------------------------------------------------
(* The handlers.                                                           *)

\* A handler starts on an operation: a read and a refusal are logged first.
Begin(t, kind) ==
  /\ up /\ pc[t] = "idle" /\ begun - starts < MaxEntries
  /\ begun' = begun + 1
  /\ doing' = [doing EXCEPT ![t] = [n |-> begun + 1, kind |-> kind, ok |-> TRUE]]
  /\ Goto(t, IF kind \in Changes THEN "device" ELSE "log")
  /\ UNCHANGED <<up, ring, file, tail, lock, starts, changed, acked, written, faults>>

\* Whether an operation is logged once the device has answered: the NETCONF
\* delete never is, a REST call only when a leaf took it.
\* Mutant: only what went wrong is logged.
LoggedFailure(kind, ok) == kind = "push" /\ ~ok
LoggedAfter(kind, ok) == \/ kind = "push"
                         \/ kind \in {"post", "remove"} /\ ok

\* client.gc.set returns or raises.  When it raises the device may have changed
\* all the same: the answer was lost, or the bridge had written ConfigDB when
\* iptables failed.  A REST delete without a channel to a leaf is a success that
\* changed nothing.
Device(t) ==
  /\ up /\ pc[t] = "device"
  /\ \E ok \in BOOLEAN, effect \in BOOLEAN :
       /\ ok /\ doing[t].kind # "remove" => effect
       /\ doing' = [doing EXCEPT ![t].ok = ok]
       /\ changed' = IF effect THEN changed \cup {[doing[t] EXCEPT !.ok = ok]}
                     ELSE changed
       /\ Goto(t, IF LoggedAfter(doing[t].kind, ok) THEN "log" ELSE "reply")
  /\ UNCHANGED <<up, ring, file, tail, lock, begun, starts, acked, written, faults>>

\* log(): the lock, the entry with its signature, the ring.
LogBegin(t) ==
  /\ up /\ pc[t] = "log" /\ lock = None
  /\ lock' = t
  /\ ring' = Pushed(doing[t])
  /\ Goto(t, "write")
  /\ UNCHANGED <<up, file, tail, doing, begun, starts, changed, acked,
                 written, faults>>

\* _write_to_file, and the end of the lock's block.
LogWrite(t) ==
  /\ up /\ pc[t] = "write"
  /\ file' = Joined(file, doing[t])
  /\ tail' = "closed"
  /\ written' = written \cup {doing[t]}
  /\ lock' = None
  /\ Goto(t, "reply")
  /\ UNCHANGED <<up, ring, doing, begun, starts, changed, acked, faults>>

\* What a write that does not come to its end leaves in the file: nothing, the
\* start of the line, or all of it but the end of line.
Partial(e) ==
  \/ UNCHANGED <<file, tail>>
  \/ file' = Joined(file, Junk) /\ tail' = "open"
  \/ file' = Joined(file, e) /\ tail' = "open"

\* open or write raises (no space left, no such directory): the error is
\* printed and the entry stays in the ring only.
\* Mutant: the lock is not given back.
LogWriteFailsLocked(t) ==
  /\ up /\ pc[t] = "write" /\ faults < MaxFaults
  /\ Partial(doing[t])
  /\ faults' = faults + 1
  /\ Goto(t, "reply")
  /\ UNCHANGED <<up, ring, lock, doing, begun, starts, changed, acked, written>>
LogWriteFails(t) ==
  /\ up /\ pc[t] = "write" /\ faults < MaxFaults
  /\ Partial(doing[t])
  /\ faults' = faults + 1
  /\ lock' = None
  /\ Goto(t, "reply")
  /\ UNCHANGED <<up, ring, doing, begun, starts, changed, acked, written>>

\* The handler returns its answer, or the main thread goes on to serve NETCONF.
Reply(t) ==
  /\ up /\ pc[t] = "reply"
  /\ acked' = acked \cup {doing[t]}
  /\ doing' = [doing EXCEPT ![t] = NoEntry]
  /\ Goto(t, "idle")
  /\ UNCHANGED <<up, ring, file, tail, lock, begun, starts, changed, written,
                 faults>>

\* The process dies, a line perhaps half written.
Crash ==
  /\ up /\ up' = FALSE
  /\ starts < MaxStarts
  /\ \/ (\A t \in All : pc[t] # "write") /\ UNCHANGED <<file, tail, faults>>
     \/ /\ faults < MaxFaults /\ faults' = faults + 1
        /\ \E t \in All : pc[t] = "write" /\ Partial(doing[t])
  /\ ring' = <<>> /\ lock' = None
  /\ pc' = [t \in All |-> "idle"]
  /\ doing' = [t \in All |-> NoEntry]
  /\ UNCHANGED <<begun, starts, changed, acked, written>>

\* It starts: the ring is read back, and the main thread logs its progress;
\* REST is already served when it logs the last of it.
Start ==
  /\ ~up /\ up' = TRUE
  /\ starts' = starts + 1 /\ begun' = begun + 1
  /\ ring' = Loaded
  /\ doing' = [doing EXCEPT ![Main] = [n |-> begun + 1, kind |-> "startup", ok |-> TRUE]]
  /\ Goto(Main, "log")
  /\ UNCHANGED <<file, tail, lock, changed, acked, written, faults>>

Log(t) == LogBegin(t) \/ LogWrite(t) \/ LogWriteFails(t)
Handler(t) == Device(t) \/ Log(t) \/ Reply(t)

Next == \/ \E t \in All : Handler(t)
        \/ \E t \in Threads, kind \in Offered : Begin(t, kind)
        \/ Crash \/ Start

Spec == Init /\ [][Next]_vars

-----------------------------------------------------------------------------
(* Properties.                                                             *)

\* Type invariant.  The lock is held by the thread that writes, and by no other:
\* a failed write and a death of the process give it back.
TypeOK ==
  /\ up \in BOOLEAN /\ tail \in {"closed", "open"}
  /\ ring \in Seq(Entry) /\ Len(ring) <= MaxLogs
  /\ file \in Seq(Entry \cup {Junk})
  /\ lock \in All \cup {None}
  /\ pc \in [All -> {"idle", "device", "log", "write", "reply"}]
  /\ doing \in [All -> Entry \cup {NoEntry}]
  /\ starts \in 0..MaxStarts /\ begun \in starts..(starts + MaxEntries)
  /\ faults \in 0..MaxFaults
  /\ acked \subseteq Entry /\ changed \subseteq Entry /\ written \subseteq Entry
  /\ \A t \in All : pc[t] = "write" <=> lock = t

\* An entry that was written whole and can be read stays readable, whatever is
\* appended after it and however often the process dies.
StaysReadable == [][\A e \in written : e \in InFile => e \in InFile']_vars

\* What the log owes its reader of the changes: every push, also one that was
\* reported as failed and took effect; of REST those that were answered with
\* success.  A REST call that raised is answered 500 and not logged, whatever it
\* did to the leaf, and the NETCONF delete is never logged.
Owed(e) == e.kind = "push" \/ (e.kind \in {"post", "remove"} /\ e.ok)

\* A write that fails, or a death of the process in the middle of one, costs at
\* most one entry besides the one that was being written: the one after it,
\* which runs on from the torn line.  A death between two writes costs none.
\* And the log comes before the reply: of the changes that were answered and
\* that the log owes, a fault keeps at most those two from being found among
\* the tampering events of the file.
LossBounded ==
  LET owed == {e \in changed \cap acked : Owed(e)} IN
  /\ Cardinality(written \ InFile) <= faults
  /\ Cardinality(owed \ TamperingEvents) <= 2 * faults

\* The view from memory misses a readable entry only when MaxLogs newer lines
\* or entries have come since, before a restart as after it.
RingCurrent ==
  up => \A i \in DOMAIN file :
          file[i] # Junk /\ file[i] \notin InRing =>
            Len(file) - i + Cardinality(InRing \ InFile) >= MaxLogs
=============================================================================
