------------------------------ MODULE AuditLog ------------------------------
(***************************************************************************)
(* The audit log of phantom-core: ~/.phantom/audit.log with its HMAC key,   *)
(* its chain marker and its signed head checkpoint, written by any number   *)
(* of processes under the audit lock and walked by `phantom audit verify`.  *)
(*                                                                          *)
(* An event's HMAC is its own number (two events never share one) and       *)
(* GENESIS is 0.  A signed line of an older release carries no sequence     *)
(* number: its seq is 0.                                                     *)
(*                                                                          *)
(* Log, key and checkpoint are entries of one directory.  A new entry, and a *)
(* rename over an old one, is durable when the directory has been synced; a  *)
(* line is when the log has been synced and its entry is durable.            *)
(***************************************************************************)
EXTENDS Integers, FiniteSets, SequencesExt

CONSTANTS
    Writers,        \* processes that log events
    MaxEvents,      \* bound: events started
    MaxFaults,      \* bound: failed calls, deaths and power losses
    LogReadFails,   \* whether reading the log back may fail
    Reorders        \* whether the file system reorders the changes of a directory

\* What the constants have to satisfy.
AuditAssumption ==
    /\ IsFiniteSet(Writers) /\ "nobody" \notin Writers
    /\ MaxEvents \in Nat /\ MaxFaults \in Nat
    /\ LogReadFails \in BOOLEAN /\ Reorders \in BOOLEAN

VARIABLES
    log,        \* the lines of audit.log, in order
    synced,     \* how many of them an fsync of the log has covered
    dir,        \* ~/.phantom: whether log and key are there, and the checkpoint
    maybe,      \* what the directory may be when the power fails
    writer,     \* what each writer is doing
    lock,       \* the writer that holds the audit lock exclusively
    events,     \* number of events started, the source of fresh HMACs
    acked,      \* events whose required write returned Ok
    settled,    \* whether the last writer to hold the lock signed and returned Ok
    verifier,   \* the verifying process and its last report
    faults      \* number of faults so far

vars == <<log, synced, dir, maybe, writer, lock, events, acked, settled, verifier, faults>>

Genesis == 0

NoWriter == "nobody"

Line(k, s, p, i) == [kind |-> k, seq |-> s, prev |-> p, id |-> i, nl |-> TRUE]

Marker == Line("marker", 0, Genesis, 0)

Fragment == [Line("fragment", 0, Genesis, 0) EXCEPT !.nl = FALSE]

NoHead == [seq |-> 0, hmac |-> Genesis]

Idle == [pc |-> "idle", required |-> FALSE, signed |-> FALSE, created |-> FALSE, line |-> Marker]

-----------------------------------------------------------------------------
(* What the functions of audit.rs compute from the files.                    *)

HasHmac(l) == l.kind \in {"signed", "edited"}

\* The places of the lines with an hmac, malformed lines skipped.
Signed(s) == {i \in 1..Len(s) : HasHmac(s[i])}

\* read_last_hmac: the last line with an hmac.
LastHmac(s) == IF Signed(s) = {} THEN Genesis ELSE s[Max(Signed(s))].id

\* read_last_seq: the last signed line that carries a sequence number.
LastSeq(s) ==
    LET sequenced == {i \in Signed(s) : s[i].seq > 0}
    IN  IF sequenced = {} THEN 0 ELSE s[Max(sequenced)].seq

\* append_line: a tail with no newline is first ended by one.
Appended(s, l) ==
    (IF s # <<>> /\ ~s[Len(s)].nl THEN [s EXCEPT ![Len(s)].nl = TRUE] ELSE s) \o <<l>>

\* What is left of a line whose write did not finish.
Partial(s, l) == {s, Appended(s, Fragment), Appended(s, [l EXCEPT !.nl = FALSE])}

\* One line of verify_log_content.
ScanLine(keyed, acc, l) ==
    LET started == acc.started
        prev == IF started THEN acc.prev ELSE l.prev
        good == l.kind = "signed" /\ l.prev = prev
    IN  CASE l.kind = "fragment" -> [acc EXCEPT !.bad = TRUE]
          [] l.kind = "marker"   -> [acc EXCEPT !.marker = TRUE, !.started = TRUE]
          [] l.kind = "unsigned" -> [acc EXCEPT !.bad = @ \/ started]
          [] HasHmac(l) /\ ~keyed -> [acc EXCEPT !.bad = TRUE]
          [] HasHmac(l) /\ keyed ->
                [acc EXCEPT
                    !.started = TRUE,
                    !.prev = l.id,
                    !.bad = @ \/ ~good \/ (l.seq > 0 /\ l.seq # acc.expected),
                    !.expected = IF good /\ l.seq > 0 THEN l.seq + 1 ELSE @,
                    !.final = IF good /\ l.seq > 0 THEN [seq |-> l.seq, hmac |-> l.id] ELSE @]

ScanStart == [prev |-> Genesis, started |-> FALSE, marker |-> FALSE,
              expected |-> 1, final |-> NoHead, bad |-> FALSE]

\* verify_log_content followed by VerifyReport::is_clean.
VerifiesClean(s, h, keyed) ==
    LET end == FoldLeft(LAMBDA acc, l : ScanLine(keyed, acc, l), ScanStart, s)
    IN  /\ ~end.bad
        /\ h = end.final
        /\ end.marker \/ (end.final = NoHead /\ h = NoHead)

-----------------------------------------------------------------------------
(* The states a log can be in when this release first writes to it.          *)

Directory(l, k) == [log |-> l, key |-> k, head |-> NoHead]

OldLogs ==
    {[l |-> <<>>, d |-> Directory(FALSE, FALSE)],
     [l |-> <<Line("unsigned", 1, Genesis, 0)>>, d |-> Directory(TRUE, FALSE)],
     [l |-> <<Marker, Line("signed", 0, Genesis, 1)>>, d |-> Directory(TRUE, TRUE)]}

Init ==
    \E old \in OldLogs :
        /\ log = old.l
        /\ synced = Len(old.l)
        /\ dir = old.d
        /\ maybe = {old.d}
        /\ writer = [p \in Writers |-> Idle]
        /\ lock = NoWriter
        /\ events = 1
        /\ acked = {}
        /\ settled = FALSE
        /\ verifier = [pc |-> "idle", verdict |-> "none", locked |-> TRUE]
        /\ faults = 0

At(p, pc) == writer[p].pc = pc

Fault == faults < MaxFaults /\ faults' = faults + 1

\* A change of the directory, which may be lost until the directory is synced;
\* where changes are not kept in order, each on its own.
ChangeDirectory(d) ==
    LET more == maybe \cup {d} IN
    /\ dir' = d
    /\ maybe' = IF Reorders
                THEN [log : {q.log : q \in more}, key : {q.key : q \in more}, head : {q.head : q \in more}]
                ELSE more

\* sync_parent_dir, whichever of the three files it is called for.
SyncDirectory == maybe' = {dir} /\ UNCHANGED dir

-----------------------------------------------------------------------------
(* write_event.                                                              *)

\* Mutant: the lock is not waited for.
StartUnlocked(p, required) ==
    /\ At(p, "idle")
    /\ events <= MaxEvents
    /\ events' = events + 1
    /\ lock' = p
    /\ settled' = FALSE
    /\ writer' = [writer EXCEPT ![p] =
          [Idle EXCEPT !.pc = "key", !.required = required, !.line = Line("unsigned", 1, Genesis, events + 1)]]
    /\ UNCHANGED <<log, synced, dir, maybe, acked, verifier, faults>>

\* log_result in either mode: enter and take the lock exclusively.
Start(p, required) ==
    /\ At(p, "idle")
    /\ lock = NoWriter
    /\ events <= MaxEvents
    /\ events' = events + 1
    /\ lock' = p
    /\ settled' = FALSE
    /\ writer' = [writer EXCEPT ![p] =
          [Idle EXCEPT !.pc = "key", !.required = required, !.line = Line("unsigned", 1, Genesis, events + 1)]]
    /\ UNCHANGED <<log, synced, dir, maybe, acked, verifier, faults>>

\* The writer goes on inside write_event as the record w.
Onward(p, w) ==
    /\ writer' = [writer EXCEPT ![p] = w]
    /\ UNCHANGED <<lock, events, acked, settled, verifier>>

Goto(p, pc) == Onward(p, [writer[p] EXCEPT !.pc = pc])

\* Return from write_event: the lock file is dropped.
Return(p, ok) ==
    /\ lock' = NoWriter
    /\ writer' = [writer EXCEPT ![p] = Idle]
    /\ acked' = IF ok /\ writer[p].required THEN acked \cup {writer[p].line.id} ELSE acked
    /\ settled' = (ok /\ writer[p].signed)
    /\ UNCHANGED <<events, verifier>>

\* load_or_create_hmac_key failed: fatal when required, otherwise go unsigned.
KeyError(p) ==
    IF writer[p].required THEN Return(p, FALSE)
    ELSE Onward(p, [writer[p] EXCEPT !.pc = "read", !.signed = FALSE])

\* path_present and read_hmac_key.
LoadKey(p) ==
    /\ At(p, "key")
    /\ \/ ~dir.key /\ Goto(p, "publish") /\ UNCHANGED faults
       \/ dir.key /\ Onward(p, [writer[p] EXCEPT !.pc = "read", !.signed = TRUE]) /\ UNCHANGED faults
       \/ dir.key /\ Fault /\ KeyError(p)
    /\ UNCHANGED <<log, synced, dir, maybe>>

\* write_hmac_key: the staged key is linked into place, never over another.
PublishKey(p) ==
    /\ At(p, "publish")
    /\ \/ ChangeDirectory([dir EXCEPT !.key = TRUE]) /\ Goto(p, "keysync") /\ UNCHANGED faults
       \/ Fault /\ KeyError(p) /\ UNCHANGED <<dir, maybe>>
    /\ UNCHANGED <<log, synced>>

\* The fsync of the directory that ends write_hmac_key.
SyncKey(p) ==
    /\ At(p, "keysync")
    /\ \/ /\ SyncDirectory
          /\ Onward(p, [writer[p] EXCEPT !.pc = "marker", !.signed = TRUE])
          /\ UNCHANGED faults
       \/ Fault /\ KeyError(p) /\ UNCHANGED <<dir, maybe>>
    /\ UNCHANGED <<log, synced>>

\* read_last_hmac and read_last_seq, and the event built from them.  A read
\* that fails yields what an empty log yields.
ReadLast(p) ==
    /\ At(p, "read")
    /\ \E forHmac, forSeq \in {log} \cup (IF LogReadFails THEN {<<>>} ELSE {}) :
          /\ IF forHmac = log /\ forSeq = log THEN UNCHANGED faults ELSE Fault
          /\ Onward(p, [writer[p] EXCEPT !.pc = "append", !.line =
                IF writer[p].signed
                THEN Line("signed", LastSeq(forSeq) + 1, LastHmac(forHmac), @.id)
                ELSE Line("unsigned", 1, Genesis, @.id)])
    /\ UNCHANGED <<log, synced, dir, maybe>>

\* append_line of the marker of a new key, or of the event: it has returned Ok,
\* or an error.
InMarker(p) == writer[p].pc \in {"marker", "markersync", "markerdir"}

LineDone(p) ==
    IF InMarker(p) THEN Goto(p, "read")
    ELSE IF writer[p].signed THEN Goto(p, "head")
    ELSE Return(p, TRUE)

LineFails(p) == IF InMarker(p) THEN KeyError(p) ELSE Return(p, FALSE)

\* append_line up to write_all.  open_audit_file creates the log if there is
\* none, even if nothing is written then.
WriteLine(p) ==
    /\ writer[p].pc \in {"marker", "append"}
    /\ LET l == IF InMarker(p) THEN Marker ELSE writer[p].line
           opened == [dir EXCEPT !.log = TRUE]
       IN  \/ /\ log' = Appended(log, l)
              /\ ChangeDirectory(opened)
              /\ Onward(p, [writer[p] EXCEPT !.pc = IF InMarker(p) THEN "markersync" ELSE "appendsync",
                                             !.created = ~dir.log])
              /\ UNCHANGED faults
           \/ /\ Fault
              /\ \/ log' \in Partial(log, l) /\ ChangeDirectory(opened)
                 \/ UNCHANGED <<log, dir, maybe>>
              /\ LineFails(p)
    /\ UNCHANGED synced

\* The fsync of the log, which ends append_line unless this call created it.
SyncLine(p) ==
    /\ writer[p].pc \in {"markersync", "appendsync"}
    /\ \/ /\ synced' = Len(log)
          /\ \/ ~writer[p].created /\ LineDone(p)
             \/ writer[p].created /\ Goto(p, IF InMarker(p) THEN "markerdir" ELSE "appenddir")
          /\ UNCHANGED faults
       \/ Fault /\ LineFails(p) /\ UNCHANGED synced
    /\ UNCHANGED <<log, dir, maybe>>

\* The fsync of the directory after the log was created.
SyncLogEntry(p) ==
    /\ writer[p].pc \in {"markerdir", "appenddir"}
    /\ \/ SyncDirectory /\ LineDone(p) /\ UNCHANGED faults
       \/ Fault /\ LineFails(p) /\ UNCHANGED <<dir, maybe>>
    /\ UNCHANGED <<log, synced>>

\* write_head: the staged checkpoint replaces the old one.
PublishHead(p) ==
    /\ At(p, "head")
    /\ \/ /\ ChangeDirectory([dir EXCEPT !.head = [seq |-> writer[p].line.seq, hmac |-> writer[p].line.id]])
          /\ Goto(p, "headsync")
          /\ UNCHANGED faults
       \/ Fault /\ Return(p, FALSE) /\ UNCHANGED <<dir, maybe>>
    /\ UNCHANGED <<log, synced>>

\* The fsync of the directory that ends atomic_write.
SyncHead(p) ==
    /\ At(p, "headsync")
    /\ \/ SyncDirectory /\ Return(p, TRUE) /\ UNCHANGED faults
       \/ Fault /\ Return(p, FALSE) /\ UNCHANGED <<dir, maybe>>
    /\ UNCHANGED <<log, synced>>

-----------------------------------------------------------------------------
(* verify_log.                                                               *)

\* log_present, before any lock is taken.
VerifyStart ==
    /\ verifier.pc = "idle"
    /\ verifier' = [verifier EXCEPT !.pc = IF dir.log THEN "waiting" ELSE "absent"]
    /\ UNCHANGED <<log, synced, dir, maybe, writer, lock, events, acked, settled, faults>>

\* The walk of a present log, under the shared lock.
VerifyLocked ==
    /\ verifier.pc = "waiting"
    /\ lock = NoWriter
    /\ verifier' = [pc |-> "idle", locked |-> TRUE,
          verdict |-> IF VerifiesClean(log, dir.head, dir.key) THEN "clean" ELSE "dirty"]
    /\ UNCHANGED <<log, synced, dir, maybe, writer, lock, events, acked, settled, faults>>

\* The walk of a log that was absent: an empty content, and no lock.
VerifyAbsent ==
    /\ verifier.pc = "absent"
    /\ verifier' = [pc |-> "idle", locked |-> FALSE,
          verdict |-> IF VerifiesClean(<<>>, dir.head, dir.key) THEN "clean" ELSE "dirty"]
    /\ UNCHANGED <<log, synced, dir, maybe, writer, lock, events, acked, settled, faults>>

-----------------------------------------------------------------------------
(* The environment.                                                          *)

\* A writer dies; the operating system gives its lock back.
Die(p) ==
    /\ ~At(p, "idle")
    /\ Fault
    /\ writer' = [writer EXCEPT ![p] = Idle]
    /\ lock' = NoWriter
    /\ UNCHANGED <<log, synced, dir, maybe, events, acked, settled, verifier>>

\* The machine loses power: what no fsync covered may be gone or cut short, and
\* without its entry the log is gone.
LosePower ==
    /\ Fault
    /\ dir' \in maybe
    /\ maybe' = {dir'}
    /\ \/ ~dir'.log /\ log' = <<>>
       \/ /\ dir'.log
          /\ \E n \in synced..Len(log) :
                log' \in IF n = Len(log) THEN {log} ELSE Partial(SubSeq(log, 1, n), log[n + 1])
    /\ synced' = Len(log')
    /\ writer' = [p \in Writers |-> Idle]
    /\ lock' = NoWriter
    /\ verifier' = [verifier EXCEPT !.pc = "idle"]
    /\ UNCHANGED <<events, acked, settled>>

Write(p) ==
    \/ \E required \in BOOLEAN : Start(p, required)
    \/ LoadKey(p) \/ PublishKey(p) \/ SyncKey(p) \/ ReadLast(p)
    \/ WriteLine(p) \/ SyncLine(p) \/ SyncLogEntry(p) \/ PublishHead(p) \/ SyncHead(p)

Verify == VerifyStart \/ VerifyLocked \/ VerifyAbsent

Next == (\E p \in Writers : Write(p) \/ Die(p)) \/ Verify \/ LosePower

Spec == Init /\ [][Next]_vars

-----------------------------------------------------------------------------
(* Properties.                                                               *)

Lines == [kind : {"marker", "signed", "unsigned", "fragment"}, seq : Nat,
          prev : Nat, id : Nat, nl : BOOLEAN]

Heads == [seq : Nat, hmac : Nat]

Directories == [log : BOOLEAN, key : BOOLEAN, head : Heads]

\* The type invariant of the files and of the writers of audit.rs.
TypeOK ==
    /\ log \in Seq(Lines)
    /\ synced \in 0..Len(log)
    /\ dir \in Directories /\ maybe \subseteq Directories
    /\ writer \in [Writers ->
          [pc : {"idle", "key", "publish", "keysync", "marker", "markersync", "markerdir", "read",
                 "append", "appendsync", "appenddir", "head", "headsync"},
           required : BOOLEAN, signed : BOOLEAN, created : BOOLEAN, line : Lines]]
    /\ lock \in Writers \cup {NoWriter}
    /\ events \in Nat /\ acked \subseteq Nat /\ settled \in BOOLEAN
    /\ verifier \in [pc : {"idle", "absent", "waiting"}, locked : BOOLEAN,
                     verdict : {"none", "clean", "dirty"}]
    /\ faults \in Nat

\* The chain of read_last_hmac and read_last_seq: whatever writes were cut
\* short, whichever writers died, every signed event names the signed event
\* before it and the sequence numbers count up from 1 without a gap.
ChainIsUnbroken ==
    \A i \in Signed(log) :
        LET earlier == {j \in Signed(log) : j < i}
            before == log[Max(earlier)]
        IN  IF earlier = {} THEN log[i].prev = Genesis /\ log[i].seq \in {0, 1}
            ELSE log[i].prev = before.id /\ log[i].seq = before.seq + 1

\* log_result in required mode: an event reported as written is a signed line
\* of the log for good, a power loss right after the report included.
AcknowledgedIsDurable ==
    \A e \in acked :
        /\ \A d \in maybe : d.log
        /\ \E i \in 1..synced : log[i].kind = "signed" /\ log[i].id = e

\* append_line's comment: "a head checkpoint written afterwards never points
\* past durable log content", whichever version of the checkpoint survives.
\* Not so where directory changes are reordered: who finds the log does not
\* sync its entry, though the writer that created it may have died before.
HeadNotAhead ==
    \A d \in maybe : d.head # NoHead =>
        /\ d.log
        /\ \E i \in 1..synced :
              log[i].kind = "signed" /\ log[i].id = d.head.hmac /\ log[i].seq = d.head.seq

\* write_event: once a signed write returned Ok, and until the next begins,
\* the checkpoint names the last signed line, even after a power loss.
CheckpointFollows ==
    settled => dir.head = [seq |-> LastSeq(log), hmac |-> LastHmac(log)]

\* A verification under the shared lock never sees the middle of a write: with
\* no failure anywhere its report is clean.
LockedVerifyIsFair ==
    verifier.verdict = "dirty" /\ verifier.locked => faults > 0

Swap(s, i, j) == [s EXCEPT ![i] = s[j], ![j] = s[i]]

\* verify_log_content against a clean log with a checkpoint: losing, editing
\* or exchanging signed lines, or losing the only marker, never verifies.
DamageIsSeen ==
    VerifiesClean(log, dir.head, dir.key) /\ dir.head # NoHead =>
        LET Clean(s) == VerifiesClean(s, dir.head, dir.key)
            signed == {i \in 1..Len(log) : log[i].kind = "signed"}
            markers == {i \in 1..Len(log) : log[i].kind = "marker"}
        IN  /\ \A i \in signed : ~Clean(RemoveAt(log, i))
            /\ \A i \in signed : ~Clean([log EXCEPT ![i].kind = "edited"])
            /\ \A i, j \in signed : i # j => ~Clean(Swap(log, i, j))
            /\ Cardinality(markers) = 1 => \A i \in markers : ~Clean(RemoveAt(log, i))

\* The comment in verify_log_content: "The chain marker has accompanied signed
\* audit eras since HMAC chaining was introduced".
SignedErasHaveMarkers ==
    Signed(log) # {} => \E i \in 1..Len(log) : log[i].kind = "marker"

\* run_verify's comment: a missing log beside a checkpoint "is a deletion", so
\* a log that nothing ever disturbed is never reported damaged.
UndisturbedVerifiesClean == verifier.verdict = "dirty" => faults > 0

\* What the audit log promises, whatever writers die and power is lost.
AuditSafe ==
    /\ TypeOK
    /\ ChainIsUnbroken /\ AcknowledgedIsDurable /\ HeadNotAhead /\ CheckpointFollows
    /\ LockedVerifyIsFair /\ DamageIsSeen
=============================================================================
