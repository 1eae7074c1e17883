-------------------------- MODULE ResponseScrubber --------------------------
(***************************************************************************)
(* The response scrubber of phantom-proxy.  A response arrives in chunks    *)
(* that may cut a secret anywhere.  The exact stage holds back the bytes    *)
(* that may still become a managed value or a known credential format and   *)
(* replaces complete ones by a marker; after an unbounded format it drops   *)
(* the bytes that continue it.  The partial stage then replaces every run   *)
(* of at least PartialMinRun bytes of a managed value.  A buffered body     *)
(* goes through the same grammars in one scan.                              *)
(*                                                                          *)
(* Bytes are members of a small alphabet; a marker is one element that is   *)
(* not a byte.                                                              *)
(***************************************************************************)
EXTENDS Naturals, Sequences, FiniteSets, SequencesExt

CONSTANTS
    Bytes,              \* the alphabet
    TokenBytes,         \* the bytes of token-like values
    Separators,         \* the bytes that end a public prefix
    Managed,            \* the managed values, in the order they are tried
    Formats,            \* the credential formats, in catalog order
    PartialMinRun,      \* PARTIAL_MIN_RUN
    PartialMinLen,      \* PARTIAL_MIN_VALUE_LEN
    PublicPrefixScan,   \* PUBLIC_PREFIX_SCAN
    MaxInput,           \* bound: bytes of a response
    MaxChunk            \* bound: bytes of a chunk

\* What the constants have to satisfy.
ScrubberAssumption ==
    /\ PartialMinRun \in Nat \ {0}
    /\ \A i \in 1..Len(Formats) : Formats[i].class \subseteq Bytes /\ Formats[i].min \in Nat \ {0}

Marker == "marker"

VARIABLES
    input,      \* what the upstream has sent
    output,     \* what the client has received
    scan,       \* StreamingScrubState
    finished

vars == <<input, output, scan, finished>>

MaxOf(S) == CHOOSE m \in S : \A k \in S : k <= m

MinOf(S) == CHOOSE m \in S : \A k \in S : m <= k

-----------------------------------------------------------------------------
(* Managed values and their eligible windows.                                *)

IsTokenLike(v) == Len(v) >= PartialMinLen /\ \A i \in 1..Len(v) : v[i] \in TokenBytes

PublicPrefixLen(v) ==
    MaxOf({0} \cup {i \in 1..Len(v) : i <= PublicPrefixScan /\ v[i] \in Separators})

\* partial_window_starts: no window inside the public prefix.
WindowStarts(v) ==
    IF IsTokenLike(v) /\ Len(v) >= PartialMinRun
    THEN {i \in 1..(Len(v) - PartialMinRun + 1) : i + PartialMinRun > PublicPrefixLen(v) + 1}
    ELSE {}

Windows ==
    UNION {{SubSeq(Managed[k], i, i + PartialMinRun - 1) : i \in WindowStarts(Managed[k])}
              : k \in 1..Len(Managed)}

IsManagedPrefix(c) ==
    c # <<>> /\ \E k \in 1..Len(Managed) : IsStrictPrefix(c, Managed[k])

\* managed_prefix_match: the lengths of the values that c starts with.
ManagedMatches(c) ==
    {Len(Managed[k]) : k \in {j \in 1..Len(Managed) : Managed[j] # <<>> /\ IsPrefix(Managed[j], c)}}

-----------------------------------------------------------------------------
(* Formats: a public prefix and then at least min bytes of a class.          *)

RunLen(c, class) ==
    MaxOf({n \in 0..Len(c) : \A i \in 1..n : c[i] \in class})

\* complete_prefix_len, 0 when there is none.
CompleteLen(f, c) ==
    IF ~IsPrefix(f.prefix, c) THEN 0
    ELSE LET run == RunLen(SubSeq(c, Len(f.prefix) + 1, Len(c)), f.class)
         IN  IF run < f.min THEN 0
             ELSE Len(f.prefix) + (IF f.unbounded THEN run ELSE f.min)

\* is_incomplete_prefix.
IsIncomplete(f, c) ==
    IF Len(c) <= Len(f.prefix) THEN IsPrefix(c, f.prefix)
    ELSE /\ IsPrefix(f.prefix, c)
         /\ Len(c) - Len(f.prefix) < f.min
         /\ \A i \in (Len(f.prefix) + 1)..Len(c) : c[i] \in f.class

MatchingFormats(c) == {k \in 1..Len(Formats) : CompleteLen(Formats[k], c) > 0}

-----------------------------------------------------------------------------
(* The exact stage.                                                          *)

Drop(s, n) == [s EXCEPT !.pending = SubSeq(@, n + 1, Len(@))]

Redact(s, n) == [Drop(s, n) EXCEPT !.out = Append(@, Marker)]

\* drain_stream_pending
RECURSIVE Drain(_, _)
Drain(s, finish) ==
    LET p == s.pending
        k == MinOf(MatchingFormats(p))
        len == CompleteLen(Formats[k], p)
    IN
    CASE p = <<>> -> s
      [] p # <<>> /\ ~finish /\ IsManagedPrefix(p) -> s
      [] p # <<>> /\ (finish \/ ~IsManagedPrefix(p)) /\ ManagedMatches(p) # {} ->
            Drain(Redact(s, MaxOf(ManagedMatches(p))), finish)
      [] p # <<>> /\ (finish \/ ~IsManagedPrefix(p)) /\ ManagedMatches(p) = {}
            /\ MatchingFormats(p) # {} ->
            IF ~finish /\ Formats[k].unbounded /\ len = Len(p)
            THEN [Redact(s, len) EXCEPT !.suppressing = k,
                     !.prefix = SubSeq(p, 1, Len(Formats[k].prefix) + Formats[k].min)]
            ELSE Drain(Redact(s, len), finish)
      [] OTHER ->
            IF ~finish /\ \E j \in 1..Len(Formats) : IsIncomplete(Formats[j], p) THEN s
            ELSE Drain([Drop(s, 1) EXCEPT !.out = Append(@, p[1])], finish)

ClearSuppression(s) == [s EXCEPT !.suppressing = 0, !.prefix = <<>>]

\* The loop body of process_stream_bytes.
TakeByte(s, byte) ==
    IF s.suppressing > 0 /\ byte \in Formats[s.suppressing].class THEN s
    ELSE Drain([ClearSuppression(s) EXCEPT !.pending = Append(@, byte)], FALSE)

ExactStage(s, chunk, finish) ==
    LET fed == FoldLeft(TakeByte, [s EXCEPT !.out = <<>>], chunk)
    IN  IF finish THEN Drain(ClearSuppression(fed), TRUE) ELSE fed

-----------------------------------------------------------------------------
(* The partial stage.                                                        *)

\* partial_runs: the positions of buf that a window covers.
Covered(buf) ==
    {i \in 1..Len(buf) : \E j \in 1..i :
        /\ i < j + PartialMinRun
        /\ j + PartialMinRun - 1 <= Len(buf)
        /\ SubSeq(buf, j, j + PartialMinRun - 1) \in Windows}

\* partial_hold_start: how many bytes of buf can no longer begin a window.
HoldStart(buf) ==
    MinOf({Len(buf)} \cup
          {j \in 0..(Len(buf) - 1) :
              /\ j + PartialMinRun - 1 >= Len(buf)
              /\ \E w \in Windows : IsPrefix(SubSeq(buf, j + 1, Len(buf)), w)})

\* The first n bytes of buf, each run of marked ones replaced by one marker;
\* a run that began before buf already has its marker.
Replaced(buf, n, marked, inRun) ==
    LET Put(acc, i) ==
            IF i \notin marked THEN [out |-> Append(acc.out, buf[i]), in |-> FALSE]
            ELSE [out |-> IF acc.in THEN acc.out ELSE Append(acc.out, Marker), in |-> TRUE]
    IN  FoldLeft(Put, [out |-> <<>>, in |-> inRun], [i \in 1..n |-> i])

\* Mutant: the marks of the bytes held back are forgotten.
PartialStageForgetful(s, finish) ==
    IF Windows = {} THEN s
    ELSE LET buf == s.tail \o s.out
             marked == Covered(buf)
             n == IF finish THEN Len(buf) ELSE HoldStart(buf)
             done == Replaced(buf, n, marked, s.inRun)
         IN  IF n = 0 THEN [s EXCEPT !.tail = buf, !.out = <<>>]
             ELSE [s EXCEPT !.out = done.out, !.inRun = done.in,
                            !.tail = SubSeq(buf, n + 1, Len(buf)), !.marked = 0]

\* partial_stage: the bytes that are final are emitted, the others wait with
\* the marks that windows beginning before them have left.
PartialStage(s, finish) ==
    IF Windows = {} THEN s
    ELSE LET buf == s.tail \o s.out
             marked == Covered(buf) \cup 1..s.marked
             n == IF finish THEN Len(buf) ELSE HoldStart(buf)
             done == Replaced(buf, n, marked, s.inRun)
             started == {i \in marked : \A k \in (n + 1)..i : k \in marked}
             carried == IF n + 1 \in marked /\ n \in marked
                        THEN Cardinality({i \in started : i > n}) ELSE 0
         IN  IF n = 0 THEN [s EXCEPT !.tail = buf, !.out = <<>>]
             ELSE [s EXCEPT !.out = done.out, !.inRun = done.in,
                            !.tail = SubSeq(buf, n + 1, Len(buf)), !.marked = carried]

Process(s, chunk, finish) == PartialStage(ExactStage(s, chunk, finish), finish)

NewScan ==
    [pending |-> <<>>, suppressing |-> 0, prefix |-> <<>>, out |-> <<>>,
     tail |-> <<>>, marked |-> 0, inRun |-> FALSE]

-----------------------------------------------------------------------------
(* A buffered body.                                                          *)

\* str::replace of value v by a marker, left to right.
RECURSIVE ReplaceAllOf(_, _)
ReplaceAllOf(v, s) ==
    CASE Len(s) < Len(v) -> s
      [] Len(s) >= Len(v) /\ IsPrefix(v, s) ->
            <<Marker>> \o ReplaceAllOf(v, SubSeq(s, Len(v) + 1, Len(s)))
      [] OTHER -> <<s[1]>> \o ReplaceAllOf(v, Tail(s))

\* match_ranges of one format, each replaced by a marker.
RECURSIVE ReplaceFormat(_, _)
ReplaceFormat(f, s) ==
    CASE s = <<>> -> s
      [] s # <<>> /\ CompleteLen(f, s) > 0 ->
            <<Marker>> \o ReplaceFormat(f, SubSeq(s, CompleteLen(f, s) + 1, Len(s)))
      [] OTHER -> <<s[1]>> \o ReplaceFormat(f, Tail(s))

\* scan_str: managed values, partial runs, then the formats.
ScanStr(body) ==
    LET exact == FoldLeft(LAMBDA acc, v : ReplaceAllOf(v, acc), body, Managed)
        partial == Replaced(exact, Len(exact), Covered(exact), FALSE).out
    IN  FoldLeft(LAMBDA acc, f : ReplaceFormat(f, acc), partial, Formats)

-----------------------------------------------------------------------------
Init ==
    /\ input = <<>>
    /\ output = <<>>
    /\ scan = NewScan
    /\ finished = FALSE

Emit(s) ==
    /\ output' = output \o s.out
    /\ scan' = [s EXCEPT !.out = <<>>]

Chunks == UNION {[1..n -> Bytes] : n \in 1..MaxChunk}

\* scrub_stream_chunk
ScrubStreamChunk(chunk) ==
    /\ ~finished
    /\ Len(input) + Len(chunk) <= MaxInput
    /\ input' = input \o chunk
    /\ Emit(Process(scan, chunk, FALSE))
    /\ UNCHANGED finished

\* finish_stream
FinishStream ==
    /\ ~finished
    /\ finished' = TRUE
    /\ Emit(Process(scan, <<>>, TRUE))
    /\ UNCHANGED input

Next ==
    \/ \E chunk \in Chunks : ScrubStreamChunk(chunk)
    \/ FinishStream

Spec == Init /\ [][Next]_vars

-----------------------------------------------------------------------------
(* Properties.                                                               *)

\* The type invariant of the stream.
TypeOK ==
    /\ input \in Seq(Bytes)
    /\ output \in Seq(Bytes \cup {Marker})
    /\ scan.pending \in Seq(Bytes)
    /\ scan.suppressing \in 0..Len(Formats)
    /\ scan.tail \in Seq(Bytes \cup {Marker})
    /\ scan.marked \in 0..Len(scan.tail)
    /\ scan.out = <<>>

Occurs(w, s) == \E i \in 1..Len(s) : IsPrefix(w, SubSeq(s, i, Len(s)))

\* scrub_stream_chunk's promise "across every possible chunk boundary": however
\* a response is cut, what the client receives is what a single chunk gives.
CutDoesNotMatter ==
    finished => LET whole == Process(NewScan, input, FALSE)
                IN  output = whole.out \o Process(whole, <<>>, TRUE).out

\* Nothing that reached the client contains a managed value or a run that the
\* partial stage is there for.
NothingManagedLeaves ==
    /\ \A k \in 1..Len(Managed) : ~Occurs(Managed[k], output)
    /\ \A w \in Windows : ~Occurs(w, output)

\* Streaming and buffered scrubbing use the same grammars: both leave a body
\* alone, or both find something in it.
BufferedAgrees == finished => (output = input) = (ScanStr(input) = input)

\* stream_buffer_bound, the debug assertion of scrub_stream_chunk.
BufferIsBounded ==
    LET managed == MaxOf({0} \cup {Len(Managed[k]) : k \in 1..Len(Managed)})
        format == MaxOf({0} \cup {Len(Formats[k].prefix) + Formats[k].min : k \in 1..Len(Formats)})
        partial == IF Windows = {} THEN 0 ELSE PartialMinRun - 1
        exact == IF managed > 0 /\ managed - 1 > format THEN managed - 1 ELSE format
    IN  Len(scan.pending) + Len(scan.prefix) + Len(scan.tail) <= exact + partial

\* What the client may rely on, however the response is cut.
ScrubSafe == TypeOK /\ CutDoesNotMatter /\ NothingManagedLeaves
=============================================================================
