------------------------------- MODULE Dotenv -------------------------------
(***************************************************************************)
(* The dotenv files of phantom-core: the lenient parser with its spans, and  *)
(* the rewrites that replace exactly these spans: values by tokens (init),   *)
(* appended mappings (add), a mapping that goes (remove), and the shareable  *)
(* example in which everything that looks like a credential is masked.       *)
(*                                                                           *)
(* A file is a sequence of characters: letters, "T" for a token, "S" for a   *)
(* word that the value rules call a credential, "x" for the word export, "P" *)
(* for a placeholder, "C" for the text of a removed comment, and the         *)
(* characters that have a meaning: blank, "n" and "r" (line feed, carriage   *)
(* return), "=", "#", the quotes "d" (double) and "s" (single), and "b", the *)
(* backslash.  Left out are the byte order mark, the escapes that stand for  *)
(* white space, and the names (or the config) that make an entry a secret    *)
(* whatever its value is.                                                    *)
(***************************************************************************)
EXTENDS Naturals, Sequences, FiniteSets, SequencesExt, FiniteSetsExt

CONSTANTS
    Letters,    \* the characters of names
    Names,      \* the names a token map may hold
    Drafts      \* the files: how one begins, what a user types, and a bound on
                \* the characters typed

\* What the constants have to satisfy.
DotenvAssumption == {"T", "S", "x", "P"} \subseteq Letters /\ \A d \in Drafts : d.typed \in Nat

VARIABLES
    draft,      \* the file a user types
    file,       \* the file, parsed
    from,       \* the file before the rewrite
    op          \* the rewrite

vars == <<draft, file, from, op>>

NoOp == [kind |-> "none", names |-> {}]

-----------------------------------------------------------------------------
(* The parser.  A span is a pair: its first position and the one after it.   *)

\* physical_line_bounds: the end of the content and the start of the next line.
LineEnd(s, i) == Min({j \in i..Len(s) : s[j] \in {"n", "r"}} \cup {Len(s) + 1})

NextLine(s, i) ==
    LET e == LineEnd(s, i) IN
    IF e > Len(s) THEN e
    ELSE IF s[e] = "r" /\ e < Len(s) /\ s[e + 1] = "n" THEN e + 2 ELSE e + 1

SkipBlanks(s, i, end) == Min({j \in i..end : j = end \/ s[j] # " "})

TrimEnd(s, i, end) == Max({j \in i..end : j = i \/ s[j - 1] # " "})

StartsWith(v, c) == v # <<>> /\ v[1] = c

\* find_closing_quote: in double quotes a backslash takes the next character
\* with it, so a quote closes after an even run of them.  0 if none closes.
Closing(s, i, q) ==
    LET run(j) == j - Min({k \in i..j : \A m \in k..(j - 1) : s[m] = "b"})
        closers == {j \in i..Len(s) : s[j] = q /\ (q = "d" => run(j) % 2 = 0)}
    IN  IF closers = {} THEN 0 ELSE Min(closers)

\* unescape_double_quoted: an unknown escape keeps its backslash.
RECURSIVE Unescape(_)
Unescape(v) ==
    IF v = <<>> THEN <<>>
    ELSE IF v[1] = "b" /\ Len(v) > 1 /\ v[2] \in {"b", "d", "s"}
    THEN <<v[2]>> \o Unescape(SubSeq(v, 3, Len(v)))
    ELSE <<v[1]>> \o Unescape(Tail(v))

\* normalize_line_endings.
Normal(v) ==
    SelectSeq([i \in DOMAIN v |->
                 IF v[i] # "r" THEN v[i] ELSE IF i < Len(v) /\ v[i + 1] = "n" THEN "drop" ELSE "n"],
              LAMBDA c : c # "drop")

\* Where the comment after an unquoted value begins: at a # after a blank.
Comment(s, eq, start, end) ==
    Min({j \in start..(end - 1) :
            s[j] = "#" /\ ((j = start /\ start > eq + 1) \/ (j > start /\ s[j - 1] = " "))} \cup {end})

Entry(key, value, first, next, a, b) ==
    [key |-> key, value |-> value, span |-> <<first, next>>, inner |-> <<a, b>>]

\* A quoted value, with what may follow it on its line.
Quoted(s, i, key, start, close) ==
    LET after == SkipBlanks(s, close + 1, LineEnd(s, close))
        raw == Normal(SubSeq(s, start + 1, close - 1))
    IN  [records |-> <<Entry(key, IF s[start] = "d" THEN Unescape(raw) ELSE raw,
                             i, NextLine(s, close), start + 1, close)>>,
         clean |-> after > Len(s) \/ s[after] \in {"n", "r", "#"}]

Unquoted(s, i, key, start, stop) ==
    [records |-> <<Entry(key, SubSeq(s, start, stop - 1), i, NextLine(s, i), start, stop)>>,
     clean |-> TRUE]

Issue == [records |-> <<>>, clean |-> FALSE]

IsName(key) == key # <<>> /\ \A j \in DOMAIN key : key[j] \in Letters

\* The assignment whose line begins at i, whose "=" is at eq and whose value
\* begins at start: its record, or none where a quote does not close.
Assignment(s, i, key, eq, start) ==
    IF start <= Len(s) /\ s[start] \in {"d", "s"}
    THEN LET close == Closing(s, start + 1, s[start])
         IN  IF close = 0 THEN Issue ELSE Quoted(s, i, key, start, close)
    ELSE Unquoted(s, i, key, start, TrimEnd(s, start, Comment(s, eq, start, LineEnd(s, i))))

\* What stands before the "=" and between the blanks.
Key(s, keyFrom, eq) == SubSeq(s, keyFrom, TrimEnd(s, keyFrom, eq) - 1)

FirstEq(s, i, end) == Min({j \in i..end : j = end \/ s[j] = "="})

\* Where an assignment begins: after "export ".
AfterExport(s, i, end) == IF i + 1 < end /\ s[i] = "x" /\ s[i + 1] = " " THEN i + 2 ELSE i

\* parse_str, from position i on: the records, and whether there is no issue.
\* A quote that does not close is the end of it.
RECURSIVE ParseFrom(_, _)

Then(s, head, next) ==
    LET rest == ParseFrom(s, next)
    IN  [records |-> head.records \o rest.records, clean |-> head.clean /\ rest.clean]

ParseAssignment(s, i, key, eq, end) ==
    LET a == Assignment(s, i, key, eq, SkipBlanks(s, eq + 1, end))
    IN  IF a.records = <<>> THEN a ELSE Then(s, a, a.records[1].span[2])

ParseNamed(s, i, work, eq, end) ==
    LET key == Key(s, SkipBlanks(s, work, eq), eq)
    IN  IF eq < end /\ IsName(key) THEN ParseAssignment(s, i, key, eq, end)
        ELSE Then(s, Issue, NextLine(s, i))

ParseLine(s, i, first, end) ==
    IF first = end \/ s[first] = "#" THEN ParseFrom(s, NextLine(s, i))
    ELSE LET work == AfterExport(s, first, end) IN ParseNamed(s, i, work, FirstEq(s, work, end), end)

ParseFrom(s, i) ==
    IF i > Len(s) THEN [records |-> <<>>, clean |-> TRUE]
    ELSE ParseLine(s, i, SkipBlanks(s, i, LineEnd(s, i)), LineEnd(s, i))

Parsed(s, p) == [source |-> s, records |-> p.records, clean |-> p.clean]

\* A file with what its parser has found.
Parse(s) == Parsed(s, ParseFrom(s, 1))

IsPhantom(r) == StartsWith(r.value, "T")

Keys(d) == {r.key : r \in ToSet(d.records)}

\* validate_for_mutation: no issue, and no name twice.
Mutable(d) == d.clean /\ Cardinality(Keys(d)) = Len(d.records)

-----------------------------------------------------------------------------
(* The rewrites.                                                             *)

\* splice_source: ordered replacements of spans that do not overlap.
RECURSIVE Splice(_, _, _)
Splice(s, cursor, reps) ==
    IF reps = <<>> THEN SubSeq(s, cursor, Len(s))
    ELSE SubSeq(s, cursor, reps[1].span[1] - 1) \o reps[1].by
         \o Splice(s, reps[1].span[2], Tail(reps))

Disjoint(reps) == \A i \in 1..(Len(reps) - 1) : reps[i].span[2] <= reps[i + 1].span[1]

\* Mutant: a value before a comment gets no separator.
RenderPlain(s, span, c) == <<c>>

\* render_replacement: a token does not merge with a comment after it.
Render(s, span, c) ==
    IF span[1] = span[2] /\ span[2] <= Len(s) /\ s[span[2]] = "#" THEN <<c, " ">> ELSE <<c>>

Replacement(s, span, c) == [span |-> span, by |-> Render(s, span, c)]

Replacements(s, records, c) == [i \in DOMAIN records |-> Replacement(s, records[i].inner, c)]

\* rewrite_with_phantoms.
Rewritten(d, map) ==
    Splice(d.source, 1, Replacements(d.source, SelectSeq(d.records, LAMBDA r : r.key \in map), "T"))

\* preferred_line_ending: that of the first line that has one.
Eol(s) ==
    LET e == LineEnd(s, 1)
    IN  IF e > Len(s) THEN <<"n">> ELSE SubSeq(s, e, NextLine(s, 1) - 1)

\* upsert_with_phantoms: the absent names, each on a line of its own, after
\* what is there.
Lines(names, eol, ended) ==
    FlattenSeq([i \in DOMAIN names |->
        names[i] \o <<"=", "T">> \o (IF i < Len(names) \/ ended THEN eol ELSE <<>>)])

Extended(s, rewritten, absent, ended) ==
    rewritten \o (IF s = <<>> \/ ended THEN <<>> ELSE Eol(s)) \o Lines(SetToSeq(absent), Eol(s), ended)

Upserted(d, map) ==
    Extended(d.source, Rewritten(d, map), map \ Keys(d),
             d.source # <<>> /\ Last(d.source) \in {"n", "r"})

\* remove_phantom_mapping.
Removed(d, r) == Splice(d.source, 1, <<[span |-> r.span, by |-> <<>>]>>)

\* classify, for names that no rule knows: a known prefix of the value decides.
Secret(v) == StartsWith(v, "S")

\* commented_tails: the full-line comments outside every record, each with the
\* position of its first #, of its text and of its end, and its text parsed.
Commented(s, hash, start, end) ==
    [hash |-> hash, start |-> start, end |-> end, text |-> Parse(SubSeq(s, start, end - 1))]

AfterMarks(s, hash, end) == SkipBlanks(s, Min({j \in hash..end : j = end \/ s[j] # "#"}), end)

Tails(d) ==
    LET Begins(i) == i = 1 \/ \E j \in 1..(i - 1) : NextLine(d.source, j) = i
        Outside(i) == \A r \in ToSet(d.records) : i < r.span[1] \/ r.span[2] <= i
        hashes == {SkipBlanks(d.source, i, LineEnd(d.source, i)) :
                     i \in {j \in 1..Len(d.source) : Begins(j) /\ Outside(j)}}
    IN  {Commented(d.source, h, AfterMarks(d.source, h, LineEnd(d.source, h)), LineEnd(d.source, h)) :
            h \in {k \in hashes : k <= Len(d.source) /\ d.source[k] = "#"}}

\* comment_holds_credential: a blank-separated word, or what follows the first
\* "=" in one, is a credential once marks and quotes are trimmed off it.
HoldsCredential(c) ==
    LET Punctuation == {"#", "d", "s"}
        begins(i) == i = 1 \/ c[i - 1] \in {" ", "n"}
        bare(i) == \E j \in i..Len(c) : c[j] = "S" /\ \A k \in i..(j - 1) : c[k] \in Punctuation
        word(i) == {k \in i..Len(c) : \A m \in i..k : c[m] # " "}
        eqs(i) == {k \in word(i) : c[k] = "="}
    IN  \E i \in 1..Len(c) :
            begins(i) /\ (bare(i) \/ (eqs(i) # {} /\ bare(Min(eqs(i)) + 1)))

\* commented_secret_value_span: the value of a commented-out assignment, also
\* of one whose quote does not close on the line.  Empty if it is no secret.
Judged(t, start) == IF t[start] \in {"d", "s"} THEN start + 1 ELSE start

RawValue(t, start, stop) ==
    IF start < stop /\ Secret(SubSeq(t, Judged(t, start), stop - 1)) THEN {<<start, stop>>} ELSE {}

RawAssignment(t, base, eq) ==
    IF eq <= Len(t) /\ IsName(Key(t, SkipBlanks(t, base, eq), eq))
    THEN LET start == SkipBlanks(t, eq + 1, Len(t) + 1)
         IN  RawValue(t, start, TrimEnd(t, start, Len(t) + 1))
    ELSE {}

CommentedValue(d) ==
    LET t == d.source
        base == AfterExport(t, 1, Len(t) + 1)
    IN  IF d.records = <<>> THEN RawAssignment(t, base, FirstEq(t, base, Len(t) + 1))
        ELSE {r.inner : r \in {q \in {d.records[1]} : ~IsPhantom(q) /\ Secret(q.value)}}

\* credential_comment_span: the comment after a value, if it holds a credential.
CommentAfter(s, hash, end) ==
    IF hash < end /\ s[hash] = "#" /\ HoldsCredential(SubSeq(s, hash, end - 1)) THEN {<<hash, end>>} ELSE {}

CommentFrom(s, after) == CommentAfter(s, SkipBlanks(s, after, LineEnd(s, after)), LineEnd(s, after))

CommentSpan(s, inner) ==
    LET quoted == inner[1] > 1 /\ s[inner[1] - 1] \in {"d", "s"}
    IN  CommentFrom(s, IF quoted THEN inner[2] + 1 ELSE inner[2])

Shift(spans, by) == {<<p[1] + by, p[2] + by>> : p \in spans}

\* commented_secret_value_spans.
CommentedValues(tails) == UNION {Shift(CommentedValue(t.text), t.start - 1) : t \in tails}

\* credential_comment_spans: after a value, commented out or not.
CommentSpans(d, tails) ==
    LET Tailing(text) ==
            UNION {CommentSpan(text.source, text.records[i].inner) : i \in DOMAIN text.records \cap {1}}
    IN  UNION {CommentSpan(d.source, r.inner) : r \in ToSet(d.records)}
            \cup UNION {Shift(Tailing(t.text), t.start - 1) : t \in tails}

\* credential_prose_comment_spans: a comment that is no assignment.
ProseSpans(tails) ==
    LET Prose(c) == c.records = <<>> /\ CommentedValue(c) = {} /\ HoldsCredential(c.source)
    IN  {<<t.hash, t.end>> : t \in {u \in tails : Prose(u.text)}}

Secrets(d) == SelectSeq(d.records, LAMBDA r : IsPhantom(r) \/ Secret(r.value))

\* Mutant: comments are copied as they are.
MasksValuesOnly(d, tails) == Replacements(d.source, Secrets(d), "P")

\* Every span that the example masks, with what takes its place.
Masks(d, tails) ==
    LET masked == ToSet(Replacements(d.source, Secrets(d), "P"))
                    \cup {Replacement(d.source, p, "P") : p \in CommentedValues(tails)}
                    \cup {[span |-> p, by |-> <<"#", "C">>] :
                             p \in CommentSpans(d, tails) \cup ProseSpans(tails)}
    IN  SortSeq(SetToSeq(masked), LAMBDA a, b : a.span[1] < b.span[1])

\* generate_example_content, without its header.  Spans that overlap would
\* make the splice go back in the source.
Example(s, masks) == IF Disjoint(masks) THEN Splice(s, 1, masks) ELSE <<"overlap">>

-----------------------------------------------------------------------------
(* A user types a file, and then a command rewrites it.                      *)

Init == draft \in Drafts /\ file = Parse(draft.opening) /\ from = file /\ op = NoOp

Type(c) ==
    /\ op = NoOp /\ Len(file.source) < Len(draft.opening) + draft.typed
    /\ file' = Parse(Append(file.source, c))
    /\ from' = file'
    /\ UNCHANGED <<draft, op>>

Apply(kind, names, result) ==
    /\ file' = Parse(result)
    /\ op' = [kind |-> kind, names |-> names]
    /\ UNCHANGED <<draft, from>>

RewriteWithPhantoms(map) == map \subseteq Keys(file) /\ Apply("rewrite", map, Rewritten(file, map))

UpsertWithPhantoms(map) == ~(map \subseteq Keys(file)) /\ Apply("upsert", map, Upserted(file, map))

RemovePhantomMapping(r) == IsPhantom(r) /\ Apply("remove", {r.key}, Removed(file, r))

GenerateExample == Apply("example", {}, Example(file.source, Masks(file, Tails(file))))

Rewrite ==
    /\ op = NoOp /\ Mutable(file)
    /\ \/ \E map \in SUBSET Names \ {{}} : RewriteWithPhantoms(map) \/ UpsertWithPhantoms(map)
       \/ \E r \in ToSet(file.records) : RemovePhantomMapping(r)
       \/ GenerateExample

Next == (\E c \in draft.alphabet : Type(c)) \/ Rewrite

Spec == Init /\ [][Next]_vars

-----------------------------------------------------------------------------
(* Properties.                                                               *)

Entries(d) == [i \in DOMAIN d.records |-> <<d.records[i].key, d.records[i].value>>]

\* What a rewritten file should read back as.
Expected(old) ==
    CASE op.kind = "remove" -> SelectSeq(old, LAMBDA e : e[1] \notin op.names)
      [] OTHER -> [i \in DOMAIN old |-> IF old[i][1] \in op.names THEN <<old[i][1], <<"T">>>> ELSE old[i]]

\* Read back, a rewritten file has the same entries in the same order, a token
\* where the map has one and its old value where it has none, and after an
\* upsert the missing names; a removal takes one entry and no other.  None of
\* them leaves a file the parser finds fault with.
RewriteIsExact ==
    op.kind \in {"rewrite", "upsert", "remove"} =>
        LET Appended(expected, new) ==
                /\ IsPrefix(expected, new)
                /\ {new[i] : i \in (Len(expected) + 1)..Len(new)} =
                      {<<k, <<"T">>>> : k \in IF op.kind = "upsert" THEN op.names \ Keys(from) ELSE {}}
        IN  Mutable(file) /\ Appended(Expected(Entries(from)), Entries(file))

\* Nothing is left in an example that it would have to mask: no value,
\* commented-out value or comment that holds a credential; and it is a file
\* the parser takes.
ExampleHoldsNoCredential ==
    op.kind = "example" =>
        LET Clean(tails) == CommentedValues(tails) = {} /\ CommentSpans(file, tails) = {} /\ ProseSpans(tails) = {}
        IN  /\ Mutable(file) /\ Secrets(file) = <<>> /\ Clean(Tails(file))
            /\ Keys(file) = Keys(from)
=============================================================================
