------------------------------- MODULE MCProxy -------------------------------
(***************************************************************************)
(* The proxy for TLC: its connections and requests, the scrubber of what     *)
(* comes back, and the rate limiter; and with the scrubber the other text    *)
(* that credentials are taken out of, the dotenv file.                       *)
(*                                                                           *)
(* As in MCRecords a behaviour has one scenario, in which one component      *)
(* acts.  The server is the module this one extends, so its properties are   *)
(* checked as they are proved; the other components are instances.           *)
(***************************************************************************)
EXTENDS ProxyServer, Sequences, TLC

CONSTANTS Scenarios, c1, c2

VARIABLES
    scenario,
    input, output, scan, finished,
    now, short, long, global, log,
    draft, file, from, op

scrubber == <<input, output, scan, finished>>
limiter == <<now, short, long, global, log>>
dotenv == <<draft, file, from, op>>

-----------------------------------------------------------------------------
(* The scenarios.                                                            *)

Good(size) == [token |-> "header", path |-> "route", usable |-> TRUE, size |-> size]

\* Two clients compete for one request slot and a budget of two bytes (Proxy.cfg):
\* every early return once, an ordinary request and one above the cap.
AllRequests ==
    {Good(1), Good(3), [Good(1) EXCEPT !.usable = FALSE], [Good(1) EXCEPT !.token = "url"],
     [Good(1) EXCEPT !.token = "none"]}
    \cup {[Good(1) EXCEPT !.path = p] : p \in {"health", "misplaced", "dots", "unknown", "forbidden"}}

\* A short managed value that begins a long one, whose public prefix it is, an
\* unbounded format and a fixed one.
Mixed == INSTANCE ResponseScrubber WITH
    Bytes <- {"a", "b", "-"}, TokenBytes <- {"a", "b", "-"}, Separators <- {"-"},
    Managed <- <<<<"a", "-">>, <<"a", "-", "b", "b", "a">>>>,
    Formats <- <<[prefix |-> <<"a", "a">>, class |-> {"a", "b"}, min |-> 2, unbounded |-> TRUE],
                 [prefix |-> <<"-">>, class |-> {"a"}, min |-> 2, unbounded |-> FALSE]>>,
    PartialMinRun <- 2, PartialMinLen <- 4, PublicPrefixScan <- 3, MaxInput <- 7, MaxChunk <- 3

\* Managed values that overlap themselves, and no format.
Overlapping == INSTANCE ResponseScrubber WITH
    Bytes <- {"a", "b", "-"}, TokenBytes <- {"a", "b", "-"}, Separators <- {"-"},
    Managed <- <<<<"a", "b", "a", "a", "b">>, <<"b", "b">>>>, Formats <- <<>>,
    PartialMinRun <- 3, PartialMinLen <- 4, PublicPrefixScan <- 3, MaxInput <- 7, MaxChunk <- 3

\* Two secrets; a request may come at the very border of a window.
Limiter == INSTANCE RateLimiter WITH
    Secrets <- {"A", "B"}, Window <- 2, LongWindow <- 4, PerSecretRps <- 1, Burst <- 3,
    MaxTime <- 6, MaxRecords <- 6

Draft(opening, alphabet, typed) == [opening |-> opening, alphabet |-> alphabet, typed |-> typed]

\* Quotes, backslashes, comments and line ends after an assignment has begun; a
\* token with a second assignment or an export; and credentials in values, in
\* comments after them, in commented-out assignments and in prose.
DotenvDrafts ==
    {Draft(<<"k", "=">>, {"k", "=", "d", "b", "n", "#", " "}, 5),
     Draft(<<"k", "=", "d">>, {"k", "d", "b", "n", "#"}, 4),
     Draft(<<"j", "=", "T", "r", "n", "k", "=">>, {"T", "r", "n", "s", "#", " "}, 3),
     Draft(<<"x", " ", "k", "=", "s", "T">>, {"T", "n", "s", "#", " "}, 4)}
    \cup {Draft(opening, {"k", "=", "S", "#", " ", "s"}, 4) :
            opening \in {<<"k", "=">>, <<"k", "=", "s", "S">>, <<"k", "=", " ">>,
                        <<"#", " ">>, <<"#", " ", "k", "=">>, <<"#", "k", "=", "s", "S">>}}

\* Every such file, for a token map with the names k and j.
Files == INSTANCE Dotenv WITH
    Letters <- {"T", "S", "x", "P", "k", "j"}, Names <- {<<"k">>, <<"j">>}, Drafts <- DotenvDrafts

ScrubScenarios == {"mixed", "overlap"}

ASSUME Scenarios \subseteq {"requests", "limits", "dotenv"} \cup ScrubScenarios

ASSUME /\ ProxyAssumption /\ Limiter!LimiterAssumption
       /\ Mixed!ScrubberAssumption /\ Overlapping!ScrubberAssumption
       /\ Files!DotenvAssumption

\* The clients are interchangeable.
Clientele == Permutations({c1, c2})

-----------------------------------------------------------------------------
(* The specification.                                                        *)

\* The value of the variables of an instance that is not in the scenario.  The
\* server rests in its initial state.
Absent == "absent"

ScrubInit ==
    CASE scenario = "mixed" -> Mixed!Init
      [] scenario = "overlap" -> Overlapping!Init
      [] OTHER -> input = Absent /\ output = Absent /\ scan = Absent /\ finished = Absent

LimiterInit ==
    IF scenario = "limits" THEN Limiter!Init
    ELSE now = Absent /\ short = Absent /\ long = Absent /\ global = Absent /\ log = Absent

DotenvInit ==
    IF scenario = "dotenv" THEN Files!Init
    ELSE draft = Absent /\ file = Absent /\ from = Absent /\ op = Absent

MCInit == scenario \in Scenarios /\ Init /\ ScrubInit /\ LimiterInit /\ DotenvInit

Serves ==
    /\ scenario = "requests" /\ Next
    /\ UNCHANGED <<scenario, scrubber, limiter, dotenv>>

Scrubs ==
    /\ \/ scenario = "mixed" /\ Mixed!Next
       \/ scenario = "overlap" /\ Overlapping!Next
    /\ UNCHANGED <<scenario, vars, limiter, dotenv>>

Limits ==
    /\ scenario = "limits" /\ Limiter!Next
    /\ UNCHANGED <<scenario, vars, scrubber, dotenv>>

Rewrites ==
    /\ scenario = "dotenv" /\ Files!Next
    /\ UNCHANGED <<scenario, vars, scrubber, limiter>>

\* A response ends, the limiter is asked as often as its bounds allow, and a
\* file is rewritten once.
Rests ==
    /\ scenario \in ScrubScenarios \cup {"limits", "dotenv"}
    /\ UNCHANGED <<scenario, vars, scrubber, limiter, dotenv>>

MCNext == Serves \/ Scrubs \/ Limits \/ Rewrites \/ Rests

MCSpec == MCInit /\ [][MCNext]_<<scenario, vars, scrubber, limiter, dotenv>>

-----------------------------------------------------------------------------
(* Properties, beside those of ProxyServer: each in its scenario.            *)

\* ResponseScrubber: however a response is cut into chunks, the client gets what
\* a single chunk gives, without a managed value or a run of one; buffered
\* scrubbing finds something exactly when streaming does, within the bound.
\* Dotenv: a rewrite replaces the values it is told to and no other, and the
\* example that is shared holds no credential, not even in a comment.
ScrubSafe ==
    CASE scenario = "mixed" -> Mixed!ScrubSafe /\ Mixed!BufferedAgrees /\ Mixed!BufferIsBounded
      [] scenario = "overlap" -> Overlapping!ScrubSafe
      [] scenario = "dotenv" -> Files!RewriteIsExact /\ Files!ExampleHoldsNoCredential
      [] OTHER -> TRUE

\* RateLimiter: in any window the requests that passed are within both limits,
\* the windows agree with each other, and what is refused has the full score.
LimiterSafe == scenario = "limits" => Limiter!LimiterSafe
=============================================================================
