------------------------------ MODULE Matching ------------------------------
(***************************************************************************)
(* Path patterns: the tokenizer of src/internal/cli/pattern.go, the        *)
(* validation and canonical form of src/internal/domain/matcher.go, and    *)
(* the two matching loops of domain/path.go.                               *)
(*                                                                         *)
(* A text is a sequence of code points; an offset counts them.  The        *)
(* tokenizer and matchSegment are loops and take one step an iteration;    *)
(* the suffix table is a function.                                         *)
(***************************************************************************)
EXTENDS Integers, SequencesExt, FiniteSets

CONSTANTS
  Nothing,       \* no value
  Values,        \* the values of --path
  Repositories,  \* the texts that name a repository
  Illegal,       \* the code points that stand for invalid UTF-8 and for NUL
  ChangedPaths,  \* changed paths, as sequences of segments
  Matchers,      \* token sequences with their literals coalesced
  Segments,      \* token sequences of an ordinary segment, as a matcher has them
  Texts          \* texts of a path segment

\* A segment has wildcards and literals, and no literal is empty (validateLiteral).
ASSUME MatchingAssumption ==
  /\ \A text \in Texts : text \in Seq(Range(text))
  /\ \A tokens \in Segments :
       /\ tokens \in Seq(Range(tokens))
       /\ \A token \in Range(tokens) :
            \/ token = [kind |-> "wildcard", text |-> <<>>]
            \/ /\ token.kind = "literal" /\ token.text # <<>>
               /\ token.text \in Seq(Range(token.text))

VARIABLES
  pattern,  \* the pattern being parsed, Nothing before parsePathValue
  scan,     \* the patternScan
  parsed,   \* what parsePathValue returned, Nothing until then
  loop      \* a run of matchSegment, Nothing if there is none

matchingVars == <<pattern, scan, parsed, loop>>

NewScan == [at |-> 1, tokens |-> <<>>, start |-> 1, count |-> 0, text |-> <<>>,
            literalOnly |-> TRUE, separator |-> 1]

MatchingInit == pattern = Nothing /\ scan = NewScan /\ parsed = Nothing /\ loop = Nothing

-----------------------------------------------------------------------------
(* Tokens. *)

Literal(text) == [kind |-> "literal", text |-> text]
Wildcard == [kind |-> "wildcard", text |-> <<>>]
Recursive == [kind |-> "recursive", text |-> <<>>]
Separator == [kind |-> "separator", text |-> <<>>]

Indices(sequence) == [k \in DOMAIN sequence |-> k]

\* The parts of a sequence between the indices of cuts.
PartsBetween(sequence, cuts) ==
  LET edges == <<0>> \o cuts \o <<Len(sequence) + 1>>
  IN [k \in 1 .. Len(edges) - 1 |-> SubSeq(sequence, edges[k] + 1, edges[k + 1] - 1)]

\* coalesceLiterals: a run of literals becomes one.
CoalesceLiterals(tokens) ==
  LET InRun(k) == k > 1 /\ tokens[k - 1].kind = "literal" /\ tokens[k].kind = "literal"
      starts == SelectSeq(Indices(tokens), LAMBDA k : ~InRun(k))
      End(n) == IF n < Len(starts) THEN starts[n + 1] - 1 ELSE Len(tokens)
      Run(n) == SubSeq(tokens, starts[n], End(n))
  IN [n \in DOMAIN starts |->
        [tokens[starts[n]] EXCEPT !.text = FlattenSeq([k \in DOMAIN Run(n) |-> Run(n)[k].text])]]

SplitMatcherSegments(tokens) ==
  PartsBetween(tokens, SelectSeq(Indices(tokens), LAMBDA k : tokens[k] = Separator))

IsRecursiveSegment(segment) == segment = <<Recursive>>

Dots == {<<".">>, <<".", ".">>}

\* validateMatcherStructure and validateOrdinarySegment.
ValidSegment(segment) ==
  \/ IsRecursiveSegment(segment)
  \/ /\ segment # <<>>
     /\ ~\E text \in Dots : segment = <<Literal(text)>>
     /\ \A k \in DOMAIN segment :
          /\ segment[k] # Recursive
          /\ segment[k] = Wildcard /\ k > 1 => segment[k - 1] # Wildcard

ValidateMatcherStructure(tokens) ==
  \A k \in DOMAIN SplitMatcherSegments(tokens) : ValidSegment(SplitMatcherSegments(tokens)[k])

\* A mistake: every recursive segment after the first collapses into it.
CanonicalizeOnce(tokens) ==
  LET segments == SplitMatcherSegments(tokens)
      Repeats(k) == IsRecursiveSegment(segments[k])
                    /\ \E l \in 1 .. k - 1 : IsRecursiveSegment(segments[l])
      retained == SelectSeq(Indices(segments), LAMBDA k : ~Repeats(k))
  IN [k \in DOMAIN retained |-> segments[retained[k]]]

\* canonicalizeMatcher, as segments: a repeated recursive segment collapses, and a terminal
\* one after another segment is dropped, since every matcher includes what is below.
CanonicalizeMatcher(tokens) ==
  LET segments == SplitMatcherSegments(tokens)
      Repeats(k) == k > 1 /\ IsRecursiveSegment(segments[k]) /\ IsRecursiveSegment(segments[k - 1])
      retained == SelectSeq(Indices(segments), LAMBDA k : ~Repeats(k))
      kept == IF Len(retained) > 1 /\ IsRecursiveSegment(segments[Last(retained)])
              THEN Front(retained) ELSE retained
  IN [k \in DOMAIN kept |-> segments[kept[k]]]

NewPathMatcher(tokens) ==
  LET requested == CoalesceLiterals(tokens) IN
  IF tokens # <<>> /\ ValidateMatcherStructure(requested)
  THEN [kind |-> "matcher", requested |-> requested, canonical |-> CanonicalizeMatcher(requested)]
  ELSE [kind |-> "invalid matcher"]

-----------------------------------------------------------------------------
(* parsePathValue. *)

Fault(offset, cause) == [kind |-> "fault", offset |-> offset, cause |-> cause]

\* Whether the code point is the second of an escape pair, pairing from the left.
Escaped(value, k) ==
  LET run == {j \in 1 .. k - 1 : \A l \in j .. k - 1 : value[l] = "\\"}
  IN Cardinality(run) % 2 = 1

\* splitQualifiedPath: the first unescaped colon, 0 for none.
DelimitingColon(value) ==
  LET colons == {k \in DOMAIN value : value[k] = ":" /\ ~Escaped(value, k)}
  IN IF colons = {} THEN 0 ELSE Min(colons)

\* checkPatternBytes, and the empty pattern.
PatternFault(text) ==
  LET bad == {k \in DOMAIN text : text[k] \in Illegal} IN
  IF bad # {} THEN Fault(Min(bad), "text") ELSE IF text = <<>> THEN Fault(1, "empty pattern") ELSE Nothing

\* The repository of a qualified value is judged before its pattern.
ParsePathValue(value) ==
  LET colon == DelimitingColon(value)
      text == SubSeq(value, colon + 1, Len(value))
  IN /\ parsed = Nothing /\ pattern = Nothing /\ loop = Nothing
     /\ pattern' = text
     /\ parsed' = IF colon > 0 /\ SubSeq(value, 1, colon - 1) \notin Repositories
                  THEN [kind |-> "invalid repository"] ELSE PatternFault(text)
     /\ UNCHANGED <<scan, loop>>

-----------------------------------------------------------------------------
(* The scan: one iteration of run an action.                                *)

InPattern == pattern # Nothing /\ parsed = Nothing /\ scan.at <= Len(pattern)

Scanning(code) == InPattern /\ pattern[scan.at] = code

Reject(offset, cause) == parsed' = Fault(offset, cause) /\ UNCHANGED <<pattern, scan, loop>>

Scanned(next) == scan' = next /\ UNCHANGED <<pattern, parsed, loop>>

\* literal and emit, over the given width.
WithLiteral(code, width) ==
  [scan EXCEPT !.at = @ + width, !.tokens = Append(@, Literal(<<code>>)), !.count = @ + 1,
               !.text = Append(@, code)]
WithToken(token, width) ==
  [scan EXCEPT !.at = @ + width, !.tokens = Append(@, token), !.count = @ + 1,
               !.literalOnly = FALSE]

\* A mistake: a backslash may escape anything.
ScanAnyEscape ==
  /\ Scanning("\\")
  /\ IF scan.at = Len(pattern) THEN Reject(scan.at, "trailing backslash")
     ELSE Scanned(WithLiteral(pattern[scan.at + 1], 2))

ScanEscape ==
  /\ Scanning("\\")
  /\ IF scan.at = Len(pattern) THEN Reject(scan.at, "trailing backslash")
     ELSE IF pattern[scan.at + 1] \notin {"*", ":", "\\"} THEN Reject(scan.at, "invalid escape")
     ELSE Scanned(WithLiteral(pattern[scan.at + 1], 2))

ScanColon == Scanning(":") /\ Reject(scan.at, "colon")

\* A mistake: a dot segment is recognized by its text alone.
CloseByText(offset) ==
  IF scan.text = <<>> THEN Fault(offset, "empty segment")
  ELSE IF scan.text \in Dots THEN Fault(scan.start, "dot segment")
  ELSE Nothing

\* closeSegment: the fault of the segment that ends here.
CloseSegment(offset) ==
  IF scan.count = 0 THEN Fault(offset, "empty segment")
  ELSE IF scan.literalOnly /\ scan.text \in Dots THEN Fault(scan.start, "dot segment")
  ELSE Nothing

\* closeSegment, the token, then openSegment.
ScanSeparator ==
  LET fault == CloseSegment(scan.at) IN
  /\ Scanning("/")
  /\ IF fault # Nothing THEN Reject(fault.offset, fault.cause)
     ELSE Scanned([NewScan EXCEPT !.at = scan.at + 1, !.tokens = Append(scan.tokens, Separator),
                                  !.start = scan.at + 1, !.separator = scan.at])

\* How many stars begin here.
StarRun == Max({w \in 1 .. Len(pattern) - scan.at + 1 :
                  \A k \in scan.at .. scan.at + w - 1 : pattern[k] = "*"})

ScanStars ==
  /\ Scanning("*")
  /\ LET width == StarRun
         end == scan.at + width
     IN IF width = 1 THEN Scanned(WithToken(Wildcard, 1))
        ELSE IF width = 2 /\ scan.count = 0 /\ (end > Len(pattern) \/ pattern[end] = "/")
        THEN Scanned(WithToken(Recursive, 2))
        ELSE Reject(scan.at, "stars")

ScanLiteral ==
  /\ InPattern /\ pattern[scan.at] \notin {"\\", ":", "/", "*"}
  /\ Scanned(WithLiteral(pattern[scan.at], 1))

\* The end of the pattern closes its last segment, and the matcher is built.
ScanEnds ==
  LET fault == CloseSegment(scan.separator) IN
  /\ pattern # Nothing /\ parsed = Nothing /\ scan.at > Len(pattern)
  /\ parsed' = IF fault # Nothing THEN fault ELSE NewPathMatcher(scan.tokens)
  /\ UNCHANGED <<pattern, scan, loop>>

-----------------------------------------------------------------------------
(* matchSegment. *)

MatchSegment(tokens, text) ==
  /\ loop = Nothing /\ pattern = Nothing
  /\ loop' = [tokens |-> tokens, text |-> text, token |-> 1, offset |-> 0,
              star |-> 0, starOffset |-> 0, verdict |-> Nothing]
  /\ UNCHANGED <<pattern, scan, parsed>>

\* The state the loop leaves alone is unchanged; each alternative is one case of its switch.
LoopSteps(next) == loop' = next /\ UNCHANGED <<pattern, scan, parsed>>

Matching == loop # Nothing /\ loop.verdict = Nothing
Consuming == Matching /\ loop.offset < Len(loop.text)
AtWildcard == loop.token <= Len(loop.tokens) /\ loop.tokens[loop.token] = Wildcard
AtLiteral ==
  /\ loop.token <= Len(loop.tokens) /\ loop.tokens[loop.token] # Wildcard
  /\ IsPrefix(loop.tokens[loop.token].text, SubSeq(loop.text, loop.offset + 1, Len(loop.text)))

TakeWildcard ==
  /\ Consuming /\ AtWildcard
  /\ LoopSteps([loop EXCEPT !.star = loop.token, !.starOffset = loop.offset, !.token = @ + 1])

TakeLiteral ==
  /\ Consuming /\ AtLiteral
  /\ LoopSteps([loop EXCEPT !.offset = @ + Len(loop.tokens[loop.token].text), !.token = @ + 1])

\* A mistake: the wildcard retries where it already failed.
RetriedAlike == [loop EXCEPT !.offset = loop.starOffset, !.token = loop.star + 1]

\* The last wildcard takes one more code point.
Retried ==
  [loop EXCEPT !.starOffset = @ + 1, !.offset = loop.starOffset + 1, !.token = loop.star + 1]

Retry == Consuming /\ ~AtWildcard /\ ~AtLiteral /\ loop.star > 0 /\ LoopSteps(Retried)

Mismatch ==
  /\ Consuming /\ ~AtWildcard /\ ~AtLiteral /\ loop.star = 0
  /\ LoopSteps([loop EXCEPT !.verdict = FALSE])

\* A mistake: the tokens left over are not looked at.
MatchedAtEnd == TRUE

\* Only wildcards may be left over.
OnlyWildcardsLeft == \A k \in loop.token .. Len(loop.tokens) : loop.tokens[k] = Wildcard

TextEnds ==
  /\ Matching /\ loop.offset >= Len(loop.text)
  /\ LoopSteps([loop EXCEPT !.verdict = OnlyWildcardsLeft])

-----------------------------------------------------------------------------
(* What a segment and a pattern mean, from the left: where they may end.    *)

\* What a token takes of a text, from the offset i to the offset j.
Spans(token, text, i, j) ==
  \/ token = Wildcard /\ i <= j
  \/ token # Wildcard /\ j = i + Len(token.text) /\ SubSeq(text, i + 1, j) = token.text

TextEnd(tokens, text) ==
  LET ends[k \in 0 .. Len(tokens)] ==
        IF k = 0 THEN {0}
        ELSE {j \in 0 .. Len(text) : \E i \in ends[k - 1] : Spans(tokens[k], text, i, j)}
  IN ends[Len(tokens)]

SegmentMeans(tokens, text) == Len(text) \in TextEnd(tokens, text)

PatternMeans(segments, path) ==
  LET ends[k \in 0 .. Len(segments)] ==
        IF k = 0 THEN {0}
        ELSE IF IsRecursiveSegment(segments[k])
        THEN {j \in 0 .. Len(path) : \E i \in ends[k - 1] : i <= j}
        ELSE {j \in 1 .. Len(path) : j - 1 \in ends[k - 1] /\ SegmentMeans(segments[k], path[j])}
  IN ends[Len(segments)] # {}

\* matchSegmentSequences: the suffix table, from its end; what is below a match matches.
MatchSegmentSequences(segments, path) ==
  LET n == Len(segments)
      m == Len(path)
      matched[i \in 1 .. n + 1, j \in 1 .. m + 1] ==
        IF i > n THEN TRUE
        ELSE IF IsRecursiveSegment(segments[i])
        THEN matched[i + 1, j] \/ (j <= m /\ matched[i, j + 1])
        ELSE j <= m /\ SegmentMeans(segments[i], path[j]) /\ matched[i + 1, j + 1]
  IN matched[1, 1]

LoopNext ==
  \/ TakeWildcard
  \/ TakeLiteral
  \/ Retry
  \/ Mismatch
  \/ TextEnds

MatchingNext ==
  \/ \E value \in Values : ParsePathValue(value)
  \/ ScanEscape
  \/ ScanColon
  \/ ScanSeparator
  \/ ScanStars
  \/ ScanLiteral
  \/ ScanEnds
  \/ \E tokens \in Segments, text \in Texts : MatchSegment(tokens, text)
  \/ LoopNext

-----------------------------------------------------------------------------
(* Properties. *)

Accepted == parsed # Nothing /\ parsed.kind = "matcher"

Spelled(token) ==
  CASE token = Wildcard -> <<"*">>
    [] token = Recursive -> <<"*", "*">>
    [] token = Separator -> <<"/">>
    [] OTHER -> FlattenSeq([k \in DOMAIN token.text |->
                  IF token.text[k] \in {"*", ":", "\\"} THEN <<"\\", token.text[k]>>
                                                        ELSE <<token.text[k]>>])

Spelling(tokens) == FlattenSeq([k \in DOMAIN tokens |-> Spelled(tokens[k])])

\* An accepted pattern has one spelling: writing its tokens back gives the pattern, escapes
\* included, so no two patterns of different meaning share their tokens (pattern.go run).
SpelledBack ==
  Accepted => Spelling(parsed.requested) = pattern

\* The scan and the domain judge alike: NewPathMatcher accepts what the scan lets through,
\* the scan rejects no spelling of what NewPathMatcher accepts, and every fault names a place
\* within the pattern (pattern.go closeSegment, stars, escape; matcher.go).
ScanAgreesWithDomain ==
  parsed # Nothing =>
    /\ parsed.kind # "invalid matcher"
    /\ parsed.kind = "fault" =>
         /\ parsed.offset \in 1 .. Max({1, Len(pattern)})
         /\ ~\E tokens \in Matchers : Spelling(tokens) = pattern /\ ValidateMatcherStructure(tokens)

\* The canonical form means what was asked for: it selects a changed path exactly if the
\* requested segments select it or something above it (matcher.go canonicalizeMatcher,
\* path.go matchSegmentSequences).
CanonicalMeansRequested ==
  Accepted => \A path \in ChangedPaths :
    MatchSegmentSequences(parsed.canonical, path)
      <=> PatternMeans(SplitMatcherSegments(parsed.requested), path)

\* The loop of matchSegment, which remembers only the last wildcard, decides what the tokens
\* mean, and its offset never leaves the text (path.go matchSegment).
LoopDecides ==
  loop # Nothing =>
    /\ loop.offset <= Len(loop.text)
    /\ loop.verdict # Nothing => loop.verdict = SegmentMeans(loop.tokens, loop.text)

\* The loop ends on every input (path.go matchSegment).
LoopEnds == loop # Nothing ~> (loop # Nothing /\ loop.verdict # Nothing)

\* A pattern is read without loss, judged alike by both who judge it, and selects what
\* it says (pattern.go, matcher.go, path.go).
PatternIsKept == SpelledBack /\ ScanAgreesWithDomain /\ CanonicalMeansRequested

\* The loop ends with the right verdict (path.go matchSegment).
LoopMatches == []LoopDecides /\ LoopEnds

LoopFairness == WF_matchingVars(LoopNext)
=============================================================================
