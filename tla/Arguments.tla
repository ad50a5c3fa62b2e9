----------------------------- MODULE Arguments ------------------------------
(***************************************************************************)
(* The command line (src/internal/cli): ParseArgs scans the arguments      *)
(* three times, for help and version, for an assigned boolean, and with    *)
(* the flag package; it then reads the selection values in argument order, *)
(* one a step, and answers the classes of post-parse errors in their       *)
(* order.                                                                  *)
(*                                                                         *)
(* An argument is a record: its text, whether it begins with a dash and    *)
(* then its name and the text assigned to it with "=", Absent without.     *)
(* What a text reads as behind each flag is a constant; for patterns it is *)
(* module Matching's subject.                                              *)
(***************************************************************************)
EXTENDS Snapshot

CONSTANTS
  Lines,     \* the argument lists
  ReadsAs,   \* ReadsAs[flag, text]: the value a text is behind a flag
  MaxOrganizationSelectors

SelectionKinds == {"repository", "bare", "qualified", "organization"}
ValueFlags == {"repo", "path", "org"}
BooleanFlags == {"include", "no-cache", "reset-cache", "version"}

\* Every argument reads as something behind a flag.  A value has a kind and a key; that of
\* a qualified path is a pair, and a pattern is one.
ASSUME ArgumentsAssumption ==
  /\ MaxOrganizationSelectors \in Nat
  /\ \A args \in Lines : args \in Seq(Range(args))
  /\ \A args \in Lines : \A arg \in Range(args), flag \in ValueFlags :
       /\ <<flag, arg.text>> \in DOMAIN ReadsAs
       /\ arg.name = flag /\ arg.assigned # Absent => <<flag, arg.assigned>> \in DOMAIN ReadsAs
  /\ \A on \in DOMAIN ReadsAs :
       /\ ReadsAs[on].kind \in SelectionKinds \cup {"malformed"}
       /\ ReadsAs[on].kind = "bare" => ReadsAs[on].key # NoMatcher
       /\ ReadsAs[on].kind = "qualified" =>
            /\ ReadsAs[on].key = <<ReadsAs[on].key[1], ReadsAs[on].key[2]>>
            /\ ReadsAs[on].key[2] # NoMatcher

VARIABLES
  line,       \* what flag.Parse made of the arguments, Absent before
  requested,  \* the distinct values in order of first occurrence, by kind
  config      \* the answer of ParseArgs, Absent before

argumentsVars == <<line, requested, config>>

ArgumentsInit ==
  /\ line = Absent /\ config = Absent
  /\ requested = [repository |-> <<>>, bare |-> <<>>, qualified |-> <<>>, organization |-> <<>>]

-----------------------------------------------------------------------------
(* The scans.  Each goes over the arguments once; at says what the next one *)
(* is to it.                                                                *)

Terminator == "--"
TakesNextToo(arg) == arg.dashed /\ arg.name \in ValueFlags \cup BooleanFlags /\ arg.assigned = Absent
TakesNext(arg) == arg.dashed /\ arg.name \in ValueFlags /\ arg.assigned = Absent

\* informationalRequest goes on past anything that is invalid.
Informed(scan, arg) ==
  CASE scan.at = "end" \/ (scan.at = "flag" /\ arg.text = Terminator) -> [scan EXCEPT !.at = "end"]
    [] scan.at = "value" -> [scan EXCEPT !.at = "flag"]
    [] OTHER ->
         LET asked == IF arg.dashed /\ arg.assigned = Absent THEN arg.name ELSE "nothing"
         IN [at |-> IF asked = "help" THEN "end" ELSE IF TakesNext(arg) THEN "value" ELSE "flag",
             request |-> IF asked \in {"help", "version"} THEN asked ELSE scan.request]
InformationalRequest(args) ==
  LET after[k \in 0 .. Len(args)] ==
        IF k = 0 THEN [at |-> "flag", request |-> Absent] ELSE Informed(after[k - 1], args[k])
  IN after[Len(args)].request

\* The place of the first boolean that is assigned, 0 without; the scan ends where
\* flag.Parse would report something else first.
Assigned(scan, arg, k) ==
  IF scan.at = "end" THEN scan
  ELSE IF scan.at = "value" THEN [scan EXCEPT !.at = "flag"]
  ELSE IF ~arg.dashed \/ arg.name \notin ValueFlags \cup BooleanFlags \cup {"help"}
    THEN [scan EXCEPT !.at = "end"]
  ELSE IF arg.name \notin ValueFlags /\ arg.assigned # Absent THEN [at |-> "end", found |-> k]
  ELSE [scan EXCEPT !.at = IF arg.name = "help" THEN "end"
                           ELSE IF TakesNext(arg) THEN "value" ELSE "flag"]
AssignmentAt(args) ==
  LET after[k \in 0 .. Len(args)] ==
        IF k = 0 THEN [at |-> "flag", found |-> 0] ELSE Assigned(after[k - 1], args[k], k)
  IN after[Len(args)].found

\* The flag package: it stops at the first argument that is no flag, and fails at an
\* unknown flag or a missing value.
Parsed(parse, arg) ==
  IF parse.at \in {"end", "error"} THEN [parse EXCEPT !.rest = TRUE]
  ELSE IF parse.at \in ValueFlags
    THEN [parse EXCEPT !.at = "flag", !.values = Append(@, ReadsAs[parse.at, arg.text])]
  ELSE IF arg.text = Terminator THEN [parse EXCEPT !.at = "end"]
  ELSE IF ~arg.dashed THEN [parse EXCEPT !.at = "end", !.rest = TRUE]
  ELSE IF TakesNext(arg) THEN [parse EXCEPT !.at = arg.name]
  ELSE IF arg.name \in ValueFlags
    THEN [parse EXCEPT !.values = Append(@, ReadsAs[arg.name, arg.assigned])]
  ELSE [parse EXCEPT !.at = IF arg.name \in BooleanFlags THEN @ ELSE "error", !.flags = @ \cup {arg}]
FlagsParse(args) ==
  LET after[k \in 0 .. Len(args)] ==
        IF k = 0 THEN [at |-> "flag", values |-> <<>>, flags |-> {}, rest |-> FALSE]
        ELSE Parsed(after[k - 1], args[k])
  IN after[Len(args)]

Rejected(cause) == [error |-> cause]

\* ParseArgs up to the values: what outranks them answers at once.
Scan(args) ==
  LET at == AssignmentAt(args)
      parse == FlagsParse(IF at = 0 THEN args ELSE SubSeq(args, 1, at - 1))
  IN /\ line' = [values |-> parse.values, scanned |-> 0, flags |-> parse.flags, assigned |-> at # 0]
     /\ config' = IF InformationalRequest(args) # Absent THEN Rejected(InformationalRequest(args))
                  ELSE IF parse.at \in ValueFlags \cup {"error"} THEN Rejected("flag")
                  ELSE IF parse.rest THEN Rejected("unexpected argument") ELSE Absent
     /\ UNCHANGED requested

-----------------------------------------------------------------------------
(* The selection values. *)

FirstSpelled(values, value) == \A k \in DOMAIN values : values[k] # value
FirstSeen(values, value) == \A k \in DOMAIN values : values[k].key # value.key

\* validateSelections: one value, kept unless an earlier one has its key.
Validate ==
  /\ line # Absent /\ config = Absent
  /\ line.scanned < Len(line.values)
  /\ LET value == line.values[line.scanned + 1]
     IN IF value.kind = "malformed"
        THEN config' = Rejected("malformed") /\ UNCHANGED <<line, requested>>
        ELSE /\ requested' = [requested EXCEPT ![value.kind] =
                                IF FirstSeen(@, value) THEN Append(@, value) ELSE @]
             /\ line' = [line EXCEPT !.scanned = @ + 1]
             /\ UNCHANGED config

ScopeCountApart ==
  Len(requested.repository) * Max({Len(requested.bare), 1}) + Len(requested.qualified)
\* The number of Scopes, counted without producing them.
ScopeCount ==
  LET Count(values) == Len(requested[values])
      Covered == {k \in DOMAIN requested.qualified :
                    /\ \E r \in ToSet(requested.repository) : r.key = requested.qualified[k].key[1]
                    /\ \E m \in ToSet(requested.bare) : m.key = requested.qualified[k].key[2]}
  IN IF Count("bare") = 0 THEN Count("repository") + Count("qualified")
     ELSE Count("repository") * Count("bare") + Count("qualified") - Cardinality(Covered)

\* The Scopes themselves: a pair of keys, NoMatcher for a whole repository, and the
\* spellings they were requested with.
ScopeOf(repository, matcher) ==
  [key |-> <<repository.key, matcher.key>>, spelling |-> <<repository.spelling, matcher.spelling>>]
Whole == [key |-> NoMatcher, spelling |-> Absent]
ExpandSelections ==
  LET matchers == IF requested.bare = <<>> THEN <<Whole>> ELSE requested.bare
      Of(repository) == [k \in DOMAIN matchers |-> ScopeOf(repository, matchers[k])]
  IN FlattenSeq([k \in DOMAIN requested.repository |-> Of(requested.repository[k])])
       \o [k \in DOMAIN requested.qualified |->
             [key |-> requested.qualified[k].key, spelling |-> requested.qualified[k].spelling]]

\* NewScopeSet of package domain, with the spellings it keeps.
ScopeSetOf(expanded) == FirstOf(expanded, [k \in DOMAIN expanded |-> expanded[k].key])
WithinCapacity(set) == CheckSelectionCapacity([k \in DOMAIN set |-> [repository |-> set[k].key[1]]])

FlagNames == {flag.name : flag \in line.flags}

\* expandSelections: the capacities are checked before and after the Scopes are produced.
Selection ==
  IF requested.bare # <<>> /\ requested.repository = <<>> THEN Rejected("bare path")
  ELSE IF Len(requested.repository) > RepositoryLimit \/ ScopeCount > ScopeLimit
    THEN Rejected("capacity")
  ELSE IF Len(requested.organization) > MaxOrganizationSelectors THEN Rejected("selectors")
  ELSE IF ExpandSelections # <<>> /\ ~WithinCapacity(ScopeSetOf(ExpandSelections))
    THEN Rejected("capacity")
  ELSE [scopes |-> ScopeSetOf(ExpandSelections), organizations |-> requested.organization]

\* The rest of ParseArgs: the first class that applies answers.
Decide ==
  /\ line # Absent /\ config = Absent
  /\ line.scanned = Len(line.values)
  /\ config' =
       IF line.assigned THEN Rejected("assigned boolean")
       ELSE IF "reset-cache" \in FlagNames
         THEN IF line.values # <<>> \/ FlagNames # {"reset-cache"} THEN Rejected("not standalone")
              ELSE [reset |-> TRUE]
       ELSE IF "include" \in FlagNames /\ requested.organization = <<>> THEN Rejected("no selector")
       ELSE IF line.values = <<>> THEN Rejected("no selection") ELSE Selection
  /\ UNCHANGED <<line, requested>>

ArgumentsNext ==
  \/ line = Absent /\ \E args \in Lines : Scan(args)
  \/ Validate
  \/ Decide

-----------------------------------------------------------------------------
\* The three scans agree on which arguments are flags: where help and version were not
\* asked for, flag.Parse meets no help flag, no version flag and no assigned boolean,
\* all of which it would accept (config.go informationalRequest, ParseArgs).
ScansAgree ==
  line # Absent /\ config \notin {Rejected("help"), Rejected("version")} =>
    \A flag \in line.flags : /\ flag.name \notin {"help", "version"}
                             /\ flag.name \in BooleanFlags => flag.assigned = Absent

\* The Scopes are counted before they are produced, and the count is theirs
\* (scope.go scopeCount, expand; domain scope.go NewScopeSet).
CountIsOfTheProduct == ScopeCount = Len(ScopeSetOf(ExpandSelections))

\* The values of a kind in the line, those at their first occurrence, and the Scopes that
\* the repositories and bare patterns, and the qualified paths, ask for.
Asked(values, kind) == {k \in DOMAIN values : values[k].kind = kind}
FirstAsked(values, kind) ==
  {k \in Asked(values, kind) : \A l \in Asked(values, kind) : values[l].key = values[k].key => k <= l}
AskedFor(kind) == {line.values[k] : k \in FirstAsked(line.values, kind)}
ProductAsked ==
  {ScopeOf(r, m) : r \in AskedFor("repository"),
                   m \in IF AskedFor("bare") = {} THEN {Whole} ELSE AskedFor("bare")}
QualifiedAsked == {[key |-> q.key, spelling |-> q.spelling] : q \in AskedFor("qualified")}

\* What is accepted is what was asked for: every exact repository, or its product with the
\* bare patterns, every qualified path and every organization, whatever was repeated in
\* whatever spelling, each once and in the spelling of its first occurrence
\* (scope.go validateSelections, expandSelections).
SelectionIsRequested ==
  config # Absent /\ "scopes" \in DOMAIN config =>
    /\ ToSet(config.scopes) =
         ProductAsked \cup {q \in QualifiedAsked : \A p \in ProductAsked : p.key # q.key}
    /\ Len(config.scopes) = Cardinality(ToSet(config.scopes))
    /\ ToSet(config.organizations) = AskedFor("organization")
    /\ Len(config.organizations) <= MaxOrganizationSelectors

\* A command line that is accepted is the one that was written (config.go, scope.go).
LineIsUnderstood == ScansAgree /\ CountIsOfTheProduct /\ SelectionIsRequested
=============================================================================
