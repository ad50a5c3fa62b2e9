------------------------------ MODULE MCStages ------------------------------
(***************************************************************************)
(* Reading the command line and the calls that make up a refresh, each     *)
(* explored on its own: a behaviour takes one of them, from its start to   *)
(* its end, and leaves the state of the others alone.  Nothing but its     *)
(* argument passes from one call to the next, so nothing is lost by not    *)
(* interleaving them.                                                      *)
(***************************************************************************)
EXTENDS Expansion, EvidenceRead, Polling, Snapshot, Matching, Arguments

-----------------------------------------------------------------------------
(* Replies: an advertised interval below and above the floor, the three     *)
(* forms of instruction, values that do not fit, and none at all.           *)

MCHeaders ==
  {[poll |-> 3, retryAfter |-> Absent, reset |-> Absent, remaining |-> Absent],
   [poll |-> Absent, retryAfter |-> [form |-> "seconds", value |-> 3], reset |-> 6, remaining |-> Absent],
   [poll |-> 9, retryAfter |-> [form |-> "seconds", value |-> 9], reset |-> 6, remaining |-> 0],
   [poll |-> Absent, retryAfter |-> [form |-> "date", value |-> 9], reset |-> Absent, remaining |-> 0],
   [poll |-> -1, retryAfter |-> [form |-> "seconds", value |-> -1], reset |-> 31, remaining |-> 0]}

-----------------------------------------------------------------------------
(* Expansion: two organizations with overlapping names, listings that       *)
(* repeat, conflict and overflow a page, and requests whose exact Scopes    *)
(* leave little room.                                                       *)

MCRecord(organization, name, facts) ==
  [complete |-> TRUE, repeatsItself |-> TRUE, owner |-> organization,
   ownerType |-> "Organization", name |-> name, facts |-> facts]
MCUnusable == {[MCRecord("a", 1, {}) EXCEPT !.ownerType = "User"],
               [MCRecord("a", 1, {}) EXCEPT !.complete = FALSE],
               [MCRecord("a", 1, {}) EXCEPT !.repeatsItself = FALSE]}
MCBodies ==
  {Absent, <<>>, <<MCRecord("a", 1, {}), MCRecord("a", 2, {}), MCRecord("a", 3, {})>>}
  \cup {<<r>> : r \in MCUnusable}
  \cup UNION {{<<MCRecord(o, 2, {}), MCRecord(o, 1, {})>>, <<MCRecord(o, 3, {}), MCRecord(o, 1, {})>>,
               <<MCRecord(o, 1, {"disabled", "archived"}), MCRecord(o, 3, {"fork"})>>,
               <<MCRecord(o, 4, {"archived"})>>} : o \in {"a", "b"}}
MCLinks == {Absent, Unreadable} \cup [organization : {"a", "b"}, page : {2, 3}, sameQuery : {TRUE}]
MCExact(owner, name, matcher) == [repository |-> <<owner, name>>, matcher |-> matcher]
MCRequest(organizations, exact, all) ==
  [organizations |-> organizations, exact |-> exact, includeArchived |-> all, includeForks |-> all]
MCRequests ==
  {MCRequest(<<"a", "b">>, <<>>, FALSE), MCRequest(<<"a", "a">>, <<>>, FALSE),
   MCRequest(<<"?">>, <<>>, TRUE),
   MCRequest(<<"b", "a">>, <<MCExact("a", 3, "p"), MCExact("a", 1, Absent)>>, TRUE),
   MCRequest(<<"a">>, <<MCExact("x", 1, Absent), MCExact("x", 2, "p"), MCExact("x", 3, "p")>>, TRUE),
   MCRequest(<<>>, <<MCExact("x", 1, Absent)>>, FALSE)}

-----------------------------------------------------------------------------
(* Evidence: files that rename, repeat, cannot be parsed or pass a          *)
(* capacity, commits with no, one, two and invalid parents.                 *)

MCBytesOf == [p \in {"p", "q", "r", "long", "bad"} |-> CASE p = "long" -> 4 [] p = "r" -> 2 [] OTHER -> 1]
MCFile(status, name) == [status |-> status, filename |-> name, previous |-> "r"]
MCFiles ==
  {Absent, <<>>, <<MCFile("added", "p")>>, <<MCFile("renamed", "q")>>,
   <<MCFile("modified", "p"), MCFile("modified", "q")>>,
   <<MCFile("moved", "p")>>, <<MCFile("added", "bad")>>, <<MCFile("added", "long")>>}
MCDescriptors ==
  {NewSettledEvidence(Complete("direct-event", <<"p">>)), NewCommitEvidence("a", "b", "h"),
   NewCompareEvidence("a", "b", "h", "event-time"), NewCompareEvidence("a", "b", "h", "current-pr"),
   NewPullRequestEvidence("a", 1)}
MCCommitPages ==
  {Absent} \cup {[sha |-> "h", parents |-> <<"b">>, files |-> files] : files \in MCFiles}
  \cup {[sha |-> sha, parents |-> parents, files |-> <<MCFile("added", "r")>>] :
          sha \in {"h", "b"}, parents \in {<<>>, <<"b">>, <<"c">>, <<"zero">>, <<"b", "c">>}}
MCPageLinks ==
  {Absent} \cup [commit : {"h"}, page : 1 .. 4, sameQuery : {TRUE}]
  \cup {[commit |-> "b", page |-> 2, sameQuery |-> TRUE], [commit |-> "h", page |-> 2, sameQuery |-> FALSE]}
MCComparisons == {Absent} \cup [base : {"b", "c"}, head : {"h"}, files : MCFiles]
MCPullRequests == {Absent} \cup [number : {1, 2}, base : {"b", "zero"}, head : {"b", "h"}]

-----------------------------------------------------------------------------
(* Polls: every payload type with every fact it is classified by.           *)

MCDetail == [before |-> "b", head |-> "h", size |-> 1, pullRequest |-> Absent,
             comment |-> Absent, issue |-> Absent]
MCPayload(type, detail) ==
  [id |-> 1, createdAt |-> 1, repository |-> "a", type |-> type, detail |-> detail]
MCPulls == {Absent} \cup [number : {0, 1}, base : {"b", "zero"}, head : {"b", "h"}]
MCIssues == {Absent} \cup [number : {0, 1}, onPullRequest : BOOLEAN]
MCPullTypes == {"PullRequestEvent", "PullRequestReviewEvent", "PullRequestReviewCommentEvent"}
MCPush == MCPayload("PushEvent", MCDetail)
MCPages ==
  {Absent, <<>>, <<MCPush, [MCPush EXCEPT !.id = 2]>>, <<MCPush, [MCPush EXCEPT !.repository = "c"]>>,
   <<[MCPush EXCEPT !.id = Absent]>>, <<MCPush, [MCPush EXCEPT !.createdAt = Absent]>>,
   <<[MCPush EXCEPT !.repository = "c"]>>}
  \cup {<<MCPayload("PushEvent", [MCDetail EXCEPT !.before = before, !.head = head, !.size = size])>> :
          before \in {"b", "h", "zero"}, head \in {"h", "zero"}, size \in {Absent, 1}}
  \cup {<<MCPayload(type, [MCDetail EXCEPT !.pullRequest = pull, !.comment = comment])>> :
          type \in MCPullTypes, pull \in MCPulls, comment \in {Absent, "p"}}
  \cup {<<MCPayload("IssueCommentEvent", [MCDetail EXCEPT !.issue = issue])>> : issue \in MCIssues}
  \cup {<<MCPayload(type, Absent)>> : type \in MCPullTypes \cup {"PushEvent", "IssueCommentEvent", "WatchEvent"}}
MCPolls == {<<>>, <<"a">>, <<"a", "c">>}

-----------------------------------------------------------------------------
(* Snapshots: overlapping Scopes, events that share a head and events that  *)
(* share an ID, and one event more than is retained.                        *)

MCSelectedBy == [matcher \in 1 .. 2 |-> IF matcher = 1 THEN {"p"} ELSE {"p", "q"}]
MCScope(repository, matcher) == [repository |-> repository, matcher |-> matcher]
MCSelections ==
  {<<MCScope(1, 2), MCScope(1, 0), MCScope(1, 2), MCScope(1, 1)>>, <<MCScope(2, 0), MCScope(1, 1)>>,
   <<MCScope(2, 0)>>, <<MCScope(1, 0), MCScope(2, 0), MCScope(3, 0)>>,
   <<MCScope(2, 0), MCScope(2, 1), MCScope(1, 1), MCScope(1, 0), MCScope(1, 2)>>}
MCEvent(id, at, repository, category, evidence) ==
  [id |-> id, at |-> at, repository |-> repository, category |-> category,
   entity |-> IF category = "comment" THEN "pull_request" ELSE "commit", evidence |-> evidence]
MCEvents ==
  {MCEvent(1, 1, 1, "push", NewCommitEvidence(1, "b", "h")),
   MCEvent(1, 2, 1, "push", NewCommitEvidence(1, "b", "h")),
   MCEvent(2, 2, 1, "push", NewCommitEvidence(1, "c", "h")),
   MCEvent(3, 3, 1, "comment", NewSettledEvidence(Complete("direct-event", <<"q">>))),
   MCEvent(4, 2, 1, "other", Unsupported)}
MCOther == MCEvent(5, 2, 2, "pull_request", NewCompareEvidence(2, "b", "h", "current-pr"))
MCActivities ==
  {<<<<d, e, f>>, <<MCOther>>>> : d, e, f \in MCEvents} \cup {<<<<d>>, <<>>>> : d \in MCEvents}
  \cup {<<<<>>, <<>>>>}
MCResults ==
  {WithSoleParent(Complete("event-time", <<"p">>), "b"), Complete("current-pr", <<"q">>),
   Unknown("rate-limited"), Unknown("denied")}

-----------------------------------------------------------------------------
(* Matching: every short pattern, longer ones of whole segments, and every  *)
(* alternation of literals and wildcards against every short text.          *)

MCUpTo(set, n) == UNION {[1 .. k -> set] : k \in 0 .. n}
MCPieces == {<<"a">>, <<"*">>, <<"*", "*">>, <<"/">>, <<"\\">>, <<":">>, <<".">>, <<"\\", "*">>}
MCWhole == {<<"*", "*", "/">>, <<"*", "/">>, <<"a", "/">>, <<"b">>, <<"*", "*">>}
MCValues ==
  {FlattenSeq(pieces) : pieces \in MCUpTo(MCPieces, 3) \cup MCUpTo(MCWhole, 4)} \cup {<<"r", ":", "a", "!">>}
MCRepositories == {<<"r">>, <<"a">>}
MCTexts == MCUpTo({"a", "b"}, 4) \ {<<>>}
MCPaths == MCUpTo({<<"a">>, <<"b">>, <<"a", "b">>}, 3) \ {<<>>}
MCTokens == {Literal(<<"a">>), Literal(<<".">>), Literal(<<"*">>), Literal(<<"a", ".">>),
             Wildcard, Recursive, Separator}
MCMatchers == {tokens \in MCUpTo(MCTokens, 3) \ {<<>>} :
                 \A k \in 2 .. Len(tokens) : {tokens[k].kind, tokens[k - 1].kind} # {"literal"}}
MCLiterals == {Literal(<<"a">>), Literal(<<"b">>), Literal(<<"a", "b">>)}
MCAlternating(k, parity) ==
  {tokens \in [1 .. k -> MCLiterals \cup {Wildcard}] :
     \A i \in 1 .. k : tokens[i] = Wildcard <=> (i + parity) % 2 = 0}
MCSegments == UNION {MCAlternating(k, parity) : k \in 1 .. 5, parity \in 0 .. 1}

-----------------------------------------------------------------------------
(* Command lines: every three arguments, every choice of up to three groups *)
(* that select something, in spellings that repeat or cover one another,    *)
(* and longer ones whose product reaches or exceeds the capacity.           *)

MCFlag(text, name, assigned) == [text |-> text, dashed |-> TRUE, name |-> name, assigned |-> assigned]
MCText(text) == [text |-> text, dashed |-> FALSE, name |-> text, assigned |-> Absent]
MCNamed ==
  {MCFlag("--", "", Absent), MCFlag("--help", "help", Absent), MCFlag("--help=no", "help", "no"),
   MCFlag("-v", "version", Absent), MCFlag("-v=no", "version", "no"), MCFlag("--old", "old", Absent),
   MCFlag("--old=no", "old", "no"), MCFlag("--no-cache", "no-cache", Absent),
   MCFlag("--no-cache=no", "no-cache", "no"), MCFlag("--reset-cache", "reset-cache", Absent),
   MCFlag("--include-forks", "include", Absent),
   MCFlag("--repo", "repo", Absent), MCFlag("--path", "path", Absent),
   MCFlag("--org=acme", "org", "acme"), MCText("acme/api")}
MCGroup(flag, text) == <<MCFlag("--" \o flag, flag, Absent), MCText(text)>>
MCGroups ==
  {MCGroup("repo", text) : text \in {"acme/api", "ACME/api", "acme/cli", "acme/*"}}
  \cup {MCGroup("path", text) : text \in {"src", "src/**/**", "acme/api:src", "acme/API:src", "acme/sdk:src"}}
  \cup {MCGroup("org", text) : text \in {"ACME", "beta", "org"}} \cup {<<MCFlag("--include-forks", "include", Absent)>>}
MCProduct ==
  {MCGroup("repo", text) : text \in {"acme/api", "acme/cli"}}
  \cup {MCGroup("path", text) : text \in {"src", "src/**/**", "acme/sdk:src"}}
MCLines ==
  MCUpTo(MCNamed, 3) \cup {FlattenSeq(groups) : groups \in MCUpTo(MCGroups, 3) \cup [1 .. 5 -> MCProduct]}

MCValue(kind, key, spelling) == [kind |-> kind, key |-> key, spelling |-> spelling]
MCTextsOf == {arg.text : arg \in MCNamed \cup UNION {ToSet(group) : group \in MCGroups}} \cup {"acme"}
MCReadsAs == [on \in {"repo", "path", "org"} \X MCTextsOf |->
  LET text == on[2] IN
  CASE on[1] = "repo" /\ text \in {"acme/api", "ACME/api"} -> MCValue("repository", 1, text)
    [] on = <<"repo", "acme/cli">> -> MCValue("repository", 2, text)
    [] on = <<"repo", "acme/*">> -> MCValue("organization", 1, text)
    [] on[1] = "org" /\ text \in {"acme", "ACME"} -> MCValue("organization", 1, text)
    [] on[1] = "org" /\ text \in {"beta", "org"} -> MCValue("organization", IF text = "org" THEN 3 ELSE 2, text)
    [] on[1] = "path" /\ text \in {"src", "--no-cache=no"} ->
         MCValue("bare", IF text = "src" THEN 1 ELSE 3, text)
    [] on = <<"path", "src/**/**">> -> MCValue("bare", 2, text)
    [] on[1] = "path" /\ text \in {"acme/api:src", "acme/API:src"} -> MCValue("qualified", <<1, 1>>, text)
    [] on = <<"path", "acme/sdk:src">> -> MCValue("qualified", <<3, 1>>, text)
    [] OTHER -> MCValue("malformed", 0, text)]

-----------------------------------------------------------------------------
(* One call at a time. *)

MCInit == ExpansionInit /\ ReadInit /\ PollInit /\ SnapshotInit /\ MatchingInit /\ ArgumentsInit

NoExpansion == request = Absent /\ UNCHANGED expansionVars
NoLookup == lookup = Absent /\ UNCHANGED readVars
NoPoll == polling = Absent /\ UNCHANGED pollVars
NoSnapshot == scopes = Absent /\ UNCHANGED snapshotVars
NoMatching == pattern = Absent /\ loop = Absent /\ UNCHANGED matchingVars
NoArguments == line = Absent /\ UNCHANGED argumentsVars

MCNext ==
  \/ NoLookup /\ NoPoll /\ NoSnapshot /\ NoMatching /\ NoArguments /\ ExpansionNext
  \/ NoExpansion /\ NoPoll /\ NoSnapshot /\ NoMatching /\ NoArguments /\ ReadNext
  \/ NoExpansion /\ NoLookup /\ NoSnapshot /\ NoMatching /\ NoArguments /\ PollNext
  \/ NoExpansion /\ NoLookup /\ NoPoll /\ NoMatching /\ NoArguments /\ SnapshotNext
  \/ NoExpansion /\ NoLookup /\ NoPoll /\ NoSnapshot /\ NoArguments /\ MatchingNext
  \/ NoExpansion /\ NoLookup /\ NoPoll /\ NoSnapshot /\ NoMatching /\ ArgumentsNext

MCVars == <<expansionVars, readVars, pollVars, snapshotVars, matchingVars, argumentsVars>>

MCSpec == MCInit /\ [][MCNext]_MCVars /\ ReadFairness /\ LoopFairness
=============================================================================
