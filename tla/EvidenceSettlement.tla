------------------------ MODULE EvidenceSettlement ------------------------
(***************************************************************************)
(* What one refresh's evidence coordination promises, without its queue,   *)
(* its stages, its goroutines or its locks: an identity is asked of GitHub *)
(* at most once and receives at most one verdict, at most Requests are     *)
(* asked, the cache learns only what was proven, and the events are        *)
(* answered once, together, each from a verdict that exists.               *)
(* Coordinator implements it.                                              *)
(***************************************************************************)
EXTENDS Integers, Sequences, FiniteSets

CONSTANTS Commits, Compares, Pulls, NoKey, ParentOf, Requests, Verdicts

VARIABLES
    asked,    \* the events to answer, fixed
    known,    \* identities the cache holds complete evidence for
    called,   \* identities GitHub was asked about
    link,     \* the compare a pull request's metadata named
    verdict,  \* "open", or what the identity settled at
    answers   \* the verdict each event received

vars == <<asked, known, called, link, verdict, answers>>

Keys == Commits \cup Compares \cup Pulls

Init ==
    /\ called = {}
    /\ link = [p \in Pulls |-> NoKey]
    /\ verdict = [k \in Keys |-> "open"]
    /\ answers = <<>>

Call(k) ==
    /\ k \notin called /\ verdict[k] = "open"
    /\ Cardinality(called) < Requests
    /\ called' = called \cup {k}
    /\ UNCHANGED <<asked, known, link, verdict, answers>>

Link(p) ==
    /\ p \in called /\ verdict[p] = "open" /\ link[p] = NoKey
    /\ \E c \in Compares : link' = [link EXCEPT ![p] = c]
    /\ UNCHANGED <<asked, known, called, verdict, answers>>

\* Complete evidence comes from GitHub or from the cache, never from nothing.
Decide(k) ==
    /\ verdict[k] = "open" /\ ~(k \in Pulls /\ link[k] # NoKey)
    /\ \E v \in Verdicts \ {"open"} :
        /\ v = "complete" => k \in called \cup known
        /\ verdict' = [verdict EXCEPT ![k] = v]
    /\ UNCHANGED <<asked, known, called, link, answers>>

Learn(k) ==
    /\ k \in called /\ verdict[k] = "complete"
    /\ known' = known \cup {k}
    /\ UNCHANGED <<asked, called, link, verdict, answers>>

Target(k) == IF k \in Pulls /\ link[k] # NoKey THEN link[k] ELSE k

Verdict(event) ==
    IF event.key = NoKey THEN "given"
    ELSE LET v == verdict[Target(event.key)] IN
         IF v = "complete" /\ event.key \in Commits /\ ParentOf[event.key] # event.before
         THEN "wrongParent" ELSE v

Answer ==
    /\ answers = <<>>
    /\ \A i \in DOMAIN asked : Verdict(asked[i]) # "open"
    /\ answers' = [i \in DOMAIN asked |-> Verdict(asked[i])]
    /\ UNCHANGED <<asked, known, called, link, verdict>>

Next == Answer \/ \E k \in Keys : Call(k) \/ (k \in Pulls /\ Link(k)) \/ Decide(k) \/ Learn(k)

Spec == Init /\ [][Next]_vars
=============================================================================
