------------------------ MODULE CoordinatorProofs ------------------------
(***************************************************************************)
(* Proofs about Coordinator, for every set of work keys, every input and   *)
(* every value of the bounds: types and complete outcomes first, then what *)
(* a refresh may spend, then what its answers say.                         *)
(***************************************************************************)
EXTENDS Coordinator, FiniteSetTheorems, TLAPS

Dispatching == {"slot", "gate", "refuse", "launch"}
Asking == {"ready", "waiting", "settling"}
Alone == {"admit", "derive", "maintain", "assemble", "done"}

\* Item i of stage s still waits for the gate.
Undispatched(s, i) ==
    \/ pc = "admit"
    \/ stage = 1 /\ s = 2
    \/ s = stage /\ pc \in Dispatching /\ i >= cursor

Fresh(k) == identities[k] = Missing /\ worker[k] = "idle"

\* Where main may be, and that it is alone there.
Control ==
    /\ pc \in {"gate", "refuse", "launch"} => cursor <= Len(queue[stage])
    /\ pc \in {"admit", "derive"} => stage = 1
    /\ pc \in {"maintain", "assemble", "done"} => stage = 2
    /\ pc \in Alone => AllEnded
    /\ pc # "done" => outcomes = <<>>

\* The queues hold distinct seen keys, metadata only in the first one.
Queued ==
    /\ \A s \in {1, 2} : \A i \in 1..Len(queue[s]) : queue[s][i] \in seen
    /\ \A s, t \in {1, 2} : \A i \in 1..Len(queue[s]), j \in 1..Len(queue[t]) :
            queue[s][i] = queue[t][j] => s = t /\ i = j
    /\ \A i \in 1..Len(queue[2]) : queue[2][i] \in Compares

EventsSeen ==
    \A i \in 1..Len(events) :
            events[i].key # NoKey /\ (pc = "admit" => i < cursor) => events[i].key \in seen

\* Nothing happened to an identity nobody asked for or whose turn is to come;
\* an identity being asked is open; a derived pull request is past its own work.
UnseenFresh == \A k \in Keys \ seen : Fresh(k)
WaitingFresh ==
    \A s \in {1, 2} : \A i \in 1..Len(queue[s]) : Undispatched(s, i) => Fresh(queue[s][i])
AskedOpen == \A k \in Keys : worker[k] \in Asking => identities[k] = Missing
PullsDerived ==
    \A p \in Pulls : derived[p] # NoKey =>
        worker[p] \in {"leaving", "releasing", "done"} /\ identities[p] = Missing
PullsQueued == \A p \in Pulls : worker[p] # "idle" => \E i \in 1..Len(queue[1]) : queue[1][i] = p
PullsFirst ==
    \A p \in Pulls : /\ worker[p] \in Asking => stage = 1
                     /\ worker[p] \notin {"saving", "writing"}
Untouched ==
    UnseenFresh /\ WaitingFresh /\ AskedOpen /\ PullsDerived /\ PullsQueued /\ PullsFirst

\* No seen identity is lost: it is settled, waits, is being asked, or is a pull
\* request whose compare stands for it.
Tracked ==
    \A k \in seen :
        \/ identities[k] # Missing
        \/ \E s \in {1, 2} : \E i \in 1..Len(queue[s]) : queue[s][i] = k /\ Undispatched(s, i)
        \/ worker[k] \in Asking
        \/ k \in Pulls /\ derived[k] # NoKey

Linked ==
    /\ \A p \in Pulls : aliases[p] # NoKey => aliases[p] = derived[p] /\ aliases[p] \in seen
    /\ \A p \in Pulls : derived[p] # NoKey /\ aliases[p] = NoKey =>
            /\ stage = 1
            /\ pc = "derive" => \E i \in cursor..Len(queue[1]) : queue[1][i] = p

\* What is settled complete was proven for its own key.
Proven ==
    /\ pc = "refuse" => ~IsComplete(refused)
    /\ \A k \in Keys : worker[k] = "settling" =>
            reply[k] # Missing /\ (IsComplete(reply[k]) => reply[k] = Complete(k, reply[k].prov))
    /\ \A k \in Keys : identities[k] # Missing /\ IsComplete(identities[k]) =>
            /\ identities[k].of = k
            /\ k \in stored \/ reply[k] = Complete(k, reply[k].prov)

IInv == /\ TypeOK /\ Control /\ Queued /\ EventsSeen /\ Untouched /\ Tracked /\ Linked
        /\ Proven /\ CompleteIsProven
-----------------------------------------------------------------------------
(* Types                                                                   *)

\* The constructors of outcomes yield outcomes.
LEMMA OutcomeTypes ==
    /\ Missing \in Outcomes
    /\ \A kind \in Kinds : Unknown(kind) \in Outcomes
    /\ \A t \in RetryTimes \cup {0} : RateLimited(t) \in Outcomes
    /\ \A k \in Keys, p \in Provenances : Complete(k, p) \in Outcomes
BY DEF Missing, Unknown, RateLimited, Complete, Outcomes, Kinds, Provenances

\* Whatever the adapter answers is an outcome, complete only for the unit it read.
LEMMA ReplyTypes ==
    ASSUME NEW k \in Keys, NEW o \in Replies(k)
    PROVE  o \in Outcomes /\ o # Missing /\ (IsComplete(o) => o = Complete(k, o.prov))
<1>1. UnitProvenance(k, stage) \in Provenances
  BY DEF UnitProvenance, EventProvenance, Provenances
<1>2. k # NoKey
  BY KeyAssumption
<1>3. CASE o = Unknown("failed")
  BY <1>3, OutcomeTypes DEF Unknown, IsComplete, Missing, Kinds
<1>4. CASE \E t \in RetryTimes : o = RateLimited(t)
  <2>1. PICK t \in RetryTimes : o = RateLimited(t)
    BY <1>4
  <2>2. o \in Outcomes
    BY <2>1, OutcomeTypes
  <2>3. o.kind = "limited"
    BY <2>1 DEF RateLimited, Unknown, Missing
  <2>. QED
    BY <2>2, <2>3 DEF IsComplete, Missing
<1>5. CASE o = Unknown("canceled")
  BY <1>5, OutcomeTypes DEF Unknown, IsComplete, Missing, Kinds
<1>6. CASE o = Complete(k, UnitProvenance(k, stage))
  <2>1. o \in Outcomes
    BY <1>1, <1>6, OutcomeTypes
  <2>2. o # Missing /\ o = Complete(k, o.prov)
    BY <1>2, <1>6 DEF Complete, Missing
  <2>. QED
    BY <2>1, <2>2
<1>7. \/ o = Unknown("failed") \/ o \in {RateLimited(t) : t \in RetryTimes}
      \/ o = Unknown("canceled") \/ o = Complete(k, UnitProvenance(k, stage))
  BY DEF Replies
<1>. QED
  <2>1. ASSUME o \in {RateLimited(t) : t \in RetryTimes} PROVE \E t \in RetryTimes : o = RateLimited(t)
    BY <2>1, Zenon
  <2>. QED
    BY <1>3, <1>4, <1>5, <1>6, <1>7, <2>1, Zenon

\* A lookup leaves a well-typed ledger.
LEMMA LedgerTypes ==
    ASSUME ledger \in Ledgers, NEW k \in Keys, NEW r \in LookupResults(k)
    PROVE  /\ AfterLookup(r) \in Ledgers
           /\ AfterLookup(r).queued = ledger.queued
<1>1. r \in {"none", "miss", "error", "hit"}
  BY DEF LookupResults
<1>. DEFINE reads == IF r = "none" THEN ledger.reads ELSE ledger.reads + 1
            hits == IF r = "hit" THEN ledger.hits + 1 ELSE ledger.hits
            degraded == ledger.degraded \/ r = "error"
<1>2. reads \in Nat /\ hits \in Nat
  BY DEF Ledgers
<1>3. degraded \in BOOLEAN
  OBVIOUS
<1>4. AfterLookup(r) = [ledger EXCEPT !.reads = reads, !.hits = hits, !.degraded = degraded]
  BY DEF AfterLookup
<1>. HIDE DEF reads, hits, degraded
<1>. QED
  BY <1>2, <1>3, <1>4 DEF Ledgers

\* Admitting a unit keeps the types of what it changes.
LEMMA AdmitTypes ==
    ASSUME TypeOK, NEW k \in Keys, NEW s \in {1, 2}, Admit(k, s)
    PROVE  /\ identities' \in [Keys -> Outcomes]
           /\ queue' \in [{1, 2} -> Seq(Keys)]
           /\ ledger' \in Ledgers
<1>. PICK r \in LookupResults(k) : Admit(k, s)!(r)
  BY DEF Admit
<1>1. AfterLookup(r) \in Ledgers
  BY LedgerTypes DEF TypeOK
<1>2. [AfterLookup(r) EXCEPT !.queued = @ + 1] \in Ledgers
  BY <1>1 DEF Ledgers
<1>3. UnitProvenance(k, s) \in Provenances
  BY DEF UnitProvenance, EventProvenance, Provenances
<1>4. Complete(k, UnitProvenance(k, s)) \in Outcomes /\ Unknown("queueFull") \in Outcomes
  BY <1>3, OutcomeTypes DEF Kinds
<1>5. [queue EXCEPT ![s] = Append(@, k)] \in [{1, 2} -> Seq(Keys)]
  BY DEF TypeOK
<1>. HIDE DEF Keys
<1>6. identities' \in [Keys -> Outcomes]
  BY <1>4 DEF TypeOK
<1>7. queue' \in [{1, 2} -> Seq(Keys)]
  BY <1>5 DEF TypeOK
<1>8. ledger' \in Ledgers
  BY <1>1, <1>2
<1>. QED
  BY <1>6, <1>7, <1>8

\* Settling an identity keeps the types of what it changes.
LEMMA SettleTypes ==
    ASSUME TypeOK, NEW k \in Keys, NEW o \in Outcomes, SettleIdentity(k, o)
    PROVE  /\ identities' \in [Keys -> Outcomes]
           /\ limited' \in BOOLEAN
           /\ ledger' \in Ledgers
BY DEF TypeOK, SettleIdentity, RetryFloor, LimitedFrom, CanceledFrom, Ledgers, Outcomes

\* While main dispatches a unit, the queue holds one at the cursor.
LEMMA UnitType ==
    ASSUME TypeOK, Control, pc \in {"gate", "refuse", "launch"}
    PROVE  unit \in Keys
BY DEF TypeOK, Control, unit

\* The answer to an event is an outcome.
LEMMA AnswerTypes ==
    ASSUME TypeOK, NEW event \in Event
    PROVE  Answer(event) \in Outcomes
<1>1. ledger.retryAt \in RetryTimes \cup {0}
  BY DEF TypeOK, Ledgers
<1>2. event.key \in Keys \cup {NoKey}
  BY DEF Event
<1>3. ASSUME event.key # NoKey PROVE identities[Resolve(event.key)] \in Outcomes
  BY <1>2, <1>3 DEF Resolve, TypeOK, Keys, Persistable
<1>4. \A o \in Outcomes : ForDescriptor(o, event) \in Outcomes
  <2>1. EventProvenance(event.key) \in Provenances /\ "wrongParent" \in Kinds
    BY DEF EventProvenance, Provenances, Kinds
  <2>2. \A o \in Outcomes, p \in Provenances : [o EXCEPT !.prov = p] \in Outcomes
    BY DEF Outcomes
  <2>. QED
    BY <2>1, <2>2, OutcomeTypes DEF ForDescriptor
<1>5. Unknown("given") \in Outcomes /\ RateLimited(ledger.retryAt) \in Outcomes
  BY <1>1, OutcomeTypes DEF Kinds
<1>. QED
  BY <1>3, <1>4, <1>5 DEF Answer

\* No step of main, of a goroutine or of the caller leaves the types.
LEMMA TypeStep == IInv /\ [Next]_vars => TypeOK'
<1>. SUFFICES ASSUME IInv, [Next]_vars PROVE TypeOK'
  OBVIOUS
<1>. USE DEF IInv
<1>0. ledger \in Ledgers /\ running \in Int /\ reply \in [Keys -> Outcomes]
  BY DEF TypeOK
<1>1. CASE AdmitEvent
  <2>0. events \in Seq(Event) /\ cursor \in 1..Len(events)
    BY <1>1 DEF AdmitEvent, TypeOK
  <2>1. events[cursor].key \in Keys \cup {NoKey}
    <3>1. events[cursor] \in Event
      BY <2>0
    <3>. QED
      BY <3>1 DEF Event
  <2>2. /\ identities' \in [Keys -> Outcomes] /\ queue' \in [{1, 2} -> Seq(Keys)]
        /\ ledger' \in Ledgers /\ seen' \subseteq Keys
    BY <1>1, <2>1, AdmitTypes DEF AdmitEvent, TypeOK
  <2>. QED
    BY <1>1, <2>2 DEF AdmitEvent, TypeOK
<1>2. CASE DeriveCompare
  <2>. DEFINE pull == queue[1][cursor]
  <2>1. derived[pull] # NoKey /\ pull \in Pulls => derived[pull] \in Keys /\ derived[pull] \in Compares
    BY <1>2 DEF DeriveCompare, TypeOK, Keys, Persistable
  <2>2. /\ identities' \in [Keys -> Outcomes] /\ queue' \in [{1, 2} -> Seq(Keys)]
        /\ ledger' \in Ledgers /\ seen' \subseteq Keys
        /\ aliases' \in [Pulls -> Compares \cup {NoKey}]
    BY <1>2, <2>1, AdmitTypes DEF DeriveCompare, TypeOK
  <2>. QED
    BY <1>2, <2>2 DEF DeriveCompare, TypeOK
<1>3. CASE StartDispatch
  BY <1>3 DEF StartDispatch, TypeOK, work, MainPhases
<1>4. CASE TakeSlot
  BY <1>4 DEF TakeSlot, TypeOK, work, MainPhases
<1>5. CASE GateRefuse
  <2>1. refused' \in Outcomes
    BY <1>5, OutcomeTypes DEF GateRefuse, Kinds, TypeOK, Ledgers
  <2>2. ledger' \in Ledgers
    BY <1>5 DEF GateRefuse, TypeOK, Ledgers
  <2>. QED
    BY <1>5, <2>1, <2>2 DEF GateRefuse, TypeOK, work, MainPhases
<1>6. CASE GateAdmit
  <2>1. ledger' \in Ledgers
    BY <1>0, <1>6 DEF GateAdmit, Ledgers
  <2>. QED
    BY <1>6, <2>1 DEF GateAdmit, TypeOK, work, MainPhases
<1>7. CASE Refuse
  <2>1. unit \in Keys /\ refused \in Outcomes
    BY <1>7, UnitType DEF Refuse, TypeOK
  <2>2. /\ identities' \in [Keys -> Outcomes] /\ limited' \in BOOLEAN /\ ledger' \in Ledgers
    BY <1>7, <2>1, SettleTypes DEF Refuse
  <2>. QED
    BY <1>7, <2>2 DEF Refuse, TypeOK, MainPhases
<1>8. CASE Launch
  <2>1. unit \in Keys
    BY <1>8, UnitType DEF Launch
  <2>2. running' \in Int /\ ledger' \in Ledgers
    <3>1. running' \in Int /\ running' = running + 1
      BY <1>0, <1>8 DEF Launch
    <3>2. CASE running' > ledger.peak
      BY <1>0, <1>8, <3>1, <3>2 DEF Launch, Ledgers
    <3>3. CASE ~(running' > ledger.peak)
      BY <1>0, <1>8, <3>1, <3>3 DEF Launch, Ledgers
    <3>. QED
      BY <3>1, <3>2, <3>3
  <2>3. worker' \in [Keys -> WorkerPhases]
    BY <1>8, <2>1 DEF Launch, TypeOK, WorkerPhases
  <2>. QED
    BY <1>8, <2>2, <2>3 DEF Launch, TypeOK, work, MainPhases
<1>9. CASE StartJoin
  BY <1>9 DEF StartJoin, TypeOK, work, MainPhases
<1>10. CASE Join
  BY <1>10 DEF Join, TypeOK, work, MainPhases
<1>11. CASE MaintainCache
  <2>1. ledger' \in Ledgers
    BY <1>0, <1>11 DEF MaintainCache, Ledgers
  <2>. QED
    BY <1>11, <2>1 DEF MaintainCache, TypeOK, work, MainPhases
<1>12. CASE Assemble
  BY <1>12, AnswerTypes DEF Assemble, TypeOK, work, MainPhases
<1>13. ASSUME NEW k \in Keys, Goroutine(k) PROVE TypeOK'
  <2>1. CASE Send(k)
    <3>1. reply' \in [Keys -> Outcomes]
      BY <2>1, OutcomeTypes DEF Send, TypeOK, Kinds
    <3>2. sent' \in [Keys -> Nat]
      BY <2>1 DEF Send, TypeOK
    <3>3. worker' \in [Keys -> WorkerPhases]
      BY <2>1 DEF Send, TypeOK, WorkerPhases
    <3>. QED
      BY <2>1, <3>1, <3>2, <3>3 DEF Send, TypeOK, main, work
  <2>2. CASE Receive(k)
    BY <2>2, ReplyTypes DEF Receive, TypeOK, main, work, WorkerPhases
  <2>3. CASE NextPage(k)
    BY <2>3 DEF NextPage, TypeOK, main, work, WorkerPhases
  <2>4. CASE ReceiveRefs(k)
    BY <2>4 DEF ReceiveRefs, TypeOK, main, work, WorkerPhases
  <2>5. CASE Settle(k)
    <3>1. reply[k] \in Outcomes
      BY DEF TypeOK
    <3>2. identities' \in [Keys -> Outcomes] /\ limited' \in BOOLEAN /\ ledger' \in Ledgers
      BY <2>5, <3>1, SettleTypes DEF Settle
    <3>. QED
      BY <2>5, <3>2 DEF Settle, TypeOK, main, WorkerPhases
  <2>6. CASE CheckSave(k)
    BY <2>6 DEF CheckSave, TypeOK, main, work, WorkerPhases
  <2>7. CASE Save(k)
    <3>1. ledger' \in Ledgers
      <4>1. ASSUME ledger' = [ledger EXCEPT !.writes = @ + 1] PROVE ledger' \in Ledgers
        BY <1>0, <4>1 DEF Ledgers
      <4>2. ASSUME ledger' = [ledger EXCEPT !.degraded = TRUE] PROVE ledger' \in Ledgers
        BY <1>0, <4>2 DEF Ledgers
      <4>. QED
        BY <1>0, <2>7, <4>1, <4>2 DEF Save
    <3>2. stored' \subseteq Persistable
      <4>1. k \in Persistable
        BY <2>7 DEF Save, Untouched, PullsFirst, Keys
      <4>. QED
        BY <2>7, <4>1 DEF Save, TypeOK
    <3>. QED
      BY <2>7, <3>1, <3>2 DEF Save, TypeOK, main, work, WorkerPhases
  <2>8. CASE Leave(k)
    BY <2>8 DEF Leave, TypeOK, main, work, WorkerPhases
  <2>9. CASE Release(k)
    BY <2>9 DEF Release, TypeOK, main, work, WorkerPhases
  <2>. QED
    BY <1>13, <2>1, <2>2, <2>3, <2>4, <2>5, <2>6, <2>7, <2>8, <2>9 DEF Goroutine
<1>14. CASE Cancel
  BY <1>14 DEF Cancel, TypeOK, main, work
<1>15. CASE UNCHANGED vars
  BY <1>15 DEF vars, TypeOK, main, work
<1>. QED
  BY <1>1, <1>2, <1>3, <1>4, <1>5, <1>6, <1>7, <1>8, <1>9, <1>10, <1>11, <1>12, <1>13,
     <1>14, <1>15 DEF Next, MainStep, Returned

-----------------------------------------------------------------------------
(* Control and the queues                                                  *)

\* A goroutine takes steps only while main is inside dispatch.
LEMMA NotAlone ==
    ASSUME Control, NEW k \in Keys, worker[k] \notin {"idle", "done"}
    PROVE  pc \notin Alone
BY DEF Control, AllEnded

\* Only a launched goroutine that has not ended takes a step.
LEMMA LiveGoroutine ==
    ASSUME NEW k \in Keys, Goroutine(k)
    PROVE  worker[k] \notin {"idle", "done"}
BY DEF Goroutine, Send, Receive, NextPage, ReceiveRefs, Settle, CheckSave, Save, Leave, Release

\* No goroutine touches main's variables, the queues or the answers.
LEMMA GoroutineFrame ==
    ASSUME NEW k \in Keys, Goroutine(k)
    PROVE  UNCHANGED <<events, canceled, pc, stage, cursor, refused, aliases, seen, queue, outcomes>>
BY DEF Goroutine, Send, Receive, NextPage, ReceiveRefs, Settle, CheckSave, Save, Leave, Release,
       main, work

\* Every step keeps main where Control says it is, and alone there.
LEMMA ControlStep == IInv /\ [Next]_vars => Control'
<1>. SUFFICES ASSUME TypeOK, Control, [Next]_vars PROVE Control'
  BY DEF IInv
<1>1. CASE AdmitEvent
  BY <1>1 DEF AdmitEvent, Control, AllEnded, Alone
<1>2. CASE DeriveCompare
  BY <1>2 DEF DeriveCompare, Control, AllEnded, Alone
<1>3. CASE StartDispatch
  BY <1>3 DEF StartDispatch, Control, Alone, work
<1>4. CASE TakeSlot
  BY <1>4 DEF TakeSlot, Control, Alone, work
<1>5. CASE GateRefuse
  BY <1>5 DEF GateRefuse, Control, Alone, work
<1>6. CASE GateAdmit
  BY <1>6 DEF GateAdmit, Control, Alone, work
<1>7. CASE Refuse
  BY <1>7 DEF Refuse, Control, Alone
<1>8. CASE Launch
  BY <1>8 DEF Launch, Control, Alone, work
<1>9. CASE StartJoin
  BY <1>9 DEF StartJoin, Control, Alone, work
<1>10. CASE Join
  BY <1>10 DEF Join, Control, Alone, AllEnded, work, TypeOK
<1>11. CASE MaintainCache
  BY <1>11 DEF MaintainCache, Control, Alone, AllEnded, work
<1>12. CASE Assemble
  BY <1>12 DEF Assemble, Control, Alone, AllEnded, work
<1>13. ASSUME NEW k \in Keys, Goroutine(k) PROVE Control'
  BY <1>13, NotAlone, LiveGoroutine, GoroutineFrame DEF Control, Alone
<1>14. CASE Cancel
  BY <1>14 DEF Cancel, Control, AllEnded, main, work
<1>15. CASE UNCHANGED vars
  BY <1>15 DEF vars, Control, AllEnded, main, work
<1>. QED
  BY <1>1, <1>2, <1>3, <1>4, <1>5, <1>6, <1>7, <1>8, <1>9, <1>10, <1>11, <1>12, <1>13,
     <1>14, <1>15 DEF Next, MainStep, Returned

\* What admit does to the queue and to the identity it is given.
Settled(k) ==
    /\ queue' = queue
    /\ \E o \in Outcomes :
        /\ o # Missing /\ (IsComplete(o) => o.of = k /\ k \in stored)
        /\ identities' = [identities EXCEPT ![k] = o]
Appended(k, s) ==
    /\ identities' = identities
    /\ queue' = [queue EXCEPT ![s] = Append(@, k)]

\* An admission either settles the unit or queues it.
LEMMA AdmitEffect ==
    ASSUME TypeOK, NEW k \in Keys, NEW s \in {1, 2}, Admit(k, s)
    PROVE  Settled(k) \/ Appended(k, s)
<1>. PICK r \in LookupResults(k) : Admit(k, s)!(r)
  BY DEF Admit
<1>1. CASE r = "hit"
  <2>. DEFINE o == Complete(k, UnitProvenance(k, s))
  <2>1. o \in Outcomes
    BY OutcomeTypes DEF UnitProvenance, EventProvenance, Provenances
  <2>2. k # NoKey
    BY KeyAssumption
  <2>3. o # Missing /\ o.of = k
    BY <2>2 DEF Complete, Missing
  <2>4. k \in stored
    BY <1>1 DEF LookupResults
  <2>5. queue' = queue /\ identities' = [identities EXCEPT ![k] = o]
    BY <1>1
  <2>. QED
    BY <2>1, <2>3, <2>4, <2>5 DEF Settled
<1>2. CASE r # "hit" /\ ledger.queued >= QueuedUnits
  <2>1. Unknown("queueFull") \in Outcomes /\ Unknown("queueFull").kind = "queueFull"
    BY OutcomeTypes DEF Kinds, Unknown, Missing
  <2>2. ledger.queued \in Nat /\ QueuedUnits \in Nat
    BY BoundAssumption DEF TypeOK, Ledgers
  <2>3. queue' = queue /\ identities' = [identities EXCEPT ![k] = Unknown("queueFull")]
    BY <1>2, <2>2
  <2>4. Unknown("queueFull") # Missing /\ ~IsComplete(Unknown("queueFull"))
    BY <2>1 DEF IsComplete, Missing
  <2>. QED
    BY <2>1, <2>3, <2>4 DEF Settled
<1>3. CASE r # "hit" /\ ~(ledger.queued >= QueuedUnits)
  BY <1>3 DEF Appended
<1>. QED
  BY <1>1, <1>2, <1>3

\* What the queue holds after a unit joined it.
LEMMA AppendEffect ==
    ASSUME TypeOK, NEW k \in Keys, NEW s \in {1, 2}, Appended(k, s)
    PROVE  /\ Len(queue'[s]) = Len(queue[s]) + 1
           /\ \A i \in 1..Len(queue[s]) : queue'[s][i] = queue[s][i]
           /\ queue'[s][Len(queue[s]) + 1] = k
           /\ \A t \in {1, 2} \ {s} : queue'[t] = queue[t]
<1>1. queue[s] \in Seq(Keys) /\ queue'[s] = Append(queue[s], k)
  BY DEF TypeOK, Appended
<1>. QED
  BY <1>1 DEF TypeOK, Appended

\* A step that admits k, in either loop, and one that passes over its item.
Admission(k, s) ==
    /\ seen' = seen \cup {k} /\ (Settled(k) \/ Appended(k, s))
    /\ cursor' = cursor + 1
    /\ UNCHANGED <<events, stored, pc, stage, derived, worker, reply, refused, outcomes>>
Passing ==
    /\ cursor' = cursor + 1
    /\ UNCHANGED <<events, stored, pc, stage, derived, worker, reply, refused, outcomes,
                   seen, identities, queue>>

\* Admitting an event passes it by or admits its unseen key to stage 1.
LEMMA AdmitEventEffect ==
    ASSUME TypeOK, AdmitEvent
    PROVE  /\ pc = "admit" /\ cursor \in 1..Len(events) /\ aliases' = aliases
           /\ \/ Passing /\ (events[cursor].key = NoKey \/ events[cursor].key \in seen)
              \/ /\ events[cursor].key \in Keys \ seen
                 /\ Admission(events[cursor].key, 1)
<1>1. pc = "admit" /\ cursor \in 1..Len(events) /\ aliases' = aliases
  BY DEF AdmitEvent, TypeOK
<1>2. events[cursor] \in Event
  BY <1>1 DEF TypeOK
<1>3. events[cursor].key \in Keys \cup {NoKey}
  BY <1>2 DEF Event
<1>4. CASE events[cursor].key = NoKey \/ events[cursor].key \in seen
  BY <1>1, <1>4 DEF AdmitEvent, Passing, Unseen
<1>5. CASE ~(events[cursor].key = NoKey \/ events[cursor].key \in seen)
  <2>1. seen' = seen \cup {events[cursor].key} /\ Admit(events[cursor].key, 1)
    BY <1>5 DEF AdmitEvent, Unseen
  <2>2. Settled(events[cursor].key) \/ Appended(events[cursor].key, 1)
    BY <1>3, <1>5, <2>1, AdmitEffect
  <2>. QED
    BY <1>1, <1>3, <1>5, <2>1, <2>2 DEF AdmitEvent, Admission
<1>. QED
  BY <1>4, <1>5, <1>1

\* Deriving passes a unit by or aliases it and admits its unseen compare to stage 2.
LEMMA DeriveEffect ==
    ASSUME TypeOK, DeriveCompare
    PROVE  /\ pc = "derive" /\ cursor \in 1..Len(queue[1])
           /\ LET pull == queue[1][cursor] IN
              \/ /\ Passing /\ aliases' = aliases
                 /\ pull \in Pulls => derived[pull] = NoKey
              \/ /\ pull \in Pulls /\ derived[pull] \in Compares
                 /\ aliases' = [aliases EXCEPT ![pull] = derived[pull]]
                 /\ \/ Passing /\ derived[pull] \in seen
                    \/ derived[pull] \in Keys \ seen /\ Admission(derived[pull], 2)
<1>. DEFINE pull == queue[1][cursor]
<1>1. pc = "derive" /\ cursor \in 1..Len(queue[1])
  BY DEF DeriveCompare, TypeOK
<1>2. CASE pull \in Pulls /\ derived[pull] # NoKey
  <2>1. derived[pull] \in Compares /\ derived[pull] \in Keys
    BY <1>2 DEF TypeOK, Keys, Persistable
  <2>2. aliases' = [aliases EXCEPT ![pull] = derived[pull]]
    BY <1>2 DEF DeriveCompare
  <2>3. CASE derived[pull] \in seen
    BY <1>1, <1>2, <2>1, <2>2, <2>3 DEF DeriveCompare, Passing, Unseen
  <2>4. CASE derived[pull] \notin seen
    <3>1. seen' = seen \cup {derived[pull]} /\ Admit(derived[pull], 2)
      BY <1>2, <2>4 DEF DeriveCompare, Unseen
    <3>2. Settled(derived[pull]) \/ Appended(derived[pull], 2)
      BY <2>1, <3>1, AdmitEffect
    <3>. QED
      BY <1>1, <1>2, <2>1, <2>2, <2>4, <3>1, <3>2 DEF DeriveCompare, Admission
  <2>. QED
    BY <2>3, <2>4
<1>3. CASE ~(pull \in Pulls /\ derived[pull] # NoKey)
  BY <1>1, <1>3 DEF DeriveCompare, Passing
<1>. QED
  BY <1>1, <1>2, <1>3

\* Every other step leaves the queues, the seen keys and the events alone.
LEMMA QueueFrame ==
    ASSUME TypeOK, [Next]_vars, ~AdmitEvent, ~DeriveCompare
    PROVE  /\ UNCHANGED <<events, queue, seen, aliases>>
           /\ pc' = "admit" => pc = "admit" /\ cursor' = cursor
           /\ pc = "admit" /\ pc' # "admit" => cursor > Len(events)
<1>1. ASSUME NEW k \in Keys, Goroutine(k)
      PROVE  UNCHANGED <<events, queue, seen, aliases, pc, cursor>>
  BY <1>1, GoroutineFrame
<1>2. CASE StartDispatch \/ TakeSlot \/ GateRefuse \/ GateAdmit \/ Refuse \/ Launch
  BY <1>2 DEF StartDispatch, TakeSlot, GateRefuse, GateAdmit, Refuse, Launch, work
<1>3. CASE StartJoin \/ Join \/ MaintainCache \/ Assemble
  BY <1>3 DEF StartJoin, Join, MaintainCache, Assemble, work
<1>4. CASE Cancel \/ UNCHANGED vars
  BY <1>4 DEF Cancel, vars, main, work
<1>. QED
  BY <1>1, <1>2, <1>3, <1>4 DEF Next, MainStep, Returned

\* Where the items of a queue come from after an append.
LEMMA AppendItems ==
    ASSUME TypeOK, NEW k \in Keys, NEW s \in {1, 2}, Appended(k, s)
    PROVE  /\ \A t \in {1, 2} : \A i \in 1..Len(queue'[t]) :
                \/ i \in 1..Len(queue[t]) /\ queue'[t][i] = queue[t][i]
                \/ t = s /\ i = Len(queue[s]) + 1 /\ queue'[t][i] = k
           /\ \A t \in {1, 2} : \A i \in 1..Len(queue[t]) :
                i \in 1..Len(queue'[t]) /\ queue'[t][i] = queue[t][i]
           /\ Len(queue[s]) + 1 \in 1..Len(queue'[s]) /\ queue'[s][Len(queue[s]) + 1] = k
<1>1. \A t \in {1, 2} : Len(queue[t]) \in Nat
  BY DEF TypeOK
<1>2. /\ Len(queue'[s]) = Len(queue[s]) + 1
      /\ \A i \in 1..Len(queue[s]) : queue'[s][i] = queue[s][i]
      /\ queue'[s][Len(queue[s]) + 1] = k
      /\ \A t \in {1, 2} \ {s} : queue'[t] = queue[t]
  BY AppendEffect
<1>3. \A t \in {1, 2} : \A i \in 1..Len(queue'[t]) :
        \/ i \in 1..Len(queue[t]) /\ queue'[t][i] = queue[t][i]
        \/ t = s /\ i = Len(queue[s]) + 1 /\ queue'[t][i] = k
  <2>. TAKE t \in {1, 2}
  <2>1. CASE t = s
    BY <1>1, <1>2, <2>1
  <2>2. CASE t # s
    BY <1>2, <2>2
  <2>. QED
    BY <2>1, <2>2
<1>4. \A t \in {1, 2} : \A i \in 1..Len(queue[t]) :
        i \in 1..Len(queue'[t]) /\ queue'[t][i] = queue[t][i]
  <2>. TAKE t \in {1, 2}
  <2>1. CASE t = s
    BY <1>1, <1>2, <2>1
  <2>2. CASE t # s
    BY <1>2, <2>2
  <2>. QED
    BY <2>1, <2>2
<1>. QED
  BY <1>1, <1>2, <1>3, <1>4

\* Admitting an unseen key keeps the queues distinct.
LEMMA AdmissionQueued ==
    ASSUME TypeOK, Queued, NEW k \in Keys \ seen, NEW s \in {1, 2}, Admission(k, s),
           s = 2 => k \in Compares
    PROVE  Queued'
<1>1. CASE Settled(k)
  BY <1>1 DEF Settled, Admission, Queued
<1>2. CASE Appended(k, s)
  <2>3. \A t \in {1, 2} : \A i \in 1..Len(queue'[t]) :
            \/ i \in 1..Len(queue[t]) /\ queue'[t][i] = queue[t][i]
            \/ t = s /\ i = Len(queue[s]) + 1 /\ queue'[t][i] = k
    BY <1>2, AppendItems
  <2>4. \A t \in {1, 2} : \A i \in 1..Len(queue'[t]) : queue'[t][i] \in seen'
    <3>1. k \in seen' /\ seen \subseteq seen' BY DEF Admission
    <3>2. \A t \in {1, 2} : \A i \in 1..Len(queue[t]) : queue[t][i] \in seen BY DEF Queued
    <3>. QED BY <2>3, <3>1, <3>2
  <2>5. \A t, u \in {1, 2} : \A i \in 1..Len(queue'[t]), j \in 1..Len(queue'[u]) :
            queue'[t][i] = queue'[u][j] => t = u /\ i = j
    <3>1. \A t \in {1, 2} : \A i \in 1..Len(queue[t]) : queue[t][i] # k
      BY DEF Queued
    <3>2. TAKE t, u \in {1, 2}
    <3>3. TAKE i \in 1..Len(queue'[t]), j \in 1..Len(queue'[u])
    <3>. DEFINE Old(v, n) == n \in 1..Len(queue[v]) /\ queue'[v][n] = queue[v][n]
                New(v, n) == v = s /\ n = Len(queue[s]) + 1 /\ queue'[v][n] = k
    <3>4. (Old(t, i) \/ New(t, i)) /\ (Old(u, j) \/ New(u, j))
      BY <2>3
    <3>5. CASE Old(t, i) /\ Old(u, j)
      <4>1. queue[t][i] = queue[u][j] => t = u /\ i = j
        BY <3>5 DEF Queued
      <4>. QED
        BY <3>5, <4>1
    <3>6. CASE Old(t, i) /\ New(u, j)
      BY <3>1, <3>6
    <3>7. CASE New(t, i) /\ Old(u, j)
      BY <3>1, <3>7
    <3>8. CASE New(t, i) /\ New(u, j)
      BY <3>8
    <3>. QED
      BY <3>4, <3>5, <3>6, <3>7, <3>8
  <2>6. \A i \in 1..Len(queue'[2]) : queue'[2][i] \in Compares
    BY <2>3 DEF Queued
  <2>. QED
    BY <2>4, <2>5, <2>6 DEF Queued
<1>. QED
  BY <1>1, <1>2 DEF Admission

\* Every step keeps the queues distinct.
LEMMA QueuedStep == IInv /\ [Next]_vars => Queued'
<1>. SUFFICES ASSUME TypeOK, Queued, [Next]_vars PROVE Queued'
  BY DEF IInv
<1>1. CASE AdmitEvent
  <2>1. CASE Passing
    BY <2>1 DEF Passing, Queued
  <2>2. CASE ~Passing
    BY <1>1, <2>2, AdmitEventEffect, AdmissionQueued
  <2>. QED
    BY <2>1, <2>2
<1>2. CASE DeriveCompare
  <2>. DEFINE k == derived[queue[1][cursor]]
  <2>1. CASE Passing
    BY <2>1 DEF Passing, Queued
  <2>2. CASE ~Passing
    <3>1. k \in Compares /\ k \in Keys \ seen /\ Admission(k, 2)
      BY <1>2, <2>2, DeriveEffect
    <3>. QED
      BY <3>1, AdmissionQueued
  <2>. QED
    BY <2>1, <2>2
<1>3. CASE ~AdmitEvent /\ ~DeriveCompare
  BY <1>3, QueueFrame DEF Queued
<1>. QED
  BY <1>1, <1>2, <1>3

\* Every step keeps the keys of the events passed so far seen.
LEMMA EventsSeenStep == IInv /\ [Next]_vars => EventsSeen'
<1>. SUFFICES ASSUME TypeOK, EventsSeen, [Next]_vars PROVE EventsSeen'
  BY DEF IInv
<1>0. Len(events) \in Nat /\ cursor \in Nat
  BY DEF TypeOK
<1>1. CASE AdmitEvent
  <2>1. /\ pc = "admit" /\ pc' = "admit" /\ cursor' = cursor + 1 /\ events' = events
        /\ seen \subseteq seen'
        /\ events[cursor].key # NoKey => events[cursor].key \in seen'
    BY <1>1, AdmitEventEffect DEF Passing, Admission
  <2>. QED
    BY <1>0, <2>1 DEF EventsSeen
<1>2. CASE DeriveCompare
  BY <1>2, DeriveEffect DEF Passing, Admission, EventsSeen
<1>3. CASE ~AdmitEvent /\ ~DeriveCompare
  BY <1>0, <1>3, QueueFrame DEF EventsSeen
<1>. QED
  BY <1>1, <1>2, <1>3

-----------------------------------------------------------------------------
(* Untouched                                                               *)

\* A goroutine changes its own unit's state and nobody else's.
LEMMA GoroutineEffect ==
    ASSUME TypeOK, NEW k \in Keys, Goroutine(k)
    PROVE  /\ \A j \in Keys \ {k} : worker'[j] = worker[j] /\ identities'[j] = identities[j]
                                    /\ reply'[j] = reply[j]
           /\ \A p \in Pulls \ {k} : derived'[p] = derived[p]
           /\ worker'[k] # "idle" /\ stored \subseteq stored'
<1>1. CASE Send(k) \/ Receive(k) \/ NextPage(k) \/ CheckSave(k) \/ Leave(k) \/ Release(k)
  BY <1>1 DEF Send, Receive, NextPage, CheckSave, Leave, Release, TypeOK, work
<1>2. CASE ReceiveRefs(k)
  BY <1>2 DEF ReceiveRefs, TypeOK
<1>3. CASE Settle(k)
  BY <1>3 DEF Settle, SettleIdentity, TypeOK
<1>4. CASE Save(k)
  BY <1>4 DEF Save, TypeOK, work
<1>. QED
  BY <1>1, <1>2, <1>3, <1>4 DEF Goroutine

\* Outside the admission of the events nothing becomes undispatched again.
LEMMA TurnsPass ==
    ASSUME TypeOK, Control, [Next]_vars, NEW s \in {1, 2}, NEW i \in Nat, Undispatched(s, i)'
    PROVE  Undispatched(s, i)
<1>1. ASSUME NEW k \in Keys, Goroutine(k) PROVE Undispatched(s, i)
  BY <1>1, GoroutineFrame DEF Undispatched
<1>2. CASE AdmitEvent
  BY <1>2 DEF AdmitEvent, Undispatched
<1>3. CASE DeriveCompare
  BY <1>3 DEF DeriveCompare, Undispatched, Dispatching
<1>4. CASE StartDispatch
  BY <1>4 DEF StartDispatch, Undispatched, Dispatching, Control
<1>5. CASE TakeSlot \/ GateRefuse \/ GateAdmit \/ Refuse \/ Launch
  BY <1>5 DEF TakeSlot, GateRefuse, GateAdmit, Refuse, Launch, Undispatched, Dispatching, TypeOK
<1>6. CASE StartJoin \/ Join \/ MaintainCache \/ Assemble
  BY <1>6 DEF StartJoin, Join, MaintainCache, Assemble, Undispatched, Dispatching
<1>7. CASE Cancel \/ UNCHANGED vars
  BY <1>7 DEF Cancel, vars, main, work, Undispatched
<1>. QED
  BY <1>1, <1>2, <1>3, <1>4, <1>5, <1>6, <1>7 DEF Next, MainStep, Returned

\* The unit main is dispatching is fresh, and its turn passes with this step.
LEMMA CurrentUnit ==
    ASSUME TypeOK, Control, Queued, Untouched, pc \in {"gate", "refuse", "launch"}
    PROVE  /\ unit \in Keys /\ unit \in seen /\ Fresh(unit)
           /\ stage \in {1, 2} /\ cursor \in 1..Len(queue[stage]) /\ queue[stage][cursor] = unit
           /\ \A s \in {1, 2} : \A i \in 1..Len(queue[s]) :
                queue[s][i] = unit => s = stage /\ i = cursor
<1>1. stage \in {1, 2} /\ cursor \in 1..Len(queue[stage]) /\ queue[stage][cursor] = unit
  BY DEF TypeOK, Control, unit
<1>2. Undispatched(stage, cursor)
  BY <1>1 DEF Undispatched, Dispatching
<1>. QED
  BY <1>1, <1>2, UnitType DEF Queued, Untouched, WaitingFresh

\* Admitting an unseen key touches no identity whose turn is to come.
LEMMA AdmissionUntouched ==
    ASSUME TypeOK, Queued, Untouched,
           NEW k \in Keys \ seen, NEW s \in {1, 2}, Admission(k, s),
           \A t \in {1, 2}, i \in Nat : Undispatched(t, i)' => Undispatched(t, i)
    PROVE  Untouched'
<1>1. Fresh(k) /\ seen' = seen \cup {k} /\ UNCHANGED <<worker, derived, stage>>
  BY DEF Untouched, UnseenFresh, Admission
<1>2. CASE Settled(k)
  <2>1. queue' = queue /\ \A j \in Keys \ {k} : identities'[j] = identities[j]
    BY <1>2 DEF Settled, TypeOK
  <2>2. \A t \in {1, 2} : \A i \in 1..Len(queue[t]) : queue[t][i] \in Keys \ {k} /\ i \in Nat
    BY DEF Queued, TypeOK
  <2>3. \A j \in Keys \ {k} : Fresh(j) => Fresh(j)'
    BY <1>1, <2>1 DEF Fresh
  <2>4. UnseenFresh'
    BY <1>1, <2>3 DEF Untouched, UnseenFresh
  <2>5. WaitingFresh'
    BY <2>1, <2>2, <2>3 DEF Untouched, WaitingFresh
  <2>6. AskedOpen' /\ PullsDerived'
    BY <1>1, <2>1 DEF Untouched, AskedOpen, PullsDerived, Fresh, Asking, Keys
  <2>7. PullsQueued' /\ PullsFirst'
    BY <1>1, <2>1 DEF Untouched, PullsQueued, PullsFirst
  <2>. QED
    BY <2>4, <2>5, <2>6, <2>7 DEF Untouched
<1>3. CASE Appended(k, s)
  <2>1. identities' = identities
    BY <1>3 DEF Appended
  <2>2. \A j \in Keys : Fresh(j) => Fresh(j)'
    BY <1>1, <2>1 DEF Fresh
  <2>3. UnseenFresh'
    BY <1>1, <2>2 DEF Untouched, UnseenFresh
  <2>4. WaitingFresh'
    <3>1. \A t \in {1, 2} : \A i \in 1..Len(queue'[t]) :
            \/ i \in 1..Len(queue[t]) /\ queue'[t][i] = queue[t][i] /\ queue[t][i] \in Keys
            \/ queue'[t][i] = k
      <4>1. \A t \in {1, 2} : \A i \in 1..Len(queue[t]) : queue[t][i] \in Keys
        BY DEF TypeOK
      <4>2. \A t \in {1, 2} : \A i \in 1..Len(queue'[t]) :
                \/ i \in 1..Len(queue[t]) /\ queue'[t][i] = queue[t][i]
                \/ t = s /\ i = Len(queue[s]) + 1 /\ queue'[t][i] = k
        BY <1>3, AppendItems
      <4>. QED
        BY <4>1, <4>2
    <3>2. \A t \in {1, 2} : \A i \in 1..Len(queue'[t]) : i \in Nat
      OBVIOUS
    <3>. QED
      BY <1>1, <2>2, <3>1, <3>2 DEF Untouched, WaitingFresh
  <2>5. AskedOpen' /\ PullsDerived' /\ PullsFirst'
    BY <1>1, <2>1 DEF Untouched, AskedOpen, PullsDerived, PullsFirst
  <2>6. PullsQueued'
    BY <1>1, <1>3, AppendItems DEF Untouched, PullsQueued
  <2>. QED
    BY <2>3, <2>4, <2>5, <2>6 DEF Untouched
<1>. QED
  BY <1>2, <1>3 DEF Admission

\* Every step touches only the identity whose turn it is.
LEMMA UntouchedStep == IInv /\ [Next]_vars => Untouched'
<1>. SUFFICES ASSUME TypeOK, Control, Queued, Untouched, Proven, [Next]_vars PROVE Untouched'
  BY DEF IInv
<1>0. \A s \in {1, 2}, i \in Nat : Undispatched(s, i)' => Undispatched(s, i)
  BY TurnsPass
<1>a. \A s \in {1, 2} : \A i \in 1..Len(queue[s]) : queue[s][i] \in Keys /\ i \in Nat
  BY DEF TypeOK
\* Steps that change no unit.
<1>b. ASSUME UNCHANGED <<queue, seen, identities, worker, derived>>,
             \A p \in Pulls : worker[p] \in Asking => stage' = 1
      PROVE  Untouched'
  <2>1. \A k \in Keys : Fresh(k) => Fresh(k)'
    BY <1>b DEF Fresh
  <2>2. UnseenFresh' /\ WaitingFresh'
    BY <1>0, <1>a, <1>b, <2>1 DEF Untouched, UnseenFresh, WaitingFresh
  <2>3. AskedOpen' /\ PullsDerived' /\ PullsQueued' /\ PullsFirst'
    BY <1>b DEF Untouched, AskedOpen, PullsDerived, PullsQueued, PullsFirst
  <2>. QED
    BY <2>2, <2>3 DEF Untouched
<1>c. \A p \in Pulls : worker[p] \in Asking => stage = 1
  BY DEF Untouched, PullsFirst
<1>1. CASE AdmitEvent
  <2>1. CASE Passing
    BY <1>b, <1>c, <2>1 DEF Passing
  <2>2. CASE ~Passing
    BY <1>0, <1>1, <2>2, AdmitEventEffect, AdmissionUntouched
  <2>. QED
    BY <2>1, <2>2
<1>2. CASE DeriveCompare
  <2>1. CASE Passing
    BY <1>b, <1>c, <2>1 DEF Passing
  <2>2. CASE ~Passing
    BY <1>0, <1>2, <2>2, DeriveEffect, AdmissionUntouched
  <2>. QED
    BY <2>1, <2>2
<1>3. CASE StartDispatch
  <2>1. \A p \in Pulls : worker[p] \notin Asking
    BY <1>3 DEF StartDispatch, Control, AllEnded, Alone, Asking, Keys
  <2>. QED
    BY <1>b, <1>3, <2>1 DEF StartDispatch, work
<1>4. CASE TakeSlot \/ GateRefuse \/ GateAdmit
  BY <1>b, <1>c, <1>4 DEF TakeSlot, GateRefuse, GateAdmit, work
<1>5. CASE StartJoin \/ Join \/ MaintainCache \/ Assemble
  BY <1>b, <1>c, <1>5 DEF StartJoin, Join, MaintainCache, Assemble, work
<1>6. CASE Cancel \/ UNCHANGED vars
  BY <1>b, <1>c, <1>6 DEF Cancel, vars, main, work
\* The unit whose turn it is.
<1>d. ASSUME Refuse \/ Launch
      PROVE  /\ unit \in Keys \cap seen /\ Fresh(unit)
             /\ unit \in Pulls => stage = 1
             /\ cursor \in 1..Len(queue[stage]) /\ queue[stage][cursor] = unit
             /\ \A s \in {1, 2} : \A i \in 1..Len(queue[s]) :
                    Undispatched(s, i)' => queue[s][i] # unit
             /\ UNCHANGED <<queue, seen, derived, stage>>
  <2>1. /\ pc \in {"refuse", "launch"} /\ pc' = "slot" /\ cursor' = cursor + 1
        /\ UNCHANGED <<queue, seen, derived, stage>>
    BY <1>d DEF Refuse, Launch, work
  <2>2. /\ unit \in Keys /\ unit \in seen /\ Fresh(unit)
        /\ stage \in {1, 2} /\ cursor \in 1..Len(queue[stage]) /\ queue[stage][cursor] = unit
        /\ \A s \in {1, 2} : \A i \in 1..Len(queue[s]) : queue[s][i] = unit => s = stage /\ i = cursor
    BY <2>1, CurrentUnit
  <2>3. \A s \in {1, 2}, i \in Nat : s = stage /\ i = cursor => ~Undispatched(s, i)'
    BY <2>1, <2>2 DEF Undispatched, TypeOK
  <2>4. unit \in Pulls => stage = 1
    BY <2>2, KeyAssumption DEF Queued, Persistable
  <2>5. \A s \in {1, 2} : \A i \in 1..Len(queue[s]) : i \in Nat
    BY <1>a
  <2>6. \A s \in {1, 2} : \A i \in 1..Len(queue[s]) :
            Undispatched(s, i)' => queue[s][i] # unit
    BY <2>2, <2>3, <2>5
  <2>. QED
    BY <2>1, <2>2, <2>4, <2>6
<1>7. CASE Refuse
  <2>1. worker' = worker /\ \A k \in Keys \ {unit} : identities'[k] = identities[k]
    BY <1>d, <1>7 DEF Refuse, SettleIdentity, TypeOK
  <2>2. \A k \in Keys \ {unit} : Fresh(k) => Fresh(k)'
    BY <2>1 DEF Fresh
  <2>3. UnseenFresh' /\ WaitingFresh'
    BY <1>0, <1>a, <1>d, <1>7, <2>2 DEF Untouched, UnseenFresh, WaitingFresh
  <2>4. AskedOpen' /\ PullsDerived'
    BY <1>d, <1>7, <2>1 DEF Untouched, AskedOpen, PullsDerived, Fresh, Asking, Keys
  <2>5. PullsQueued' /\ PullsFirst'
    BY <1>d, <1>7, <2>1 DEF Untouched, PullsQueued, PullsFirst
  <2>. QED
    BY <2>3, <2>4, <2>5 DEF Untouched
<1>8. CASE Launch
  <2>1. /\ identities' = identities /\ worker'[unit] = "ready"
        /\ \A k \in Keys \ {unit} : worker'[k] = worker[k]
    BY <1>d, <1>8 DEF Launch, TypeOK, work
  <2>2. \A k \in Keys \ {unit} : Fresh(k) => Fresh(k)'
    BY <2>1 DEF Fresh
  <2>3. UnseenFresh' /\ WaitingFresh'
    BY <1>0, <1>a, <1>d, <1>8, <2>2 DEF Untouched, UnseenFresh, WaitingFresh
  <2>4. AskedOpen' /\ PullsDerived'
    BY <1>d, <1>8, <2>1 DEF Untouched, AskedOpen, PullsDerived, Fresh, Keys
  <2>5. PullsQueued' /\ PullsFirst'
    BY <1>d, <1>8, <2>1 DEF Untouched, PullsQueued, PullsFirst, Keys
  <2>. QED
    BY <2>3, <2>4, <2>5 DEF Untouched
<1>9. ASSUME NEW k \in Keys, Goroutine(k) PROVE Untouched'
  <2>1. worker[k] \notin {"idle", "done"} /\ ~Fresh(k)
    BY <1>9, LiveGoroutine DEF Fresh
  <2>2. /\ \A j \in Keys \ {k} : worker'[j] = worker[j] /\ identities'[j] = identities[j]
        /\ \A p \in Pulls \ {k} : derived'[p] = derived[p]
        /\ UNCHANGED <<queue, seen, stage>>
    BY <1>9, GoroutineEffect, GoroutineFrame
  <2>3. \A j \in Keys : Fresh(j) => Fresh(j)'
    BY <2>1, <2>2 DEF Fresh
  <2>4. UnseenFresh' /\ WaitingFresh'
    BY <1>0, <1>a, <2>2, <2>3 DEF Untouched, UnseenFresh, WaitingFresh
  <2>5. worker'[k] \in Asking => identities'[k] = Missing /\ worker[k] \in Asking
    BY <1>9 DEF Goroutine, Send, Receive, NextPage, ReceiveRefs, Settle, CheckSave, Save, Leave,
                Release, TypeOK, Untouched, AskedOpen, Asking, work
  <2>6. ASSUME k \in Pulls
        PROVE  /\ worker'[k] \notin {"saving", "writing"}
               /\ derived'[k] # NoKey =>
                    worker'[k] \in {"leaving", "releasing", "done"} /\ identities'[k] = Missing
    BY <1>9, <2>6 DEF Goroutine, Send, Receive, NextPage, ReceiveRefs, Settle, CheckSave, Save,
                Leave, Release, TypeOK, Untouched, AskedOpen, PullsDerived, PullsFirst, Asking, work
  <2>7. AskedOpen' /\ PullsDerived'
    BY <2>2, <2>5, <2>6 DEF Untouched, AskedOpen, PullsDerived, Keys
  <2>8. PullsQueued' /\ PullsFirst'
    BY <2>1, <2>2, <2>5, <2>6 DEF Untouched, PullsQueued, PullsFirst, Keys
  <2>. QED
    BY <2>4, <2>7, <2>8 DEF Untouched
<1>. QED
  BY <1>1, <1>2, <1>3, <1>4, <1>5, <1>6, <1>7, <1>8, <1>9 DEF Next, MainStep, Returned

-----------------------------------------------------------------------------
(* Tracked                                                                 *)

\* The reasons a seen key is not lost.
Pending(k) == \E s \in {1, 2} : \E i \in 1..Len(queue[s]) : queue[s][i] = k /\ Undispatched(s, i)
Underway(k) == worker[k] \in Asking
Derived(k) == k \in Pulls /\ derived[k] # NoKey

\* Admitting an unseen key loses track of no identity.
LEMMA AdmissionTracked ==
    ASSUME TypeOK, Control, Queued, Tracked,
           NEW k \in Keys \ seen, NEW s \in {1, 2}, Admission(k, s),
           pc = "admit" \/ (pc = "derive" /\ s = 2)
    PROVE  Tracked'
<1>0. stage = 1 /\ stage' = 1 /\ pc' = pc
  BY DEF Control, Admission
<1>1. \A t \in {1, 2}, i \in Nat : Undispatched(t, i) => Undispatched(t, i)'
  BY <1>0 DEF Undispatched, Dispatching
<1>2. \A t \in {1, 2} : \A i \in 1..Len(queue[t]) :
        i \in Nat /\ i \in 1..Len(queue'[t]) /\ queue'[t][i] = queue[t][i]
  <2>1. CASE Settled(k)
    BY <2>1 DEF Settled
  <2>2. CASE Appended(k, s)
    BY <2>2, AppendItems
  <2>. QED
    BY <2>1, <2>2 DEF Admission
<1>3. \A j \in Keys \ {k} : identities'[j] = identities[j]
  BY DEF Admission, Settled, Appended, TypeOK
<1>4. ASSUME NEW j \in seen
      PROVE  identities'[j] # Missing \/ Pending(j)' \/ Underway(j)' \/ Derived(j)'
  <2>1. j \in Keys \ {k} /\ worker' = worker /\ derived' = derived
    BY <1>4 DEF TypeOK, Admission
  <2>2. Pending(j) => Pending(j)'
    BY <1>1, <1>2 DEF Pending
  <2>. QED
    BY <1>3, <2>1, <2>2 DEF Tracked, Pending, Underway, Derived
<1>5. identities'[k] # Missing \/ Pending(k)'
  <2>1. CASE Settled(k)
    BY <2>1 DEF Settled, TypeOK
  <2>2. CASE Appended(k, s)
    <3>1. Len(queue[s]) + 1 \in 1..Len(queue'[s]) /\ queue'[s][Len(queue[s]) + 1] = k
      BY <2>2, AppendItems
    <3>2. \A i \in Nat : Undispatched(s, i)'
      BY <1>0 DEF Undispatched
    <3>3. \A i \in 1..Len(queue'[s]) : i \in Nat
      OBVIOUS
    <3>. QED
      BY <3>1, <3>2, <3>3 DEF Pending
  <2>. QED
    BY <2>1, <2>2 DEF Admission
<1>. QED
  BY <1>4, <1>5 DEF Tracked, Pending, Underway, Derived, Admission

\* No step loses track of a seen identity.
LEMMA TrackedStep == IInv /\ [Next]_vars => Tracked'
<1>. SUFFICES ASSUME TypeOK, Control, Queued, Untouched, Tracked, Proven, [Next]_vars PROVE Tracked'
  BY DEF IInv
<1>a. \A s \in {1, 2} : \A i \in 1..Len(queue[s]) : i \in Nat /\ queue[s][i] \in Keys
  BY DEF TypeOK
<1>b. ASSUME UNCHANGED <<queue, seen, identities, worker, derived>>,
             \A s \in {1, 2} : \A i \in 1..Len(queue[s]) : Undispatched(s, i) => Undispatched(s, i)'
      PROVE  Tracked'
  BY <1>b DEF Tracked
<1>1. CASE AdmitEvent
  <2>1. CASE Passing
    <3>1. \A s \in {1, 2}, i \in Nat : Undispatched(s, i) => Undispatched(s, i)'
      BY <1>1, <2>1 DEF Undispatched, Passing, AdmitEvent
    <3>. QED
      BY <1>a, <1>b, <2>1, <3>1 DEF Passing
  <2>2. CASE ~Passing
    BY <1>1, <2>2, AdmitEventEffect, AdmissionTracked
  <2>. QED
    BY <2>1, <2>2
<1>2. CASE DeriveCompare
  <2>1. CASE Passing
    <3>1. \A s \in {1, 2}, i \in Nat : Undispatched(s, i) => Undispatched(s, i)'
      BY <1>2, <2>1 DEF Undispatched, Passing, DeriveCompare, Dispatching
    <3>. QED
      BY <1>a, <1>b, <2>1, <3>1 DEF Passing
  <2>2. CASE ~Passing
    BY <1>2, <2>2, DeriveEffect, AdmissionTracked
  <2>. QED
    BY <2>1, <2>2
<1>3. CASE StartDispatch
  <2>1. \A s \in {1, 2} : \A i \in 1..Len(queue[s]) : Undispatched(s, i) => Undispatched(s, i)'
    BY <1>3 DEF StartDispatch, Undispatched, Dispatching, Control
  <2>. QED
    BY <1>b, <1>3, <2>1 DEF StartDispatch, work
<1>4. CASE TakeSlot \/ GateRefuse \/ GateAdmit
  <2>1. \A s \in {1, 2}, i \in Nat : Undispatched(s, i) => Undispatched(s, i)'
    BY <1>4 DEF TakeSlot, GateRefuse, GateAdmit, Undispatched, Dispatching
  <2>. QED
    BY <1>a, <1>b, <1>4, <2>1 DEF TakeSlot, GateRefuse, GateAdmit, work
<1>5. CASE StartJoin
  <2>1. \A s \in {1, 2} : \A i \in 1..Len(queue[s]) : Undispatched(s, i) => Undispatched(s, i)'
    BY <1>5 DEF StartJoin, Undispatched, Dispatching, TypeOK
  <2>. QED
    BY <1>b, <1>5, <2>1 DEF StartJoin, work
<1>6. CASE Join \/ MaintainCache \/ Assemble
  <2>1. \A s \in {1, 2}, i \in Nat : Undispatched(s, i) => Undispatched(s, i)'
    BY <1>6 DEF Join, MaintainCache, Assemble, Undispatched, Dispatching
  <2>. QED
    BY <1>a, <1>b, <1>6, <2>1 DEF Join, MaintainCache, Assemble, work
<1>7. CASE Cancel \/ UNCHANGED vars
  <2>1. \A s \in {1, 2}, i \in Nat : Undispatched(s, i) => Undispatched(s, i)'
    BY <1>7 DEF Cancel, vars, main, Undispatched
  <2>. QED
    BY <1>a, <1>b, <1>7, <2>1 DEF Cancel, vars, main, work
<1>8. CASE Refuse \/ Launch
  <2>1. /\ pc \in {"refuse", "launch"} /\ pc' = "slot" /\ cursor' = cursor + 1
        /\ UNCHANGED <<queue, seen, derived, stage>>
    BY <1>8 DEF Refuse, Launch, work
  <2>2. unit \in Keys /\ stage \in {1, 2} /\ cursor \in Nat
    BY <2>1, CurrentUnit DEF TypeOK
  <2>3. queue[stage][cursor] = unit
    BY DEF unit
  <2>4. \A s \in {1, 2} : \A i \in 1..Len(queue[s]) :
            Undispatched(s, i) /\ queue[s][i] # unit => Undispatched(s, i)'
    BY <2>1, <2>2, <2>3 DEF Undispatched, Dispatching
  <2>5. \A k \in Keys \ {unit} : identities'[k] = identities[k] /\ worker'[k] = worker[k]
    BY <1>8, <2>2 DEF Refuse, Launch, SettleIdentity, TypeOK, work
  <2>6. identities'[unit] # Missing \/ worker'[unit] \in Asking
    <3>1. CASE Refuse
      BY <2>2, <3>1 DEF Refuse, SettleIdentity, TypeOK, Proven, IsComplete, Missing
    <3>2. CASE Launch
      BY <2>2, <3>2 DEF Launch, TypeOK, Asking
    <3>. QED
      BY <1>8, <3>1, <3>2
  <2>7. ASSUME NEW k \in seen, k # unit
        PROVE  identities'[k] # Missing \/ Pending(k)' \/ Underway(k)' \/ Derived(k)'
    <3>1. k \in Keys
      BY DEF TypeOK
    <3>2. Pending(k) => Pending(k)'
      BY <2>1, <2>4, <2>7 DEF Pending
    <3>. QED
      BY <2>1, <2>5, <2>7, <3>1, <3>2 DEF Tracked, Pending, Underway, Derived
  <2>. QED
    BY <2>1, <2>6, <2>7 DEF Tracked, Pending, Underway, Derived
<1>9. ASSUME NEW k \in Keys, Goroutine(k) PROVE Tracked'
  <2>1. /\ \A j \in Keys \ {k} : worker'[j] = worker[j] /\ identities'[j] = identities[j]
        /\ \A p \in Pulls \ {k} : derived'[p] = derived[p]
        /\ UNCHANGED <<queue, seen, stage, pc, cursor>>
    BY <1>9, GoroutineEffect, GoroutineFrame
  <2>2. \A s \in {1, 2}, i \in Nat : Undispatched(s, i) => Undispatched(s, i)'
    BY <2>1 DEF Undispatched
  <2>3. \A j \in Keys : Pending(j) => Pending(j)'
    BY <1>a, <2>1, <2>2 DEF Pending
  <2>4. ~Pending(k)
    BY <1>9, LiveGoroutine DEF Pending, Untouched, WaitingFresh, Fresh
  <2>5. ASSUME identities[k] # Missing \/ Underway(k) \/ Derived(k)
        PROVE  identities'[k] # Missing \/ Underway(k)' \/ Derived(k)'
    <3>1. CASE Send(k) \/ Receive(k) \/ NextPage(k)
      BY <3>1 DEF Send, Receive, NextPage, TypeOK, Underway, Asking
    <3>2. CASE ReceiveRefs(k)
      BY <3>2, KeyAssumption DEF ReceiveRefs, TypeOK, Derived, Keys, Persistable
    <3>3. CASE Settle(k)
      BY <3>3 DEF Settle, SettleIdentity, TypeOK, Proven
    <3>4. CASE CheckSave(k) \/ Save(k) \/ Leave(k) \/ Release(k)
      BY <2>5, <3>4 DEF CheckSave, Save, Leave, Release, TypeOK, Underway, Derived, Asking, work
    <3>. QED
      BY <1>9, <3>1, <3>2, <3>3, <3>4 DEF Goroutine
  <2>6. ASSUME NEW j \in seen
        PROVE  identities'[j] # Missing \/ Pending(j)' \/ Underway(j)' \/ Derived(j)'
    <3>1. j \in Keys /\ (identities[j] # Missing \/ Pending(j) \/ Underway(j) \/ Derived(j))
      BY DEF TypeOK, Tracked, Pending, Underway, Derived
    <3>2. CASE j = k
      BY <2>4, <2>5, <3>1, <3>2
    <3>3. CASE j # k
      BY <2>1, <2>3, <3>1, <3>3 DEF Underway, Derived
    <3>. QED
      BY <3>2, <3>3
  <2>. QED
    BY <2>1, <2>6 DEF Tracked, Pending, Underway, Derived
<1>. QED
  BY <1>1, <1>2, <1>3, <1>4, <1>5, <1>6, <1>7, <1>8, <1>9 DEF Next, MainStep, Returned

-----------------------------------------------------------------------------
(* Linked and Proven                                                       *)

\* Every step keeps each alias at the compare the metadata derived.
LEMMA LinkedStep == IInv /\ [Next]_vars => Linked'
<1>. SUFFICES ASSUME TypeOK, Control, Queued, Untouched, Linked, [Next]_vars PROVE Linked'
  BY DEF IInv
<1>a. ASSUME NEW p \in Pulls, derived[p] # NoKey
      PROVE  \E i \in 1..Len(queue[1]) : queue[1][i] = p
  BY <1>a DEF Untouched, PullsDerived, PullsQueued
<1>b. ASSUME UNCHANGED <<aliases, derived>>, seen \subseteq seen',
             \A p \in Pulls : derived[p] # NoKey /\ aliases[p] = NoKey =>
                /\ stage' = 1
                /\ pc' = "derive" => \E i \in cursor'..Len(queue'[1]) : queue'[1][i] = p
      PROVE  Linked'
  BY <1>b DEF Linked
<1>1. CASE AdmitEvent
  BY <1>1, <1>b, AdmitEventEffect DEF Passing, Admission, Linked, Control
<1>2. CASE DeriveCompare
  <2>. DEFINE pull == queue[1][cursor]
  <2>1. /\ pc = "derive" /\ stage = 1 /\ cursor \in 1..Len(queue[1]) /\ cursor' = cursor + 1
        /\ derived' = derived /\ stage' = 1 /\ seen \subseteq seen'
    BY <1>2, DeriveEffect DEF Passing, Admission, Control
  <2>2. queue'[1] = queue[1]
    <3>1. CASE Passing
      BY <3>1 DEF Passing
    <3>2. CASE ~Passing
      <4>. DEFINE k == derived[pull]
      <4>1. k \in Keys /\ (Settled(k) \/ Appended(k, 2))
        BY <1>2, <3>2, DeriveEffect DEF Admission
      <4>. QED
        BY <4>1, AppendEffect DEF Settled
    <3>. QED
      BY <3>1, <3>2
  <2>3. \A p \in Pulls \ {pull} : aliases'[p] = aliases[p]
    BY <1>2, DeriveEffect DEF TypeOK
  <2>4. ASSUME pull \in Pulls, derived[pull] # NoKey
        PROVE  aliases'[pull] = derived[pull] /\ derived[pull] \in seen'
    BY <1>2, <2>4, DeriveEffect DEF TypeOK, Passing, Admission
  <2>5. ASSUME pull \in Pulls, derived[pull] = NoKey PROVE aliases'[pull] = aliases[pull]
    BY <1>2, <2>5, DeriveEffect, KeyAssumption DEF Keys, Persistable
  <2>6. \A p \in Pulls : aliases'[p] # NoKey => aliases'[p] = derived[p] /\ aliases'[p] \in seen'
    BY <2>1, <2>3, <2>4, <2>5 DEF Linked
  <2>7. ASSUME NEW p \in Pulls, derived[p] # NoKey, aliases'[p] = NoKey
        PROVE  \E i \in cursor'..Len(queue'[1]) : queue'[1][i] = p
    <3>1. p # pull
      BY <2>4, <2>7
    <3>2. PICK i \in cursor..Len(queue[1]) : queue[1][i] = p
      BY <2>1, <2>3, <2>7, <3>1 DEF Linked
    <3>. QED
      BY <2>1, <2>2, <3>1, <3>2
  <2>. QED
    BY <2>1, <2>6, <2>7 DEF Linked
<1>3. CASE StartDispatch
  <2>1. CASE pc = "admit"
    BY <1>3, <1>b, <2>1 DEF StartDispatch, work
  <2>2. CASE pc # "admit"
    <3>1. pc = "derive" /\ cursor > Len(queue[1]) /\ cursor \in Nat /\ Len(queue[1]) \in Nat
      BY <1>3, <2>2 DEF StartDispatch, TypeOK
    <3>2. \A i \in cursor..Len(queue[1]) : FALSE
      BY <3>1
    <3>3. \A p \in Pulls : ~(derived[p] # NoKey /\ aliases[p] = NoKey)
      BY <3>1, <3>2 DEF Linked
    <3>. QED
      BY <1>3, <1>b, <3>3 DEF StartDispatch, work
  <2>. QED
    BY <2>1, <2>2
<1>4. CASE TakeSlot \/ GateRefuse \/ GateAdmit \/ Launch
  BY <1>4, <1>b DEF TakeSlot, GateRefuse, GateAdmit, Launch, Linked, work
<1>5. CASE Refuse \/ StartJoin
  BY <1>5, <1>b DEF Refuse, StartJoin, Linked, work
<1>6. CASE Join
  BY <1>6, <1>a, <1>b DEF Join, Linked, work
<1>7. CASE MaintainCache \/ Assemble
  BY <1>7, <1>b DEF MaintainCache, Assemble, Linked, work
<1>8. CASE Cancel \/ UNCHANGED vars
  BY <1>8, <1>b DEF Cancel, vars, main, work, Linked
<1>9. ASSUME NEW k \in Keys, Goroutine(k) PROVE Linked'
  <2>1. /\ \A p \in Pulls \ {k} : derived'[p] = derived[p]
        /\ UNCHANGED <<queue, seen, stage, pc, cursor, aliases>>
    BY <1>9, GoroutineEffect, GoroutineFrame
  <2>2. CASE ReceiveRefs(k)
    <3>1. k \in Pulls /\ worker[k] = "waiting"
      BY <2>2 DEF ReceiveRefs
    <3>2. derived[k] = NoKey /\ aliases[k] = NoKey
      BY <3>1 DEF Untouched, PullsDerived, Linked
    <3>3. stage = 1 /\ pc # "derive"
      BY <1>9, <3>1, NotAlone DEF Untouched, PullsFirst, Asking, Alone
    <3>. QED
      BY <2>1, <3>2, <3>3 DEF Linked
  <2>3. CASE ~ReceiveRefs(k)
    <3>1. derived' = derived
      BY <1>9, <2>3 DEF Goroutine, Send, Receive, NextPage, Settle, CheckSave, Save, Leave, Release, work
    <3>. QED
      BY <2>1, <3>1 DEF Linked
  <2>. QED
    BY <2>2, <2>3
<1>. QED
  BY <1>1, <1>2, <1>3, <1>4, <1>5, <1>6, <1>7, <1>8, <1>9 DEF Next, MainStep, Returned

\* The three parts of Proven.
RefusedUnknown == pc = "refuse" => ~IsComplete(refused)
ReplyProven(k) ==
    worker[k] = "settling" =>
        reply[k] # Missing /\ (IsComplete(reply[k]) => reply[k] = Complete(k, reply[k].prov))
IdentityProven(k) ==
    identities[k] # Missing /\ IsComplete(identities[k]) =>
        identities[k].of = k /\ (k \in stored \/ reply[k] = Complete(k, reply[k].prov))

\* Proven, unit by unit.
LEMMA ProvenParts == Proven <=> RefusedUnknown /\ \A k \in Keys : ReplyProven(k) /\ IdentityProven(k)
BY DEF Proven, RefusedUnknown, ReplyProven, IdentityProven

\* Admission completes an identity only from a stored record.
LEMMA AdmissionProven ==
    ASSUME TypeOK, Control, Proven, NEW k \in Keys, NEW s \in {1, 2}, Admission(k, s),
           pc = "admit" \/ pc = "derive"
    PROVE  Proven'
<1>1. pc' # "refuse" /\ UNCHANGED <<worker, reply, stored>>
  BY DEF Admission
<1>2. \A j \in Keys \ {k} : identities'[j] = identities[j]
  BY DEF Admission, Settled, Appended, TypeOK
<1>3. IdentityProven(k)'
  <2>1. CASE Settled(k)
    BY <1>1, <2>1 DEF Settled, TypeOK, IdentityProven
  <2>2. CASE Appended(k, s)
    BY <1>1, <2>2, ProvenParts DEF Appended, IdentityProven
  <2>. QED
    BY <2>1, <2>2 DEF Admission
<1>4. \A j \in Keys : ReplyProven(j)' /\ IdentityProven(j)'
  BY <1>1, <1>2, <1>3, ProvenParts DEF ReplyProven, IdentityProven
<1>. QED
  BY <1>1, <1>4 DEF Proven, ReplyProven, IdentityProven

\* Every step completes an identity only with what was proven for it.
LEMMA ProvenStep == IInv /\ [Next]_vars => Proven'
<1>. SUFFICES ASSUME TypeOK, Control, Queued, Untouched, Proven, [Next]_vars PROVE Proven'
  BY DEF IInv
<1>b. ASSUME UNCHANGED <<identities, worker, reply, stored>>, RefusedUnknown' PROVE Proven'
  BY <1>b DEF Proven, RefusedUnknown
<1>1. CASE AdmitEvent
  <2>1. CASE Passing
    BY <1>1, <1>b, <2>1, AdmitEventEffect DEF Passing, RefusedUnknown
  <2>2. CASE ~Passing
    BY <1>1, <2>2, AdmitEventEffect, AdmissionProven
  <2>. QED
    BY <2>1, <2>2
<1>2. CASE DeriveCompare
  <2>1. CASE Passing
    BY <1>2, <1>b, <2>1, DeriveEffect DEF Passing, RefusedUnknown
  <2>2. CASE ~Passing
    BY <1>2, <2>2, DeriveEffect, AdmissionProven
  <2>. QED
    BY <2>1, <2>2
<1>3. CASE StartDispatch \/ TakeSlot \/ GateAdmit \/ StartJoin
  BY <1>3, <1>b DEF StartDispatch, TakeSlot, GateAdmit, StartJoin, RefusedUnknown, work
<1>4. CASE GateRefuse
  <2>1. refused'.kind # "complete"
    BY <1>4 DEF GateRefuse, Unknown, RateLimited, Missing
  <2>. QED
    BY <1>4, <1>b, <2>1 DEF GateRefuse, RefusedUnknown, IsComplete, work
<1>5. CASE Refuse
  <2>1. unit \in Keys /\ ~IsComplete(refused) /\ pc' = "slot"
        /\ UNCHANGED <<worker, reply, stored>>
        /\ identities' = [identities EXCEPT ![unit] = refused]
    BY <1>5, CurrentUnit DEF Refuse, SettleIdentity, Proven
  <2>2. \A k \in Keys : IdentityProven(k)' /\ ReplyProven(k)'
    BY <2>1, ProvenParts DEF IdentityProven, ReplyProven, TypeOK
  <2>. QED
    BY <2>1, <2>2 DEF Proven, ReplyProven, IdentityProven
<1>6. CASE Launch
  <2>1. unit \in Keys /\ worker'[unit] = "ready" /\ pc' = "slot"
        /\ UNCHANGED <<identities, reply, stored>>
        /\ \A k \in Keys \ {unit} : worker'[k] = worker[k]
    BY <1>6, CurrentUnit DEF Launch, TypeOK, work
  <2>2. \A k \in Keys : IdentityProven(k)' /\ ReplyProven(k)'
    BY <2>1, ProvenParts DEF IdentityProven, ReplyProven
  <2>. QED
    BY <2>1, <2>2 DEF Proven, ReplyProven, IdentityProven
<1>7. CASE Join \/ MaintainCache \/ Assemble
  BY <1>7, <1>b DEF Join, MaintainCache, Assemble, RefusedUnknown, work
<1>8. CASE Cancel \/ UNCHANGED vars
  BY <1>8, <1>b DEF Cancel, vars, RefusedUnknown, main, work, Proven
<1>9. ASSUME NEW k \in Keys, Goroutine(k) PROVE Proven'
  <2>1. /\ \A j \in Keys \ {k} : worker'[j] = worker[j] /\ identities'[j] = identities[j]
                                 /\ reply'[j] = reply[j]
        /\ stored \subseteq stored' /\ UNCHANGED <<pc, refused>>
    BY <1>9, GoroutineEffect, GoroutineFrame
  <2>2. ReplyProven(k) /\ IdentityProven(k)
    BY ProvenParts
  <2>3. ReplyProven(k)' /\ IdentityProven(k)'
    <3>1. CASE Send(k)
      <4>1. identities'[k] = Missing
        BY <3>1 DEF Send, work, Untouched, AskedOpen, Asking
      <4>2. worker'[k] = "settling" => reply'[k] = Unknown("canceled")
        BY <3>1 DEF Send, TypeOK
      <4>3. Unknown("canceled").kind = "canceled"
        BY DEF Unknown, Missing
      <4>. QED
        BY <4>1, <4>2, <4>3 DEF ReplyProven, IdentityProven, IsComplete, Missing
    <3>2. CASE Receive(k)
      <4>1. identities'[k] = Missing
        BY <3>2 DEF Receive, work, Untouched, AskedOpen, Asking
      <4>2. reply'[k] \in Replies(k)
        BY <3>2 DEF Receive, TypeOK
      <4>. QED
        BY <4>1, <4>2, ReplyTypes DEF ReplyProven, IdentityProven
    <3>3. CASE Settle(k)
      <4>1. worker[k] = "settling" /\ worker'[k] # "settling" /\ identities'[k] = reply[k]
            /\ reply' = reply /\ reply[k] \in Outcomes
        BY <3>3 DEF Settle, SettleIdentity, TypeOK
      <4>2. ASSUME IsComplete(reply[k]) PROVE reply[k].of = k /\ reply[k] = Complete(k, reply[k].prov)
        <5>1. reply[k] = Complete(k, reply[k].prov)
          BY <2>2, <4>1, <4>2 DEF ReplyProven
        <5>2. Complete(k, reply[k].prov).of = k
          BY DEF Complete, Missing
        <5>. QED
          BY <5>1, <5>2
      <4>. QED
        BY <4>1, <4>2 DEF ReplyProven, IdentityProven
    <3>4. CASE NextPage(k) \/ ReceiveRefs(k) \/ CheckSave(k) \/ Save(k) \/ Leave(k) \/ Release(k)
      <4>1. identities' = identities /\ reply' = reply /\ worker'[k] # "settling"
        BY <3>4 DEF NextPage, ReceiveRefs, CheckSave, Save, Leave, Release, work, TypeOK
      <4>. QED
        BY <2>1, <2>2, <4>1 DEF ReplyProven, IdentityProven
    <3>. QED
      BY <1>9, <3>1, <3>2, <3>3, <3>4 DEF Goroutine
  <2>4. \A j \in Keys : ReplyProven(j)' /\ IdentityProven(j)'
    BY <2>1, <2>3, ProvenParts DEF ReplyProven, IdentityProven
  <2>. QED
    BY <2>1, <2>4 DEF Proven, ReplyProven, IdentityProven
<1>. QED
  BY <1>1, <1>2, <1>3, <1>4, <1>5, <1>6, <1>7, <1>8, <1>9 DEF Next, MainStep, Returned

-----------------------------------------------------------------------------
(* The answers                                                             *)

\* Once both dispatches ended, the identity each seen key resolves to is the one
\* its own metadata derived, and it is settled.
LEMMA ResolvedIsSettled ==
    ASSUME IInv, pc = "assemble", NEW k \in seen
    PROVE  /\ Resolve(k) = IF k \in Pulls /\ derived[k] # NoKey THEN derived[k] ELSE k
           /\ Resolve(k) \in Keys
           /\ identities[Resolve(k)] # Missing
<1>1. stage = 2 /\ \A j \in Keys : worker[j] \in {"idle", "done"}
  BY DEF IInv, Control, Alone, AllEnded
<1>2. \A j \in seen : j \in Keys /\ (identities[j] # Missing \/ (j \in Pulls /\ derived[j] # NoKey))
  <2>1. \A s \in {1, 2} : \A i \in 1..Len(queue[s]) : ~Undispatched(s, i)
    BY <1>1 DEF Undispatched, Dispatching
  <2>2. \A j \in seen : j \in Keys /\ worker[j] \notin Asking
    BY <1>1 DEF IInv, TypeOK, Asking
  <2>. QED
    BY <2>1, <2>2 DEF IInv, Tracked
<1>3. CASE k \in Pulls /\ derived[k] # NoKey
  <2>1. aliases[k] = derived[k] /\ derived[k] \in seen /\ aliases[k] # NoKey
    BY <1>1, <1>3 DEF IInv, Linked
  <2>2. derived[k] \in Compares /\ derived[k] \notin Pulls
    BY <1>3, KeyAssumption DEF IInv, TypeOK, Persistable
  <2>. QED
    BY <1>2, <1>3, <2>1, <2>2 DEF Resolve
<1>4. CASE ~(k \in Pulls /\ derived[k] # NoKey)
  BY <1>2, <1>4 DEF Resolve, IInv, Linked
<1>. QED
  BY <1>3, <1>4

\* A complete answer main is about to give was proven for its event.
LEMMA AnswerIsProven ==
    ASSUME IInv, pc = "assemble", NEW i \in 1..Len(events), IsComplete(Answer(events[i]))
    PROVE  LET o == Answer(events[i])
               k == events[i].key
           IN /\ o.of # NoKey /\ k # NoKey
              /\ o.of = IF k \in Pulls /\ derived[k] # NoKey THEN derived[k] ELSE k
              /\ o.of \in stored \/ reply[o.of] = Complete(o.of, reply[o.of].prov)
              /\ k \in Commits => ParentOf[k] = events[i].before
              /\ o.prov = "current-pr" <=> k \in Pulls
<1>. DEFINE event == events[i]
            k == event.key
            r == Resolve(k)
            settled == identities[r]
<1>1. k # NoKey
  BY DEF Answer, IsComplete, Unknown, Missing
<1>2. k \in seen
  BY <1>1 DEF IInv, EventsSeen
<1>3. /\ r = IF k \in Pulls /\ derived[k] # NoKey THEN derived[k] ELSE k
      /\ r \in Keys /\ r # NoKey /\ settled # Missing /\ settled \in Outcomes
  BY <1>2, ResolvedIsSettled, KeyAssumption DEF IInv, TypeOK
<1>4. ForDescriptor(settled, event).kind # "limited" /\ Answer(event) = ForDescriptor(settled, event)
  <2>1. RateLimited(ledger.retryAt).kind = "limited"
    BY DEF RateLimited, Unknown, Missing
  <2>. QED
    BY <1>1, <2>1 DEF Answer, IsComplete
<1>5. Unknown("wrongParent").kind = "wrongParent"
  BY DEF Unknown, Missing
<1>6. /\ IsComplete(settled)
      /\ Answer(event) = [settled EXCEPT !.prov = EventProvenance(k)]
      /\ k \in Commits => settled.of \in Commits /\ ParentOf[settled.of] = event.before
  BY <1>4, <1>5 DEF ForDescriptor, IsComplete
<1>7. settled.of = r /\ (r \in stored \/ reply[r] = Complete(r, reply[r].prov))
  BY <1>3, <1>6 DEF IInv, Proven
<1>8. Answer(event).of = r /\ Answer(event).prov = EventProvenance(k)
  BY <1>3, <1>6, <1>7 DEF Outcomes
<1>9. k \in Commits => r = k
  BY <1>3, KeyAssumption DEF Keys, Persistable
<1>. HIDE DEF settled, r
<1>. QED
  BY <1>1, <1>3, <1>6, <1>7, <1>8, <1>9 DEF EventProvenance

\* Every step keeps the complete outcomes proven.
LEMMA CompleteStep == IInv /\ [Next]_vars => CompleteIsProven'
<1>. SUFFICES ASSUME IInv, [Next]_vars PROVE CompleteIsProven'
  OBVIOUS
<1>1. CASE Assemble
  <2>1. /\ outcomes' = [i \in 1..Len(events) |-> Answer(events[i])]
        /\ pc = "assemble" /\ UNCHANGED <<events, derived, stored, reply>>
    BY <1>1 DEF Assemble, work
  <2>2. DOMAIN outcomes' = 1..Len(events) /\ \A i \in 1..Len(events) : outcomes'[i] = Answer(events[i])
    BY <2>1
  <2>. QED
    BY <2>1, <2>2, AnswerIsProven DEF CompleteIsProven
<1>2. CASE ~Assemble /\ pc # "done"
  <2>1. outcomes = <<>> /\ outcomes' = outcomes
    <3>0. outcomes = <<>>
      BY <1>2 DEF IInv, Control
    <3>1. ASSUME NEW k \in Keys, Goroutine(k) PROVE outcomes' = outcomes
      BY <3>1, GoroutineFrame
    <3>2. CASE AdmitEvent \/ DeriveCompare \/ StartDispatch \/ TakeSlot \/ GateRefuse \/ GateAdmit
      BY <3>0, <3>2 DEF AdmitEvent, DeriveCompare, StartDispatch, TakeSlot, GateRefuse, GateAdmit
    <3>3. CASE Refuse \/ Launch \/ StartJoin \/ Join \/ MaintainCache
      BY <3>0, <3>3 DEF Refuse, Launch, StartJoin, Join, MaintainCache
    <3>4. CASE Cancel \/ UNCHANGED vars
      BY <3>0, <3>4 DEF Cancel, vars
    <3>. QED
      BY <1>2, <3>0, <3>1, <3>2, <3>3, <3>4 DEF Next, MainStep, Returned
  <2>. QED
    BY <2>1 DEF CompleteIsProven
<1>3. CASE pc = "done"
  <2>1. \A k \in Keys : ~Goroutine(k)
    BY <1>3, LiveGoroutine, NotAlone DEF IInv, Alone
  <2>2. UNCHANGED vars
    BY <1>3, <2>1 DEF Next, MainStep, AdmitEvent, DeriveCompare, StartDispatch, TakeSlot, GateRefuse,
       GateAdmit, Refuse, Launch, StartJoin, Join, MaintainCache, Assemble, Cancel, Returned
  <2>. QED
    BY <2>2 DEF vars, work, CompleteIsProven, IInv
<1>. QED
  BY <1>1, <1>2, <1>3

-----------------------------------------------------------------------------
(* The theorems                                                            *)

\* The invariant holds when Evidence is called.
LEMMA InitInv == Init => IInv
<1>. SUFFICES ASSUME Init PROVE IInv
  OBVIOUS
<1>1. \A i \in 1..Len(<<>>) : FALSE
  OBVIOUS
<1>2. TypeOK
  <2>1. Missing \in Outcomes
    BY OutcomeTypes
  <2>2. ledger \in Ledgers
    BY DEF Init, Ledgers
  <2>3. events \in Seq(Event) /\ stored \subseteq Persistable
    BY KeyAssumption DEF Init
  <2>4. queue \in [{1, 2} -> Seq(Keys)] /\ outcomes \in Seq(Outcomes)
    BY DEF Init
  <2>0. canceled \in BOOLEAN /\ limited \in BOOLEAN
    BY Zenon DEF Init
  <2>5. /\ pc \in MainPhases /\ stage \in {1, 2} /\ cursor \in Nat \ {0}
        /\ seen \subseteq Keys /\ aliases \in [Pulls -> Compares \cup {NoKey}]
        /\ derived \in [Pulls -> Compares \cup {NoKey}]
    BY DEF Init, MainPhases
  <2>6. /\ identities \in [Keys -> Outcomes] /\ worker \in [Keys -> WorkerPhases]
        /\ reply \in [Keys -> Outcomes] /\ sent \in [Keys -> Nat]
    BY <2>1 DEF Init, WorkerPhases
  <2>7. slots \in Int /\ running \in Int /\ refused \in Outcomes
    BY <2>1 DEF Init
  <2>. QED
    BY <2>0, <2>2, <2>3, <2>4, <2>5, <2>6, <2>7 DEF TypeOK
<1>3. Control /\ EventsSeen
  BY <1>2 DEF Init, Control, AllEnded, EventsSeen, TypeOK
<1>4. Queued /\ Untouched /\ Tracked
  BY <1>1 DEF Init, Queued, Untouched, UnseenFresh, WaitingFresh, AskedOpen, PullsDerived,
     PullsQueued, PullsFirst, Tracked, Fresh, Asking, Keys
<1>5. Linked /\ Proven /\ CompleteIsProven
  BY <1>1 DEF Init, Linked, Proven, CompleteIsProven, Keys
<1>. QED
  BY <1>2, <1>3, <1>4, <1>5 DEF IInv

\* The inductive invariant holds of every reachable state.
THEOREM Invariance == Spec => []IInv
<1>1. Init => IInv
  BY InitInv
<1>2. IInv /\ [Next]_vars => IInv'
  BY TypeStep, ControlStep, QueuedStep, EventsSeenStep, UntouchedStep, TrackedStep, LinkedStep,
     ProvenStep, CompleteStep DEF IInv
<1>. QED
  BY <1>1, <1>2, PTL DEF Spec

\* Type correctness of the coordination, for every input and every bound.
THEOREM TypeCorrect == Spec => []TypeOK
<1>1. IInv => TypeOK
  BY DEF IInv
<1>. QED
  BY <1>1, Invariance, PTL

\* A complete outcome was proven for its event: no interleaving, cancellation,
\* rate limit or spent bound makes Evidence report an identity it lost as an
\* empty change set.
THEOREM CompleteSafe == Spec => []CompleteIsProven
<1>1. IInv => CompleteIsProven
  BY DEF IInv
<1>. QED
  BY <1>1, Invariance, PTL

-----------------------------------------------------------------------------
(***************************************************************************)
(* What a refresh may spend and when main is alone, for every set of work  *)
(* keys, every input and every value of the bounds.                        *)
(*                                                                         *)
(* The counters the code keeps are tied to the goroutines they stand for:  *)
(* slots, running and ledger.requests are the cardinalities of the sets of *)
(* goroutines that hold a slot, run, or were launched (Counted), and that  *)
(* is what makes the guards on them bound the concurrency and the budget.  *)
(* The order of dispatch rests on the gate's reasons to refuse never       *)
(* lapsing (Stopping, Ordered).                                            *)
(***************************************************************************)

Launched == {k \in Keys : worker[k] # "idle"}
Holding == {k \in Keys : worker[k] \notin {"idle", "done"}}
Running == {k \in Keys : worker[k] \notin {"idle", "releasing", "done"}}

Gating == {"gate", "refuse", "launch"}

Counted ==
    /\ IsFiniteSet(Launched)
    /\ slots = Cardinality(Holding) + (IF pc \in Gating THEN 1 ELSE 0)
    /\ running = Cardinality(Running)
    /\ ledger.requests = Cardinality(Launched) + (IF pc = "launch" THEN 1 ELSE 0)

Spent ==
    /\ ledger.requests <= Requests /\ ledger.queued <= QueuedUnits
    /\ ledger.reads <= CacheReads /\ ledger.hits <= ledger.reads
    /\ ledger.writes <= CacheWrites
    /\ ledger.peak <= Concurrency /\ slots <= Concurrency

BoundsInv == Counted /\ Spent
-----------------------------------------------------------------------------
(* The sets of goroutines                                                  *)

\* Who runs holds a slot, and who holds a slot was launched.
LEMMA GoroutineSets ==
    ASSUME IsFiniteSet(Launched)
    PROVE  /\ IsFiniteSet(Holding) /\ IsFiniteSet(Running)
           /\ Cardinality(Launched) \in Nat /\ Cardinality(Holding) \in Nat
           /\ Cardinality(Running) \in Nat /\ Cardinality(Running) <= Cardinality(Holding)
<1>1. Holding \in SUBSET Launched /\ Running \in SUBSET Holding
  BY DEF Launched, Holding, Running
<1>2. IsFiniteSet(Holding)
  BY <1>1, FS_Subset, Zenon
<1>3. IsFiniteSet(Running) /\ Cardinality(Running) <= Cardinality(Holding)
  BY <1>1, <1>2, FS_Subset, Zenon
<1>. QED
  BY <1>2, <1>3, FS_CardinalityType, Zenon

\* A goroutine that neither leaves nor releases its slot changes no count.
LEMMA SameGoroutines ==
    ASSUME TypeOK, NEW k \in Keys, NEW phase \in {"ready", "waiting", "settling", "saving", "writing", "leaving"},
           worker[k] \notin {"idle", "releasing", "done"},
           worker' = [worker EXCEPT ![k] = phase]
    PROVE  Launched' = Launched /\ Holding' = Holding /\ Running' = Running
<1>1. \A j \in Keys : worker'[j] = IF j = k THEN phase ELSE worker[j]
  BY DEF TypeOK
<1>. QED
  BY <1>1 DEF Launched, Holding, Running

\* What a goroutine's step does to the sets and to the counters kept with them.
LEMMA GoroutineCounts ==
    ASSUME TypeOK, NEW k \in Keys, Goroutine(k)
    PROVE  \/ /\ Launched' = Launched /\ Holding' = Holding /\ Running' = Running
              /\ UNCHANGED <<slots, running>>
           \/ /\ Launched' = Launched /\ Holding' = Holding
              /\ k \in Running /\ Running' = Running \ {k}
              /\ running' = running - 1 /\ slots' = slots
           \/ /\ Launched' = Launched /\ Running' = Running
              /\ k \in Holding /\ Holding' = Holding \ {k}
              /\ slots' = slots - 1 /\ running' = running
<1>1. CASE Send(k)
  BY <1>1, SameGoroutines DEF Send
<1>2. CASE Receive(k)
  BY <1>2, SameGoroutines DEF Receive
<1>3. CASE NextPage(k)
  BY <1>3, SameGoroutines DEF NextPage
<1>4. CASE ReceiveRefs(k)
  BY <1>4, SameGoroutines DEF ReceiveRefs
<1>5. CASE Settle(k)
  BY <1>5, SameGoroutines DEF Settle
<1>6. CASE CheckSave(k)
  BY <1>6, SameGoroutines DEF CheckSave
<1>7. CASE Save(k)
  BY <1>7, SameGoroutines DEF Save
<1>8. CASE Leave(k)
  <2>1. \A j \in Keys : worker'[j] = IF j = k THEN "releasing" ELSE worker[j]
    BY <1>8 DEF Leave, TypeOK
  <2>2. worker[k] = "leaving" /\ running' = running - 1 /\ slots' = slots
    BY <1>8 DEF Leave
  <2>. QED
    BY <2>1, <2>2 DEF Launched, Holding, Running
<1>9. CASE Release(k)
  <2>1. \A j \in Keys : worker'[j] = IF j = k THEN "done" ELSE worker[j]
    BY <1>9 DEF Release, TypeOK
  <2>2. worker[k] = "releasing" /\ slots' = slots - 1 /\ running' = running
    BY <1>9 DEF Release
  <2>. QED
    BY <2>1, <2>2 DEF Launched, Holding, Running
<1>. QED
  BY <1>1, <1>2, <1>3, <1>4, <1>5, <1>6, <1>7, <1>8, <1>9 DEF Goroutine

-----------------------------------------------------------------------------
(* The ledger                                                              *)

\* A lookup spends at most one read, and only below the bound.
LEMMA LookupSpends ==
    ASSUME ledger \in Ledgers, NEW k \in Keys, NEW r \in LookupResults(k)
    PROVE  LET after == AfterLookup(r) IN
           /\ after.requests = ledger.requests /\ after.writes = ledger.writes
           /\ after.peak = ledger.peak /\ after.retryAt = ledger.retryAt
           /\ after.canceled = ledger.canceled
           /\ \/ after.reads = ledger.reads /\ after.hits = ledger.hits
              \/ /\ ledger.reads < CacheReads /\ after.reads = ledger.reads + 1
                 /\ after.hits \in {ledger.hits, ledger.hits + 1}
<1>1. /\ AfterLookup(r).requests = ledger.requests /\ AfterLookup(r).writes = ledger.writes
      /\ AfterLookup(r).peak = ledger.peak /\ AfterLookup(r).retryAt = ledger.retryAt
      /\ AfterLookup(r).canceled = ledger.canceled
      /\ AfterLookup(r).reads = IF r = "none" THEN ledger.reads ELSE ledger.reads + 1
      /\ AfterLookup(r).hits = IF r = "hit" THEN ledger.hits + 1 ELSE ledger.hits
  BY DEF AfterLookup, Ledgers
<1>2. r # "none" => ledger.reads < CacheReads
  BY DEF LookupResults, CanLookup
<1>. QED
  BY <1>1, <1>2

\* What an admission does to the ledger.
LEMMA AdmitSpends ==
    ASSUME TypeOK, Spent, NEW k \in Keys, NEW s \in {1, 2}, Admit(k, s)
    PROVE  /\ ledger'.requests = ledger.requests /\ ledger'.writes = ledger.writes
           /\ ledger'.peak = ledger.peak /\ ledger'.retryAt = ledger.retryAt
           /\ ledger'.canceled = ledger.canceled
           /\ ledger.queued <= ledger'.queued /\ ledger'.queued <= QueuedUnits
           /\ ledger'.reads <= CacheReads /\ ledger'.hits <= ledger'.reads
<1>. PICK r \in LookupResults(k) : Admit(k, s)!(r)
  BY DEF Admit
<1>. DEFINE after == AfterLookup(r)
<1>1. ledger \in Ledgers
  BY DEF TypeOK
<1>2. /\ after \in Ledgers /\ after.queued = ledger.queued
      /\ after.requests = ledger.requests /\ after.writes = ledger.writes
      /\ after.peak = ledger.peak /\ after.retryAt = ledger.retryAt
      /\ after.canceled = ledger.canceled
      /\ \/ after.reads = ledger.reads /\ after.hits = ledger.hits
         \/ /\ ledger.reads < CacheReads /\ after.reads = ledger.reads + 1
            /\ after.hits \in {ledger.hits, ledger.hits + 1}
  BY <1>1, LedgerTypes, LookupSpends
<1>3. \/ ledger' = after
      \/ ledger' = [after EXCEPT !.queued = @ + 1] /\ ledger.queued < QueuedUnits
  OBVIOUS
<1>4. ledger.hits \in Nat /\ ledger.reads \in Nat /\ ledger.queued \in Nat
  BY <1>1 DEF Ledgers
<1>5. CacheReads \in Nat /\ QueuedUnits \in Nat
  BY BoundAssumption
<1>. HIDE DEF after
<1>6. /\ ledger'.requests = after.requests /\ ledger'.writes = after.writes
      /\ ledger'.peak = after.peak /\ ledger'.retryAt = after.retryAt
      /\ ledger'.canceled = after.canceled
      /\ ledger'.reads = after.reads /\ ledger'.hits = after.hits
      /\ \/ ledger'.queued = ledger.queued
         \/ ledger'.queued = ledger.queued + 1 /\ ledger.queued < QueuedUnits
  BY <1>2, <1>3 DEF Ledgers
<1>. QED
  BY <1>2, <1>4, <1>5, <1>6 DEF Spent

\* The steps outside the gate that touch no goroutine.
Quiet ==
    \/ AdmitEvent \/ DeriveCompare \/ StartDispatch \/ StartJoin \/ Join \/ MaintainCache
    \/ Assemble \/ Cancel \/ UNCHANGED vars

\* They keep every count, and what they spend stays within the bounds.
LEMMA QuietStep ==
    ASSUME TypeOK, Spent, Quiet
    PROVE  /\ UNCHANGED <<worker, slots, running>> /\ ledger'.requests = ledger.requests
           /\ pc' \in Gating <=> pc \in Gating
           /\ pc' = "launch" <=> pc = "launch"
           /\ Spent'
<1>1. ledger \in Ledgers
  BY DEF TypeOK
<1>2. CASE AdmitEvent
  <2>1. events[cursor].key # NoKey => events[cursor].key \in Keys
    BY <1>2, AdmitEventEffect DEF Event, TypeOK
  <2>2. \/ ledger' = ledger
        \/ events[cursor].key \in Keys /\ Admit(events[cursor].key, 1)
    BY <1>2, <2>1 DEF AdmitEvent
  <2>3. UNCHANGED <<worker, slots, running, pc>>
    BY <1>2 DEF AdmitEvent
  <2>4. Spent' /\ ledger'.requests = ledger.requests
    BY <2>2, <2>3, AdmitSpends DEF Spent
  <2>. QED
    BY <2>3, <2>4
<1>3. CASE DeriveCompare
  <2>. DEFINE k == derived[queue[1][cursor]]
  <2>1. \/ ledger' = ledger
        \/ k \in Keys /\ Admit(k, 2)
    <3>1. queue[1][cursor] \in Pulls /\ k # NoKey => k \in Keys
      BY DEF TypeOK, Keys, Persistable
    <3>. QED
      BY <1>3, <3>1 DEF DeriveCompare
  <2>2. UNCHANGED <<worker, slots, running, pc>>
    BY <1>3 DEF DeriveCompare
  <2>. HIDE DEF k
  <2>3. Spent' /\ ledger'.requests = ledger.requests
    BY <2>1, <2>2, AdmitSpends DEF Spent
  <2>. QED
    BY <2>2, <2>3
<1>4. CASE StartDispatch \/ StartJoin \/ Join \/ Assemble
  BY <1>4 DEF StartDispatch, StartJoin, Join, Assemble, Spent, Gating
<1>5. CASE MaintainCache
  <2>1. /\ ledger'.requests = ledger.requests /\ ledger'.queued = ledger.queued
        /\ ledger'.reads = ledger.reads /\ ledger'.hits = ledger.hits
        /\ ledger'.writes = ledger.writes /\ ledger'.peak = ledger.peak
    BY <1>1, <1>5 DEF MaintainCache, Ledgers
  <2>. QED
    BY <1>5, <2>1 DEF MaintainCache, Spent, Gating
<1>6. CASE Cancel \/ UNCHANGED vars
  BY <1>6 DEF Cancel, vars, main, Spent
<1>. QED
  BY <1>2, <1>3, <1>4, <1>5, <1>6 DEF Quiet

\* What a goroutine does to the ledger: save spends a write below the bound,
\* settling reports rate limits and cancellation.
LEMMA GoroutineSpends ==
    ASSUME TypeOK, NEW k \in Keys, Goroutine(k)
    PROVE  /\ ledger'.requests = ledger.requests /\ ledger'.queued = ledger.queued
           /\ ledger'.reads = ledger.reads /\ ledger'.hits = ledger.hits
           /\ ledger'.peak = ledger.peak
           /\ \/ ledger'.writes = ledger.writes
              \/ ledger'.writes = ledger.writes + 1 /\ ~WritesSpent
<1>1. ledger \in Ledgers
  BY DEF TypeOK
<1>2. CASE Send(k) \/ Receive(k) \/ NextPage(k) \/ ReceiveRefs(k) \/ CheckSave(k) \/ Leave(k) \/ Release(k)
  BY <1>2 DEF Send, Receive, NextPage, ReceiveRefs, CheckSave, Leave, Release
<1>3. CASE Settle(k)
  BY <1>1, <1>3 DEF Settle, SettleIdentity, Ledgers
<1>4. CASE Save(k)
  <2>1. \/ ledger' = ledger
        \/ ledger' = [ledger EXCEPT !.writes = @ + 1] /\ ~WritesSpent
        \/ ledger' = [ledger EXCEPT !.degraded = TRUE]
    BY <1>4 DEF Save
  <2>. QED
    BY <1>1, <2>1 DEF Ledgers
<1>. QED
  BY <1>2, <1>3, <1>4 DEF Goroutine

\* The bounds hold when Evidence is called.
LEMMA BoundsInit == Init => BoundsInv
<1>. SUFFICES ASSUME Init PROVE BoundsInv
  OBVIOUS
<1>1. Launched = {} /\ Holding = {} /\ Running = {}
  BY DEF Init, Launched, Holding, Running
<1>2. Counted
  BY <1>1, FS_EmptySet DEF Init, Counted, Gating
<1>3. Spent
  BY BoundAssumption DEF Init, Spent
<1>. QED
  BY <1>2, <1>3 DEF BoundsInv

\* Every step keeps the counts and the bounds.
LEMMA BoundsStep == IInv /\ BoundsInv /\ [Next]_vars => BoundsInv'
<1>. SUFFICES ASSUME IInv, Counted, Spent, [Next]_vars PROVE Counted' /\ Spent'
  BY DEF BoundsInv
<1>. USE DEF IInv
<1>1. ledger \in Ledgers /\ slots \in Int /\ running \in Int
  BY DEF TypeOK
<1>2. Requests \in Nat /\ CacheWrites \in Nat /\ Concurrency \in Nat
  BY BoundAssumption
<1>3. /\ IsFiniteSet(Launched) /\ IsFiniteSet(Holding) /\ IsFiniteSet(Running)
      /\ Cardinality(Launched) \in Nat /\ Cardinality(Holding) \in Nat
      /\ Cardinality(Running) \in Nat /\ Cardinality(Running) <= Cardinality(Holding)
  BY GoroutineSets DEF Counted
<1>4. CASE Quiet
  <2>1. /\ UNCHANGED <<worker, slots, running>> /\ ledger'.requests = ledger.requests
        /\ pc' \in Gating <=> pc \in Gating
        /\ pc' = "launch" <=> pc = "launch"
        /\ Spent'
    BY <1>4, QuietStep
  <2>2. Launched' = Launched /\ Holding' = Holding /\ Running' = Running
    BY <2>1 DEF Launched, Holding, Running
  <2>. QED
    BY <2>1, <2>2 DEF Counted
<1>5. CASE TakeSlot \/ GateRefuse \/ GateAdmit \/ Refuse
  <2>1. worker' = worker /\ running' = running
    BY <1>5 DEF TakeSlot, GateRefuse, GateAdmit, Refuse
  <2>2. Launched' = Launched /\ Holding' = Holding /\ Running' = Running
    BY <2>1 DEF Launched, Holding, Running
  <2>3. CASE TakeSlot
    BY <1>1, <1>2, <1>3, <2>1, <2>2, <2>3 DEF TakeSlot, Counted, Spent, Gating
  <2>4. CASE GateRefuse
    <3>1. /\ ledger'.requests = ledger.requests /\ ledger'.queued = ledger.queued
          /\ ledger'.reads = ledger.reads /\ ledger'.hits = ledger.hits
          /\ ledger'.writes = ledger.writes /\ ledger'.peak = ledger.peak
      BY <1>1, <2>4 DEF GateRefuse, Ledgers
    <3>. QED
      BY <2>1, <2>2, <2>4, <3>1 DEF GateRefuse, Counted, Spent, Gating
  <2>5. CASE GateAdmit
    <3>1. /\ ledger'.requests = ledger.requests + 1 /\ ledger'.queued = ledger.queued
          /\ ledger'.reads = ledger.reads /\ ledger'.hits = ledger.hits
          /\ ledger'.writes = ledger.writes /\ ledger'.peak = ledger.peak
      BY <1>1, <2>5 DEF GateAdmit, Ledgers
    <3>2. ledger.requests < Requests /\ ledger.requests \in Nat /\ slots' = slots
      BY <1>1, <2>5 DEF GateAdmit, Ledgers
    <3>. QED
      BY <1>2, <1>3, <2>1, <2>2, <2>5, <3>1, <3>2 DEF GateAdmit, Counted, Spent, Gating
  <2>6. CASE Refuse
    <3>1. /\ ledger'.requests = ledger.requests /\ ledger'.queued = ledger.queued
          /\ ledger'.reads = ledger.reads /\ ledger'.hits = ledger.hits
          /\ ledger'.writes = ledger.writes /\ ledger'.peak = ledger.peak
      BY <1>1, <2>6 DEF Refuse, SettleIdentity, Ledgers
    <3>2. slots' = slots - 1 /\ pc = "refuse" /\ pc' = "slot"
      BY <2>6 DEF Refuse
    <3>. QED
      BY <1>1, <1>2, <1>3, <2>1, <2>2, <3>1, <3>2 DEF Counted, Spent, Gating
  <2>. QED
    BY <1>5, <2>3, <2>4, <2>5, <2>6
<1>6. CASE Launch
  <2>1. unit \in Keys /\ worker[unit] = "idle"
    BY <1>6, CurrentUnit DEF Launch, Fresh
  <2>2. \A j \in Keys : worker'[j] = IF j = unit THEN "ready" ELSE worker[j]
    BY <1>6 DEF Launch, TypeOK
  <2>3. /\ Launched' = Launched \cup {unit} /\ unit \notin Launched
        /\ Holding' = Holding \cup {unit} /\ unit \notin Holding
        /\ Running' = Running \cup {unit} /\ unit \notin Running
    BY <2>1, <2>2 DEF Launched, Holding, Running
  <2>4. /\ IsFiniteSet(Launched') /\ Cardinality(Launched') = Cardinality(Launched) + 1
        /\ Cardinality(Holding') = Cardinality(Holding) + 1
        /\ Cardinality(Running') = Cardinality(Running) + 1
    <3>1. IsFiniteSet(Launched') /\ Cardinality(Launched') = Cardinality(Launched) + 1
      BY <1>3, <2>3, FS_AddElement
    <3>2. Cardinality(Holding') = Cardinality(Holding) + 1
      BY <1>3, <2>3, FS_AddElement
    <3>3. Cardinality(Running') = Cardinality(Running) + 1
      BY <1>3, <2>3, FS_AddElement
    <3>. QED
      BY <3>1, <3>2, <3>3
  <2>5. /\ pc = "launch" /\ pc' = "slot" /\ slots' = slots /\ running' = running + 1
        /\ ledger' = [ledger EXCEPT !.peak = IF running + 1 > @ THEN running + 1 ELSE @]
    BY <1>6 DEF Launch
  <2>6. running + 1 <= Concurrency
    BY <1>1, <1>2, <1>3, <2>5 DEF Counted, Spent, Gating
  <2>7. /\ ledger'.requests = ledger.requests /\ ledger'.queued = ledger.queued
        /\ ledger'.reads = ledger.reads /\ ledger'.hits = ledger.hits
        /\ ledger'.writes = ledger.writes /\ ledger'.peak \in {ledger.peak, running + 1}
    <3>1. CASE running + 1 > ledger.peak
      BY <1>1, <2>5, <3>1 DEF Ledgers
    <3>2. CASE ~(running + 1 > ledger.peak)
      BY <1>1, <2>5, <3>2 DEF Ledgers
    <3>. QED
      BY <3>1, <3>2
  <2>8. Counted'
    BY <1>1, <1>3, <2>4, <2>5, <2>7 DEF Counted, Gating
  <2>9. Spent'
    BY <2>5, <2>6, <2>7 DEF Spent
  <2>. QED
    BY <2>8, <2>9
<1>7. ASSUME NEW k \in Keys, Goroutine(k) PROVE Counted' /\ Spent'
  <2>1. pc' = pc /\ Launched' = Launched
    BY <1>7, GoroutineFrame, GoroutineCounts
  <2>2. /\ ledger'.requests = ledger.requests /\ ledger'.queued = ledger.queued
        /\ ledger'.reads = ledger.reads /\ ledger'.hits = ledger.hits
        /\ ledger'.peak = ledger.peak
        /\ \/ ledger'.writes = ledger.writes
           \/ ledger'.writes = ledger.writes + 1 /\ ~(ledger.writes >= CacheWrites)
    BY <1>7, GoroutineSpends DEF WritesSpent
  <2>3. /\ slots' = Cardinality(Holding') + (IF pc \in Gating THEN 1 ELSE 0) /\ slots' <= slots
        /\ running' = Cardinality(Running')
    <3>1. /\ k \in Running => Cardinality(Running \ {k}) = Cardinality(Running) - 1
          /\ k \in Holding => Cardinality(Holding \ {k}) = Cardinality(Holding) - 1
      BY <1>3, FS_RemoveElement
    <3>2. CASE UNCHANGED <<Holding, Running, slots, running>>
      BY <1>1, <1>3, <3>2 DEF Counted
    <3>3. CASE /\ Holding' = Holding /\ k \in Running /\ Running' = Running \ {k}
               /\ running' = running - 1 /\ slots' = slots
      BY <1>1, <1>3, <3>1, <3>3 DEF Counted
    <3>4. CASE /\ Running' = Running /\ k \in Holding /\ Holding' = Holding \ {k}
               /\ slots' = slots - 1 /\ running' = running
      BY <1>1, <1>3, <3>1, <3>4 DEF Counted
    <3>. QED
      BY <1>7, <3>2, <3>3, <3>4, GoroutineCounts
  <2>4. ledger.writes \in Nat
    BY <1>1 DEF Ledgers
  <2>5. slots' <= Concurrency /\ ledger'.writes <= CacheWrites
    <3>1. slots' \in Int
      BY <1>1, <1>7, GoroutineCounts
    <3>. QED
      BY <1>1, <1>2, <2>2, <2>3, <2>4, <3>1 DEF Spent
  <2>. QED
    BY <2>1, <2>2, <2>3, <2>5 DEF Counted, Spent
<1>. QED
  BY <1>4, <1>5, <1>6, <1>7 DEF Next, MainStep, Returned, Quiet

\* The counts and the bounds hold of every reachable state.
THEOREM BoundsInvariance == Spec => []BoundsInv
<1>1. Init => BoundsInv
  BY BoundsInit
<1>2. IInv /\ BoundsInv /\ [Next]_vars => BoundsInv'
  BY BoundsStep
<1>. QED
  BY <1>1, <1>2, Invariance, PTL DEF Spec

\* No interleaving of goroutines, cancellation and rate limiting spends more
\* than a bound or runs more than Concurrency units at once.
THEOREM BoundsSafe == Spec => []LedgerWithinBounds
<1>1. IInv /\ BoundsInv => LedgerWithinBounds
  <2>1. ASSUME IInv, Counted, Spent PROVE slots \in 0..Concurrency /\ running \in 0..Concurrency
    <3>1. Cardinality(Holding) \in Nat /\ Cardinality(Running) \in Nat /\ Cardinality(Running) <= Cardinality(Holding)
      BY <2>1, GoroutineSets DEF Counted
    <3>2. Concurrency \in Nat
      BY BoundAssumption
    <3>. QED
      BY <2>1, <3>1, <3>2 DEF Counted, Spent
  <2>. QED
    BY <2>1 DEF BoundsInv, Spent, LedgerWithinBounds
<1>. QED
  BY <1>1, Invariance, BoundsInvariance, PTL

\* identities, aliases and the ledger are touched without mu only while main is
\* the one goroutine alive, and no slot and no unit is left behind then.
THEOREM MainAloneSafe == Spec => []MainAlone
<1>1. IInv /\ BoundsInv => MainAlone
  <2>. SUFFICES ASSUME IInv, Counted, pc \in Alone
                PROVE  slots = 0 /\ running = 0 /\ \A k \in Keys : worker[k] \in {"idle", "done"}
    BY DEF MainAlone, BoundsInv, Alone
  <2>1. AllEnded
    BY DEF IInv, Control
  <2>2. Holding = {} /\ Running = {}
    BY <2>1 DEF AllEnded, Holding, Running
  <2>3. slots = 0 /\ running = 0
    BY <2>2, FS_EmptySet DEF Counted, Alone, Gating
  <2>. QED
    BY <2>1, <2>3 DEF AllEnded
<1>. QED
  BY <1>1, Invariance, BoundsInvariance, PTL

-----------------------------------------------------------------------------
(* The order of dispatch                                                   *)

\* A reason for the gate to refuse.
Stopped == canceled \/ limited \/ ledger.requests >= Requests

\* A unit whose turn passed without a launch was refused, and still would be.
Stopping ==
    /\ pc = "refuse" => Stopped
    /\ \A s \in {1, 2} : \A i \in 1..Len(queue[s]) :
            ~Undispatched(s, i) /\ worker[queue[s][i]] = "idle" => Stopped /\ pc # "launch"

Before(s, i, t, j) == s < t \/ (s = t /\ i < j)

\* No unit was launched before one that precedes it.
Ordered ==
    \A s, t \in {1, 2} : \A i \in 1..Len(queue[s]), j \in 1..Len(queue[t]) :
        Before(s, i, t, j) /\ worker[queue[t][j]] # "idle" => worker[queue[s][i]] # "idle"

OrderInv == Stopping /\ Ordered

\* A reason to refuse never lapses.
LEMMA StoppedStays ==
    ASSUME IInv, BoundsInv, [Next]_vars, Stopped
    PROVE  Stopped'
<1>. USE DEF IInv, BoundsInv
<1>1. ledger.requests \in Nat /\ ledger \in Ledgers /\ Requests \in Nat
  BY BoundAssumption DEF TypeOK, Ledgers
<1>2. ASSUME NEW k \in Keys, Goroutine(k) PROVE Stopped'
  <2>1. canceled' = canceled /\ ledger'.requests = ledger.requests
    BY <1>2, GoroutineFrame, GoroutineSpends
  <2>2. limited => limited'
    <3>1. CASE Settle(k)
      BY <3>1 DEF Settle, SettleIdentity, LimitedFrom
    <3>2. CASE ~Settle(k)
      BY <1>2, <3>2 DEF Goroutine, Send, Receive, NextPage, ReceiveRefs, CheckSave, Save, Leave, Release
    <3>. QED
      BY <3>1, <3>2
  <2>. QED
    BY <2>1, <2>2 DEF Stopped
<1>3. CASE Quiet
  <2>1. ledger'.requests = ledger.requests
    BY <1>3, QuietStep
  <2>2. (canceled => canceled') /\ limited' = limited
    BY <1>3 DEF Quiet, AdmitEvent, DeriveCompare, StartDispatch, StartJoin, Join, MaintainCache,
       Assemble, Cancel, vars
  <2>. QED
    BY <2>1, <2>2 DEF Stopped
<1>4. CASE TakeSlot \/ Launch
  BY <1>1, <1>4 DEF TakeSlot, Launch, Ledgers, Stopped
<1>5. CASE GateRefuse
  BY <1>1, <1>5 DEF GateRefuse, Ledgers, Stopped
<1>6. CASE GateAdmit
  BY <1>1, <1>6 DEF GateAdmit, Ledgers, Stopped
<1>7. CASE Refuse
  BY <1>1, <1>7 DEF Refuse, SettleIdentity, LimitedFrom, Ledgers, Stopped
<1>. QED
  BY <1>2, <1>3, <1>4, <1>5, <1>6, <1>7 DEF Next, MainStep, Returned, Quiet

\* Only Launch starts a unit, and it starts the current one.
LEMMA LaunchStarts ==
    ASSUME IInv, [Next]_vars
    PROVE  \A k \in Keys : IF Launch /\ k = unit THEN worker'[k] # "idle"
                           ELSE worker'[k] = "idle" <=> worker[k] = "idle"
<1>. USE DEF IInv
<1>1. ASSUME NEW k \in Keys, Goroutine(k) PROVE \A j \in Keys : worker'[j] = "idle" <=> worker[j] = "idle"
  <2>1. worker[k] # "idle" /\ worker'[k] # "idle" /\ \A j \in Keys \ {k} : worker'[j] = worker[j]
    BY <1>1, LiveGoroutine, GoroutineEffect
  <2>. QED
    BY <2>1
<1>2. CASE Launch
  BY <1>2 DEF Launch, TypeOK
<1>3. CASE ~Launch /\ ~(\E k \in Keys : Goroutine(k))
  <2>1. worker' = worker
    BY <1>3 DEF Next, MainStep, Returned, AdmitEvent, DeriveCompare, StartDispatch, TakeSlot, GateRefuse,
       GateAdmit, Refuse, StartJoin, Join, MaintainCache, Assemble, Cancel, vars
  <2>. QED
    BY <1>3, <2>1
<1>4. ASSUME NEW k \in Keys, Goroutine(k) PROVE ~Launch
  <2>1. worker[k] # "idle" /\ worker[k] # "done" /\ pc' = pc
    BY <1>4, LiveGoroutine, GoroutineFrame
  <2>. QED
    BY <2>1 DEF Launch
<1>. QED
  BY <1>1, <1>2, <1>3, <1>4

\* Only Refuse and Launch pass a turn, the current one.
LEMMA TurnsKept ==
    ASSUME IInv, [Next]_vars, ~AdmitEvent, ~DeriveCompare,
           NEW s \in {1, 2}, NEW i \in 1..Len(queue[s]), Undispatched(s, i)
    PROVE  Undispatched(s, i)' \/ ((Refuse \/ Launch) /\ s = stage /\ i = cursor)
<1>. USE DEF IInv
<1>0. i \in Nat /\ i > 0 /\ cursor \in Nat
  BY DEF TypeOK
<1>1. ASSUME NEW k \in Keys, Goroutine(k) PROVE Undispatched(s, i)'
  BY <1>1, GoroutineFrame DEF Undispatched
<1>2. CASE StartDispatch
  BY <1>0, <1>2 DEF StartDispatch, Undispatched, Dispatching, Control
<1>3. CASE TakeSlot \/ GateRefuse \/ GateAdmit
  BY <1>3 DEF TakeSlot, GateRefuse, GateAdmit, Undispatched, Dispatching
<1>4. CASE Refuse \/ Launch
  BY <1>0, <1>4 DEF Refuse, Launch, Undispatched, Dispatching
<1>5. CASE StartJoin
  BY <1>0, <1>5 DEF StartJoin, Undispatched, Dispatching, TypeOK
<1>6. CASE Join \/ MaintainCache \/ Assemble
  BY <1>6 DEF Join, MaintainCache, Assemble, Undispatched, Dispatching, Control
<1>7. CASE Cancel \/ UNCHANGED vars
  BY <1>7 DEF Cancel, vars, main, Undispatched
<1>. QED
  BY <1>1, <1>2, <1>3, <1>4, <1>5, <1>6, <1>7 DEF Next, MainStep, Returned

\* While the events are admitted every queued unit waits for its turn, idle.
LEMMA AdmitIdle ==
    ASSUME IInv, AdmitEvent
    PROVE  /\ \A s \in {1, 2}, i \in Nat : Undispatched(s, i)'
           /\ \A s \in {1, 2} : \A i \in 1..Len(queue'[s]) : worker'[queue'[s][i]] = "idle"
<1>. USE DEF IInv
<1>. DEFINE k == events[cursor].key
<1>1. pc = "admit" /\ pc' = "admit" /\ worker' = worker
  BY DEF AdmitEvent
<1>2. \A s \in {1, 2} : \A i \in 1..Len(queue[s]) : worker[queue[s][i]] = "idle"
  BY <1>1 DEF Untouched, WaitingFresh, Undispatched, Fresh
<1>3. \/ queue' = queue
      \/ k \in Keys \ seen /\ Appended(k, 1)
  BY AdmitEventEffect DEF Passing, Admission, Settled
<1>4. k \in Keys \ seen => worker[k] = "idle"
  BY DEF Untouched, UnseenFresh, Fresh
<1>. HIDE DEF k
<1>5. ASSUME NEW s \in {1, 2}, NEW i \in 1..Len(queue'[s]) PROVE worker[queue'[s][i]] = "idle"
  <2>1. CASE queue' = queue
    BY <1>2, <1>5, <2>1
  <2>2. CASE k \in Keys \ seen /\ Appended(k, 1)
    BY <1>2, <1>4, <1>5, <2>2, AppendItems
  <2>. QED
    BY <1>3, <2>1, <2>2
<1>. QED
  BY <1>1, <1>5 DEF Undispatched

\* Deriving a compare keeps the queued units in place and may add one, idle and
\* last in stage 2.
LEMMA DeriveIdle ==
    ASSUME IInv, DeriveCompare
    PROVE  /\ pc' = "derive" /\ stage' = 1 /\ worker' = worker
           /\ \A s \in {1, 2} : \A i \in 1..Len(queue'[s]) :
                \/ i \in 1..Len(queue[s]) /\ queue'[s][i] = queue[s][i]
                \/ s = 2 /\ i = Len(queue[2]) + 1 /\ worker'[queue'[s][i]] = "idle"
<1>. USE DEF IInv
<1>. DEFINE k == derived[queue[1][cursor]]
<1>1. pc' = "derive" /\ stage' = 1 /\ worker' = worker
  BY DEF DeriveCompare, Control
<1>2. \/ queue' = queue
      \/ k \in Keys \ seen /\ Appended(k, 2)
  BY DeriveEffect DEF Passing, Admission, Settled
<1>3. k \in Keys \ seen => worker[k] = "idle"
  BY DEF Untouched, UnseenFresh, Fresh
<1>. HIDE DEF k
<1>4. ASSUME NEW s \in {1, 2}, NEW i \in 1..Len(queue'[s])
      PROVE  \/ i \in 1..Len(queue[s]) /\ queue'[s][i] = queue[s][i]
             \/ s = 2 /\ i = Len(queue[2]) + 1 /\ worker[queue'[s][i]] = "idle"
  <2>1. CASE queue' = queue
    BY <1>4, <2>1
  <2>2. CASE k \in Keys \ seen /\ Appended(k, 2)
    <3>1. \/ i \in 1..Len(queue[s]) /\ queue'[s][i] = queue[s][i]
          \/ s = 2 /\ i = Len(queue[2]) + 1 /\ queue'[s][i] = k
      BY <1>4, <2>2, AppendItems
    <3>. QED
      BY <1>3, <2>2, <3>1
  <2>. QED
    BY <1>2, <2>1, <2>2
<1>. QED
  BY <1>1, <1>4

\* Every step keeps the refusals standing.
LEMMA StoppingStep == IInv /\ BoundsInv /\ Stopping /\ [Next]_vars => Stopping'
<1>. SUFFICES ASSUME IInv, BoundsInv, Stopping, [Next]_vars PROVE Stopping'
  OBVIOUS
<1>1. Stopped => Stopped'
  BY StoppedStays
<1>2. CASE AdmitEvent
  <2>1. pc' = "admit"
    BY <1>2 DEF AdmitEvent
  <2>2. \A s \in {1, 2} : \A i \in 1..Len(queue'[s]) : i \in Nat
    BY TypeStep DEF TypeOK
  <2>. QED
    BY <1>2, <2>1, <2>2, AdmitIdle DEF Stopping
<1>3. CASE DeriveCompare
  <2>1. \A s \in {1, 2} : \A i \in Nat : Undispatched(s, i)' <=> Undispatched(s, i)
    BY <1>3, DeriveIdle DEF DeriveCompare, Undispatched, Dispatching, IInv, Control
  <2>2. pc = "derive" /\ pc' = "derive" /\ worker' = worker /\ stage = 1
    BY <1>3 DEF DeriveCompare, IInv, Control
  <2>3. ASSUME NEW s \in {1, 2}, NEW i \in 1..Len(queue'[s]), ~Undispatched(s, i)',
               worker'[queue'[s][i]] = "idle"
        PROVE  Stopped' /\ pc' # "launch"
    <3>1. s = 1 /\ i \in Nat
      BY <2>2, <2>3, <1>3, DeriveIdle DEF Undispatched
    <3>2. i \in 1..Len(queue[s]) /\ queue'[s][i] = queue[s][i]
      BY <1>3, <2>3, <3>1, DeriveIdle
    <3>3. ~Undispatched(s, i) /\ worker[queue[s][i]] = "idle"
      BY <2>1, <2>2, <2>3, <3>1, <3>2
    <3>. QED
      BY <1>1, <2>2, <3>2, <3>3 DEF Stopping
  <2>. QED
    BY <2>2, <2>3 DEF Stopping
<1>4. CASE ~AdmitEvent /\ ~DeriveCompare
  <2>1. queue' = queue
    BY <1>4, QueueFrame DEF IInv
  <2>2. pc' = "refuse" => Stopped'
    <3>1. CASE GateRefuse
      BY <1>1, <3>1 DEF GateRefuse, Stopped
    <3>2. CASE ~GateRefuse /\ pc' = "refuse"
      <4>1. ASSUME NEW k \in Keys, Goroutine(k) PROVE pc = "refuse"
        BY <3>2, <4>1, GoroutineFrame
      <4>2. pc = "refuse"
        BY <1>4, <3>2, <4>1 DEF Next, MainStep, Returned, StartDispatch, TakeSlot, GateAdmit, Refuse, Launch,
           StartJoin, Join, MaintainCache, Assemble, Cancel, vars, main
      <4>. QED
        BY <1>1, <4>2 DEF Stopping
    <3>. QED
      BY <3>1, <3>2
  <2>3. pc' = "launch" => ~Stopped \/ pc = "launch"
    <3>1. ASSUME NEW k \in Keys, Goroutine(k) PROVE pc' = pc
      BY <3>1, GoroutineFrame
    <3>2. GateAdmit => ~Stopped
      <4>1. ledger.requests \in Nat /\ Requests \in Nat
        BY BoundAssumption DEF IInv, TypeOK, Ledgers
      <4>. QED
        BY <4>1 DEF GateAdmit, Stopped
    <3>. QED
      BY <1>4, <3>1, <3>2 DEF Next, MainStep, Returned, StartDispatch, TakeSlot, GateRefuse, Refuse, Launch,
         StartJoin, Join, MaintainCache, Assemble, Cancel, vars, main
  <2>4. ASSUME NEW s \in {1, 2}, NEW i \in 1..Len(queue[s]), ~Undispatched(s, i)',
               worker'[queue[s][i]] = "idle"
        PROVE  Stopped' /\ pc' # "launch"
    <3>1. queue[s][i] \in Keys
      BY DEF IInv, TypeOK
    <3>2. worker[queue[s][i]] = "idle" /\ ~(Launch /\ queue[s][i] = unit)
      BY <2>4, <3>1, LaunchStarts
    <3>3. CASE ~Undispatched(s, i)
      BY <1>1, <2>3, <3>2, <3>3 DEF Stopping
    <3>4. CASE Undispatched(s, i)
      <4>1. (Refuse \/ Launch) /\ s = stage /\ i = cursor
        BY <1>4, <2>4, <3>4, TurnsKept
      <4>2. Refuse
        BY <3>2, <4>1 DEF unit
      <4>. QED
        BY <1>1, <4>2 DEF Refuse, Stopping
    <3>. QED
      BY <3>3, <3>4
  <2>. QED
    BY <2>1, <2>2, <2>4 DEF Stopping
<1>. QED
  BY <1>2, <1>3, <1>4

\* Every step keeps the order.
LEMMA OrderedStep == IInv /\ BoundsInv /\ OrderInv /\ [Next]_vars => Ordered'
<1>. SUFFICES ASSUME IInv, Stopping, Ordered, [Next]_vars PROVE Ordered'
  BY DEF OrderInv
<1>1. CASE AdmitEvent
  BY <1>1, AdmitIdle DEF Ordered
<1>2. CASE DeriveCompare
  <2>. SUFFICES ASSUME NEW s \in {1, 2}, NEW t \in {1, 2},
                       NEW i \in 1..Len(queue'[s]), NEW j \in 1..Len(queue'[t]),
                       Before(s, i, t, j), worker'[queue'[t][j]] # "idle"
                PROVE  worker'[queue'[s][i]] # "idle"
    BY DEF Ordered, Before
  <2>1. j \in 1..Len(queue[t]) /\ queue'[t][j] = queue[t][j]
    BY <1>2, DeriveIdle
  <2>2. i \in 1..Len(queue[s]) /\ queue'[s][i] = queue[s][i]
    <3>1. Len(queue[2]) \in Nat /\ i \in Nat /\ j \in Nat
      BY <2>1, TypeStep DEF IInv, TypeOK
    <3>. QED
      BY <1>2, <2>1, <3>1, DeriveIdle DEF Before
  <2>. QED
    BY <1>2, <2>1, <2>2, DeriveIdle DEF Ordered
<1>3. CASE ~AdmitEvent /\ ~DeriveCompare
  <2>. SUFFICES ASSUME NEW s \in {1, 2}, NEW t \in {1, 2},
                       NEW i \in 1..Len(queue[s]), NEW j \in 1..Len(queue[t]),
                       Before(s, i, t, j), worker'[queue[t][j]] # "idle"
                PROVE  worker'[queue[s][i]] # "idle"
    <3>1. queue' = queue
      BY <1>3, QueueFrame DEF IInv
    <3>. QED
      BY <3>1 DEF Ordered, Before
  <2>1. queue[s][i] \in Keys /\ queue[t][j] \in Keys /\ i \in Nat /\ j \in Nat
    BY DEF IInv, TypeOK
  <2>2. worker[queue[s][i]] # "idle" => worker'[queue[s][i]] # "idle"
    BY <2>1, LaunchStarts
  <2>3. CASE worker[queue[t][j]] # "idle"
    BY <2>2, <2>3 DEF Ordered
  <2>4. CASE worker[queue[t][j]] = "idle"
    <3>1. Launch /\ queue[t][j] = unit
      BY <2>1, <2>4, LaunchStarts
    <3>2. pc = "launch" /\ t = stage /\ j = cursor /\ stage \in {1, 2}
      BY <3>1, CurrentUnit DEF Launch, IInv
    <3>3. ~Undispatched(s, i)
      BY <2>1, <3>2 DEF Undispatched, Before
    <3>. QED
      BY <2>2, <3>2, <3>3 DEF Stopping
  <2>. QED
    BY <2>3, <2>4
<1>. QED
  BY <1>1, <1>2, <1>3

\* The order of dispatch holds of every reachable state.
THEOREM OrderInvariance == Spec => []OrderInv
<1>1. Init => OrderInv
  BY DEF Init, OrderInv, Stopping, Ordered
<1>2. IInv /\ BoundsInv /\ OrderInv /\ [Next]_vars => OrderInv'
  BY StoppingStep, OrderedStep DEF OrderInv
<1>. QED
  BY <1>1, <1>2, Invariance, BoundsInvariance, PTL DEF Spec

\* Where the items of a concatenation come from.
LEMMA ConcatItems ==
    ASSUME NEW S, NEW u \in Seq(S), NEW v \in Seq(S), NEW i \in DOMAIN (u \o v)
    PROVE  /\ i \in 1..(Len(u) + Len(v))
           /\ (u \o v)[i] = IF i <= Len(u) THEN u[i] ELSE v[i - Len(u)]
           /\ (u \o v)[i] \in S
<1>1. u \o v \in Seq(S) /\ Len(u \o v) = Len(u) + Len(v)
  OBVIOUS
<1>2. DOMAIN (u \o v) = 1..(Len(u) + Len(v))
  BY <1>1
<1>. QED
  BY <1>1, <1>2

\* Membership of a set closed under precedence, in each of two sequences and
\* from the second to the first, is closed in their concatenation.
LEMMA ConcatPrefix ==
    ASSUME NEW S, NEW u \in Seq(S), NEW v \in Seq(S), NEW W,
           \A i, j \in 1..Len(u) : i < j /\ u[j] \in W => u[i] \in W,
           \A i, j \in 1..Len(v) : i < j /\ v[j] \in W => v[i] \in W,
           \A i \in 1..Len(u), j \in 1..Len(v) : v[j] \in W => u[i] \in W
    PROVE  \A i, j \in DOMAIN (u \o v) : i < j /\ (u \o v)[j] \in W => (u \o v)[i] \in W
<1>. SUFFICES ASSUME NEW i \in DOMAIN (u \o v), NEW j \in DOMAIN (u \o v),
                     i < j, (u \o v)[j] \in W
              PROVE  (u \o v)[i] \in W
  OBVIOUS
<1>1. Len(u) \in Nat /\ Len(v) \in Nat
  OBVIOUS
<1>2. i \in 1..(Len(u) + Len(v)) /\ j \in 1..(Len(u) + Len(v))
  BY ConcatItems
<1>3. /\ (u \o v)[i] = IF i <= Len(u) THEN u[i] ELSE v[i - Len(u)]
      /\ (u \o v)[j] = IF j <= Len(u) THEN u[j] ELSE v[j - Len(u)]
  BY ConcatItems
<1>4. CASE j <= Len(u)
  <2>1. i \in 1..Len(u) /\ j \in 1..Len(u) /\ i <= Len(u)
    BY <1>1, <1>2, <1>4
  <2>. QED
    BY <1>3, <1>4, <2>1
<1>5. CASE ~(j <= Len(u)) /\ i <= Len(u)
  <2>1. i \in 1..Len(u) /\ j - Len(u) \in 1..Len(v)
    BY <1>1, <1>2, <1>5
  <2>. QED
    BY <1>3, <1>5, <2>1
<1>6. CASE ~(i <= Len(u))
  <2>1. /\ ~(j <= Len(u)) /\ i - Len(u) < j - Len(u)
        /\ i - Len(u) \in 1..Len(v) /\ j - Len(u) \in 1..Len(v)
    BY <1>1, <1>2, <1>6
  <2>. QED
    BY <1>3, <1>6, <2>1
<1>. QED
  BY <1>4, <1>5, <1>6

\* The units that ran are a prefix of the admission order over both stages:
\* once the gate refuses, for whichever reason, no later unit overtakes.
THEOREM PrefixSafe == Spec => []DispatchIsPrefix
<1>1. IInv /\ OrderInv => DispatchIsPrefix
  <2>. SUFFICES ASSUME IInv, Ordered PROVE DispatchIsPrefix
    BY DEF OrderInv
  <2>1. queue[1] \in Seq(Keys) /\ queue[2] \in Seq(Keys)
    BY DEF IInv, TypeOK
  <2>2. \A s \in {1, 2} : \A i \in 1..Len(queue[s]) :
            queue[s][i] \in Keys /\ (queue[s][i] \in Launched <=> worker[queue[s][i]] # "idle")
    BY <2>1 DEF Launched
  <2>3. /\ \A i, j \in 1..Len(queue[1]) : i < j /\ queue[1][j] \in Launched => queue[1][i] \in Launched
        /\ \A i, j \in 1..Len(queue[2]) : i < j /\ queue[2][j] \in Launched => queue[2][i] \in Launched
        /\ \A i \in 1..Len(queue[1]), j \in 1..Len(queue[2]) :
                queue[2][j] \in Launched => queue[1][i] \in Launched
    BY <2>2 DEF Ordered, Before
  <2>4. \A i, j \in DOMAIN (queue[1] \o queue[2]) :
            i < j /\ (queue[1] \o queue[2])[j] \in Launched => (queue[1] \o queue[2])[i] \in Launched
    BY <2>1, <2>3, ConcatPrefix
  <2>5. \A i \in DOMAIN (queue[1] \o queue[2]) : (queue[1] \o queue[2])[i] \in Keys
    BY <2>1, ConcatItems
  <2>. QED
    BY <2>4, <2>5 DEF DispatchIsPrefix, Launched
<1>. QED
  BY <1>1, Invariance, OrderInvariance, PTL

-----------------------------------------------------------------------------
(***************************************************************************)
(* What the answers of a refresh say, for every set of work keys, every    *)
(* input and every value of the bounds: an identity is settled once, the   *)
(* rate limit is shared, each unknown outcome is accounted for, and the    *)
(* coordination implements EvidenceSettlement.                             *)
(*                                                                         *)
(* The ledger's retry instant is the latest of the replies settled so far  *)
(* (Retried), every settled identity is backed by the bound, the flag or   *)
(* the reply that settled it (Accounted), every identity is reachable from *)
(* the event it was asked for (Sourced), and save only ever stores what    *)
(* its goroutine settled (Saved).                                          *)
(***************************************************************************)

\* The goroutine has no reply of the adapter yet.
Unanswered == {"idle", "ready", "waiting"}

ReplyKinds == {"complete", "failed", "limited", "canceled"}
WellFormed(o) == o.kind \in ReplyKinds /\ (o.kind = "limited" <=> o.retryAt > 0)
Replied == \A k \in Keys : WellFormed(reply[k])

Retried ==
    /\ \A k \in Keys : worker[k] # "settling" => reply[k].retryAt <= ledger.retryAt
    /\ ledger.retryAt > 0 =>
            \E k \in Keys : worker[k] \notin Unanswered /\ reply[k].retryAt = ledger.retryAt
    /\ limited => ledger.retryAt > 0
    /\ pc = "refuse" => refused.retryAt <= ledger.retryAt

\* What the ledger and the flags must say of an identity settled at o.
Backed(o) ==
    /\ o.kind = "noBudget" => ledger.requests >= Requests
    /\ o.kind = "queueFull" => ledger.queued >= QueuedUnits
    /\ o.kind = "limited" => limited
    /\ o.kind = "canceled" => ledger.canceled
Accounted ==
    /\ \A k \in Keys : identities[k] # Missing => Backed(identities[k])
    /\ pc = "refuse" => Backed(refused)
    /\ ledger.canceled => \/ \E k \in Keys : identities[k].kind = "canceled"
                          \/ pc = "refuse" /\ refused.kind = "canceled"

\* Event i asks for identity k, by its own key or through its pull request.
Asks(i, k) == events[i].key = k \/ (events[i].key \in Pulls /\ aliases[events[i].key] = k)
Sourced ==
    /\ \A i \in 1..Len(queue[1]) : \E n \in 1..Len(events) : events[n].key = queue[1][i]
    /\ \A k \in seen : \E n \in 1..Len(events) : Asks(n, k)

Saved ==
    \A k \in Keys : worker[k] \in {"saving", "writing"} =>
        /\ identities[k] = reply[k] /\ reply[k] # Missing
        /\ worker[k] = "writing" => IsComplete(reply[k])

OInv == Replied /\ Retried /\ Accounted /\ Sourced /\ Saved
-----------------------------------------------------------------------------
(* Settling                                                                *)

\* The four ways an identity is settled: by the cache, by a full queue, by the
\* gate's refusal and by its goroutine.
Source(k, o) ==
    \/ k \in stored /\ o.kind = "complete" /\ UNCHANGED worker
    \/ o.kind = "queueFull" /\ ledger.queued >= QueuedUnits /\ UNCHANGED worker
    \/ Refuse /\ k = unit /\ o = refused
    \/ Settle(k) /\ o = reply[k]
SettledBy(k, o) ==
    /\ identities[k] = Missing /\ o # Missing /\ o \in Outcomes
    /\ k \in Pulls => derived[k] = NoKey
    /\ identities' = [identities EXCEPT ![k] = o]
    /\ Source(k, o)

\* An admission settles the unit from the cache or as not admitted, or queues it.
LEMMA AdmitSource ==
    ASSUME TypeOK, NEW k \in Keys, NEW s \in {1, 2}, Admit(k, s), worker' = worker
    PROVE  \/ identities' = identities
           \/ \E o \in Outcomes : /\ o # Missing /\ Source(k, o)
                                  /\ identities' = [identities EXCEPT ![k] = o]
<1>. PICK r \in LookupResults(k) : Admit(k, s)!(r)
  BY DEF Admit
<1>1. CASE r = "hit"
  <2>. DEFINE o == Complete(k, UnitProvenance(k, s))
  <2>1. o \in Outcomes
    BY OutcomeTypes DEF UnitProvenance, EventProvenance, Provenances
  <2>2. o # Missing /\ o.kind = "complete"
    BY KeyAssumption DEF Complete, Missing
  <2>3. k \in stored
    BY <1>1 DEF LookupResults
  <2>4. identities' = [identities EXCEPT ![k] = o]
    BY <1>1
  <2>. HIDE DEF o
  <2>. QED
    BY <2>1, <2>2, <2>3, <2>4 DEF Source
<1>2. CASE r # "hit" /\ ledger.queued >= QueuedUnits
  <2>. DEFINE o == Unknown("queueFull")
  <2>1. o \in Outcomes /\ o.kind = "queueFull"
    BY OutcomeTypes DEF Kinds, Unknown, Missing
  <2>2. ledger.queued \in Nat /\ QueuedUnits \in Nat
    BY BoundAssumption DEF TypeOK, Ledgers
  <2>3. identities' = [identities EXCEPT ![k] = o]
    BY <1>2, <2>2
  <2>4. o # Missing
    BY <2>1 DEF Missing
  <2>. HIDE DEF o
  <2>. QED
    BY <1>2, <2>1, <2>3, <2>4 DEF Source
<1>3. CASE r # "hit" /\ ~(ledger.queued >= QueuedUnits)
  BY <1>3
<1>. QED
  BY <1>1, <1>2, <1>3

\* Every step settles one open identity, in one of the four ways, or none.
LEMMA SettlingStep ==
    ASSUME IInv, [Next]_vars
    PROVE  identities' = identities \/ \E k \in Keys : \E o \in Outcomes : SettledBy(k, o)
<1>. USE DEF IInv
<1>0. \A k \in Keys : worker[k] \in {"idle", "settling"} /\ k \in Pulls => derived[k] = NoKey
  BY DEF Untouched, PullsDerived
<1>1. ASSUME NEW k \in Keys \ seen, NEW s \in {1, 2}, Admit(k, s), worker' = worker
      PROVE  identities' = identities \/ \E o \in Outcomes : SettledBy(k, o)
  <2>1. identities[k] = Missing /\ worker[k] = "idle"
    BY DEF Untouched, UnseenFresh, Fresh
  <2>. QED
    BY <1>0, <1>1, <2>1, AdmitSource DEF SettledBy
<1>2. CASE AdmitEvent
  <2>. DEFINE k == events[cursor].key
  <2>1. k # NoKey => k \in Keys
    BY <1>2, AdmitEventEffect DEF Event, TypeOK
  <2>2. \/ identities' = identities
        \/ k \in Keys \ seen /\ Admit(k, 1)
    BY <1>2, <2>1 DEF AdmitEvent, Unseen
  <2>3. worker' = worker
    BY <1>2 DEF AdmitEvent
  <2>. HIDE DEF k
  <2>. QED
    BY <1>1, <2>2, <2>3
<1>3. CASE DeriveCompare
  <2>. DEFINE k == derived[queue[1][cursor]]
  <2>1. queue[1][cursor] \in Pulls /\ k # NoKey => k \in Keys
    BY DEF TypeOK, Keys, Persistable
  <2>2. \/ identities' = identities
        \/ k \in Keys \ seen /\ Admit(k, 2)
    BY <1>3, <2>1 DEF DeriveCompare, Unseen
  <2>3. worker' = worker
    BY <1>3 DEF DeriveCompare
  <2>. HIDE DEF k
  <2>. QED
    BY <1>1, <2>2, <2>3
<1>4. CASE Refuse
  <2>1. unit \in Keys /\ identities[unit] = Missing /\ worker[unit] = "idle"
    BY <1>4, CurrentUnit DEF Refuse, Fresh
  <2>2. refused \in Outcomes /\ refused # Missing
    <3>1. ~IsComplete(refused)
      BY <1>4 DEF Refuse, Proven
    <3>. QED
      BY <3>1 DEF TypeOK, IsComplete, Missing
  <2>3. identities' = [identities EXCEPT ![unit] = refused]
    BY <1>4 DEF Refuse, SettleIdentity
  <2>4. SettledBy(unit, refused)
    BY <1>0, <1>4, <2>1, <2>2, <2>3 DEF SettledBy, Source
  <2>. QED
    BY <2>1, <2>2, <2>4
<1>5. ASSUME NEW k \in Keys, Settle(k) PROVE SettledBy(k, reply[k]) /\ reply[k] \in Outcomes
  <2>1. worker[k] = "settling" /\ identities' = [identities EXCEPT ![k] = reply[k]]
    BY <1>5 DEF Settle, SettleIdentity
  <2>2. identities[k] = Missing /\ reply[k] # Missing /\ reply[k] \in Outcomes
    BY <2>1 DEF Untouched, AskedOpen, Asking, Proven, TypeOK
  <2>. QED
    BY <1>0, <1>5, <2>1, <2>2 DEF SettledBy, Source
<1>6. CASE ~AdmitEvent /\ ~DeriveCompare /\ ~Refuse /\ ~(\E k \in Keys : Settle(k))
  <2>1. ASSUME NEW k \in Keys, Goroutine(k) PROVE identities' = identities
    BY <1>6, <2>1 DEF Goroutine, Send, Receive, NextPage, ReceiveRefs, CheckSave, Save, Leave, Release, work
  <2>2. CASE StartDispatch \/ TakeSlot \/ GateRefuse \/ GateAdmit \/ Launch
    BY <2>2 DEF StartDispatch, TakeSlot, GateRefuse, GateAdmit, Launch, work
  <2>3. CASE StartJoin \/ Join \/ MaintainCache \/ Assemble \/ Cancel \/ UNCHANGED vars
    BY <2>3 DEF StartJoin, Join, MaintainCache, Assemble, Cancel, vars, work
  <2>. QED
    BY <1>6, <2>1, <2>2, <2>3 DEF Next, MainStep, Returned
<1>. QED
  BY <1>2, <1>3, <1>4, <1>5, <1>6

\* An identity is settled once: no late reply, refusal or lookup overwrites what
\* an earlier one decided, although three places of the code write identities.
THEOREM SettledOnce == Spec => [][\A k \in Keys : identities[k] # Missing => identities'[k] = identities[k]]_vars
<1>1. IInv /\ [Next]_vars => [\A k \in Keys : identities[k] # Missing => identities'[k] = identities[k]]_vars
  <2>. SUFFICES ASSUME IInv, [Next]_vars, NEW k \in Keys, identities[k] # Missing
                PROVE  identities'[k] = identities[k]
    OBVIOUS
  <2>1. ASSUME NEW j \in Keys, NEW o \in Outcomes, SettledBy(j, o) PROVE identities'[k] = identities[k]
    BY <2>1 DEF SettledBy, IInv, TypeOK
  <2>. QED
    BY <2>1, SettlingStep
<1>. QED
  BY <1>1, Invariance, PTL DEF Spec

-----------------------------------------------------------------------------
(* Replies and reports                                                     *)

\* Whatever the adapter answers is well formed.
LEMMA RepliesWellFormed == \A k \in Keys : \A o \in Replies(k) : WellFormed(o)
<1>. SUFFICES ASSUME NEW k \in Keys, NEW o \in Replies(k) PROVE WellFormed(o)
  OBVIOUS
<1>1. \/ o = Unknown("failed") \/ o \in {RateLimited(t) : t \in RetryTimes}
      \/ o = Unknown("canceled") \/ o = Complete(k, UnitProvenance(k, stage))
  BY DEF Replies
<1>2. CASE o \in {RateLimited(t) : t \in RetryTimes}
  <2>1. PICK t \in RetryTimes : o = RateLimited(t)
    BY <1>2, Zenon
  <2>2. t > 0
    BY RetryAssumption
  <2>. QED
    BY <2>1, <2>2 DEF RateLimited, Unknown, Missing, WellFormed, ReplyKinds
<1>3. CASE o = Unknown("failed") \/ o = Unknown("canceled")
  BY <1>3 DEF Unknown, Missing, WellFormed, ReplyKinds
<1>4. CASE o = Complete(k, UnitProvenance(k, stage))
  BY <1>4 DEF Complete, Missing, WellFormed, ReplyKinds
<1>. QED
  BY <1>1, <1>2, <1>3, <1>4

\* A goroutine's reply is written once, before it settles; what it replied is
\* settled before the goroutine goes on.
LEMMA ReplyOnce ==
    ASSUME IInv, [Next]_vars, NEW j \in Keys
    PROVE  /\ worker[j] \notin Unanswered => worker'[j] \notin Unanswered /\ reply'[j] = reply[j]
           /\ \/ reply'[j] = reply[j]
              \/ worker'[j] = "settling" /\ WellFormed(reply'[j])
           /\ worker[j] = "settling" /\ worker'[j] # "settling" => Settle(j)
<1>. USE DEF IInv
<1>1. ASSUME NEW k \in Keys, Goroutine(k), k # j PROVE worker'[j] = worker[j] /\ reply'[j] = reply[j]
  BY <1>1, GoroutineEffect
<1>2. CASE Goroutine(j)
  <2>1. CASE Send(j)
    <3>1. WellFormed(Unknown("canceled"))
      BY DEF Unknown, Missing, WellFormed, ReplyKinds
    <3>. QED
      BY <2>1, <3>1 DEF Send, TypeOK, Unanswered
  <2>2. CASE Receive(j)
    BY <2>2, RepliesWellFormed DEF Receive, TypeOK, Unanswered
  <2>3. CASE NextPage(j) \/ ReceiveRefs(j) \/ CheckSave(j) \/ Leave(j) \/ Release(j)
    BY <2>3 DEF NextPage, ReceiveRefs, CheckSave, Leave, Release, TypeOK, Unanswered
  <2>4. CASE Settle(j)
    BY <2>4 DEF Settle, TypeOK, Unanswered
  <2>5. CASE Save(j)
    BY <2>5 DEF Save, TypeOK, Unanswered
  <2>. QED
    BY <1>2, <2>1, <2>2, <2>3, <2>4, <2>5 DEF Goroutine
<1>3. CASE Launch
  <2>1. worker[unit] = "idle" /\ reply' = reply /\ worker' = [worker EXCEPT ![unit] = "ready"]
    BY <1>3, CurrentUnit DEF Launch, Fresh
  <2>2. worker'[j] = IF j = unit THEN "ready" ELSE worker[j]
    BY <2>1 DEF TypeOK
  <2>. QED
    BY <2>1, <2>2 DEF Unanswered
<1>4. CASE ~Launch /\ ~(\E k \in Keys : Goroutine(k))
  <2>1. worker' = worker /\ reply' = reply
    BY <1>4 DEF Next, MainStep, Returned, AdmitEvent, DeriveCompare, StartDispatch, TakeSlot, GateRefuse,
       GateAdmit, Refuse, StartJoin, Join, MaintainCache, Assemble, Cancel, vars
  <2>. QED
    BY <2>1
<1>. QED
  BY <1>1, <1>2, <1>3, <1>4

\* The requests and the queued units a refresh counted are never taken back.
LEMMA SpendingGrows ==
    ASSUME IInv, BoundsInv, [Next]_vars
    PROVE  ledger.requests <= ledger'.requests /\ ledger.queued <= ledger'.queued
<1>. USE DEF IInv, BoundsInv
<1>1. ledger \in Ledgers /\ ledger.requests \in Nat /\ ledger.queued \in Nat
  BY DEF TypeOK, Ledgers
<1>2. ASSUME NEW k \in Keys, Goroutine(k) PROVE ledger'.requests = ledger.requests /\ ledger'.queued = ledger.queued
  BY <1>2, GoroutineSpends
<1>3. CASE AdmitEvent
  <2>1. \/ ledger' = ledger
        \/ events[cursor].key \in Keys /\ Admit(events[cursor].key, 1)
    BY <1>3, AdmitEventEffect DEF AdmitEvent, Event, TypeOK
  <2>. QED
    BY <1>1, <2>1, AdmitSpends
<1>4. CASE DeriveCompare
  <2>. DEFINE k == derived[queue[1][cursor]]
  <2>1. queue[1][cursor] \in Pulls /\ k # NoKey => k \in Keys
    BY DEF TypeOK, Keys, Persistable
  <2>2. \/ ledger' = ledger
        \/ k \in Keys /\ Admit(k, 2)
    BY <1>4, <2>1 DEF DeriveCompare
  <2>. HIDE DEF k
  <2>. QED
    BY <1>1, <2>2, AdmitSpends
<1>5. CASE StartDispatch \/ TakeSlot \/ StartJoin \/ Join \/ Assemble \/ Cancel \/ UNCHANGED vars
  BY <1>1, <1>5 DEF StartDispatch, TakeSlot, StartJoin, Join, Assemble, Cancel, vars
<1>6. CASE GateRefuse
  BY <1>1, <1>6 DEF GateRefuse, Ledgers
<1>7. CASE GateAdmit
  <2>1. ledger'.requests = ledger.requests + 1 /\ ledger'.queued = ledger.queued
    BY <1>1, <1>7 DEF GateAdmit, Ledgers
  <2>. QED
    BY <1>1, <2>1
<1>8. CASE Refuse
  BY <1>1, <1>8 DEF Refuse, SettleIdentity, Ledgers
<1>9. CASE Launch
  <2>1. ledger'.requests = ledger.requests /\ ledger'.queued = ledger.queued
    BY <1>1, <1>9 DEF Launch, Ledgers
  <2>. QED
    BY <1>1, <2>1
<1>10. CASE MaintainCache
  <2>1. ledger'.requests = ledger.requests /\ ledger'.queued = ledger.queued
    BY <1>1, <1>10 DEF MaintainCache, Ledgers
  <2>. QED
    BY <1>1, <2>1
<1>. QED
  BY <1>1, <1>2, <1>3, <1>4, <1>5, <1>6, <1>7, <1>8, <1>9, <1>10 DEF Next, MainStep, Returned

\* Rate limits are reported by settling alone, cancellation by settling and by
\* the gate.
LEMMA ReportsKept ==
    ASSUME IInv, BoundsInv, [Next]_vars, ~Refuse, \A k \in Keys : ~Settle(k)
    PROVE  /\ limited' = limited /\ ledger'.retryAt = ledger.retryAt
           /\ \/ ledger'.canceled = ledger.canceled
              \/ GateRefuse /\ ledger'.canceled
<1>. USE DEF IInv, BoundsInv
<1>1. ledger \in Ledgers
  BY DEF TypeOK
<1>2. ASSUME NEW k \in Keys, Goroutine(k)
      PROVE  limited' = limited /\ ledger'.retryAt = ledger.retryAt /\ ledger'.canceled = ledger.canceled
  <2>1. CASE Save(k)
    <3>1. \/ ledger' = ledger
          \/ ledger' = [ledger EXCEPT !.writes = @ + 1]
          \/ ledger' = [ledger EXCEPT !.degraded = TRUE]
      BY <2>1 DEF Save
    <3>. QED
      BY <1>1, <2>1, <3>1 DEF Save, Ledgers
  <2>2. CASE ~Save(k)
    BY <1>2, <2>2 DEF Goroutine, Send, Receive, NextPage, ReceiveRefs, CheckSave, Leave, Release
  <2>. QED
    BY <2>1, <2>2
<1>3. CASE AdmitEvent
  <2>1. \/ ledger' = ledger
        \/ events[cursor].key \in Keys /\ Admit(events[cursor].key, 1)
    BY <1>3, AdmitEventEffect DEF AdmitEvent, Event, TypeOK
  <2>. QED
    BY <1>3, <2>1, AdmitSpends DEF AdmitEvent
<1>4. CASE DeriveCompare
  <2>. DEFINE k == derived[queue[1][cursor]]
  <2>1. queue[1][cursor] \in Pulls /\ k # NoKey => k \in Keys
    BY DEF TypeOK, Keys, Persistable
  <2>2. \/ ledger' = ledger
        \/ k \in Keys /\ Admit(k, 2)
    BY <1>4, <2>1 DEF DeriveCompare
  <2>. HIDE DEF k
  <2>. QED
    BY <1>4, <2>2, AdmitSpends DEF DeriveCompare
<1>5. CASE StartDispatch \/ TakeSlot \/ StartJoin \/ Join \/ Assemble \/ Cancel \/ UNCHANGED vars
  BY <1>5 DEF StartDispatch, TakeSlot, StartJoin, Join, Assemble, Cancel, vars
<1>6. CASE GateRefuse
  BY <1>1, <1>6 DEF GateRefuse, Ledgers
<1>7. CASE GateAdmit
  BY <1>1, <1>7 DEF GateAdmit, Ledgers
<1>8. CASE Launch
  BY <1>1, <1>8 DEF Launch, Ledgers
<1>9. CASE MaintainCache
  BY <1>1, <1>9 DEF MaintainCache, Ledgers
<1>. QED
  BY <1>2, <1>3, <1>4, <1>5, <1>6, <1>7, <1>8, <1>9 DEF Next, MainStep, Returned

\* Settling and refusing extend the retry floor and report what they settle.
LEMMA SettleReports ==
    ASSUME IInv, NEW k \in Keys, NEW o \in Outcomes, SettleIdentity(k, o)
    PROVE  /\ ledger'.retryAt = IF o.kind = "limited" /\ o.retryAt > ledger.retryAt
                                THEN o.retryAt ELSE ledger.retryAt
           /\ ledger'.canceled = (ledger.canceled \/ o.kind = "canceled")
           /\ limited' = (limited \/ o.kind = "limited")
           /\ ledger'.requests = ledger.requests /\ ledger'.queued = ledger.queued
BY DEF SettleIdentity, RetryFloor, CanceledFrom, LimitedFrom, IInv, TypeOK, Ledgers

\* What is settled stays settled, and the reports it made stand.
LEMMA ReportsStand ==
    ASSUME IInv, BoundsInv, [Next]_vars
    PROVE  /\ \A k \in Keys : identities[k] # Missing => identities'[k] = identities[k]
           /\ limited => limited'
           /\ ledger.canceled => ledger'.canceled
           /\ ledger.requests >= Requests => ledger'.requests >= Requests
           /\ ledger.queued >= QueuedUnits => ledger'.queued >= QueuedUnits
<1>1. \A k \in Keys : identities[k] # Missing => identities'[k] = identities[k]
  <2>. SUFFICES ASSUME NEW k \in Keys, identities[k] # Missing PROVE identities'[k] = identities[k]
    OBVIOUS
  <2>1. ASSUME NEW j \in Keys, NEW o \in Outcomes, SettledBy(j, o) PROVE identities'[k] = identities[k]
    BY <2>1 DEF SettledBy, IInv, TypeOK
  <2>. QED
    BY <2>1, SettlingStep
<1>2. (limited => limited') /\ (ledger.canceled => ledger'.canceled)
  <2>1. CASE Refuse
    <3>1. SettleIdentity(unit, refused) /\ unit \in Keys /\ refused \in Outcomes
      BY <2>1, UnitType DEF Refuse, IInv, TypeOK
    <3>. QED
      BY <3>1, SettleReports
  <2>2. ASSUME NEW k \in Keys, Settle(k) PROVE (limited => limited') /\ (ledger.canceled => ledger'.canceled)
    <3>1. SettleIdentity(k, reply[k]) /\ reply[k] \in Outcomes
      BY <2>2 DEF Settle, IInv, TypeOK
    <3>. QED
      BY <3>1, SettleReports
  <2>3. CASE ~Refuse /\ \A k \in Keys : ~Settle(k)
    BY <2>3, ReportsKept
  <2>. QED
    BY <2>1, <2>2, <2>3
<1>3. ledger.requests <= ledger'.requests /\ ledger.queued <= ledger'.queued
  BY SpendingGrows
<1>4. /\ ledger.requests \in Nat /\ ledger'.requests \in Nat /\ Requests \in Nat
      /\ ledger.queued \in Nat /\ ledger'.queued \in Nat /\ QueuedUnits \in Nat
  BY TypeStep, BoundAssumption DEF IInv, TypeOK, Ledgers
<1>5. /\ ledger.requests >= Requests => ledger'.requests >= Requests
      /\ ledger.queued >= QueuedUnits => ledger'.queued >= QueuedUnits
  BY <1>3, <1>4
<1>. QED
  BY <1>1, <1>2, <1>5

\* The refusal main settles next is the one the gate decided.
LEMMA RefusedKept ==
    ASSUME IInv, [Next]_vars
    PROVE  /\ pc' = "refuse" => GateRefuse \/ (pc = "refuse" /\ refused' = refused)
           /\ pc = "refuse" /\ ~Refuse => pc' = "refuse" /\ refused' = refused
<1>1. ASSUME NEW k \in Keys, Goroutine(k) PROVE pc' = pc /\ refused' = refused
  BY <1>1, GoroutineFrame
<1>2. CASE Refuse \/ GateRefuse
  BY <1>2 DEF Refuse, GateRefuse
<1>3. CASE AdmitEvent \/ DeriveCompare
  BY <1>3 DEF AdmitEvent, DeriveCompare
<1>4. CASE StartDispatch \/ TakeSlot \/ GateAdmit \/ Launch \/ StartJoin \/ Join \/ MaintainCache \/ Assemble
  BY <1>4 DEF StartDispatch, TakeSlot, GateAdmit, Launch, StartJoin, Join, MaintainCache, Assemble
<1>5. CASE Cancel \/ UNCHANGED vars
  BY <1>5 DEF Cancel, vars, main
<1>. QED
  BY <1>1, <1>2, <1>3, <1>4, <1>5 DEF Next, MainStep, Returned

\* Every step keeps the replies well formed.
LEMMA RepliedStep == IInv /\ Replied /\ [Next]_vars => Replied'
BY ReplyOnce DEF Replied

\* Every step keeps the ledger's retry instant the latest of the settled replies.
LEMMA RetriedStep == IInv /\ BoundsInv /\ OInv /\ [Next]_vars => Retried'
<1>. SUFFICES ASSUME IInv, BoundsInv, Replied, Retried, Accounted, [Next]_vars PROVE Retried'
  BY DEF OInv
<1>. USE DEF IInv
<1>0. /\ ledger.retryAt \in Nat /\ refused.retryAt \in Nat
      /\ \A k \in Keys : reply[k].retryAt \in Nat /\ reply[k] \in Outcomes
  <2>1. \A t \in RetryTimes \cup {0} : t \in Nat
    BY RetryAssumption
  <2>2. \A o \in Outcomes : o.retryAt \in RetryTimes \cup {0}
    BY DEF Outcomes
  <2>3. ledger.retryAt \in RetryTimes \cup {0}
    BY DEF TypeOK, Ledgers
  <2>4. refused \in Outcomes /\ \A k \in Keys : reply[k] \in Outcomes
    BY DEF TypeOK
  <2>. QED
    BY <2>1, <2>2, <2>3, <2>4
<1>1. ASSUME NEW k \in Keys, Settle(k) PROVE Retried'
  <2>1. /\ SettleIdentity(k, reply[k]) /\ reply' = reply /\ pc' = pc /\ refused' = refused
        /\ worker[k] = "settling" /\ worker'[k] \in {"saving", "leaving"}
        /\ \A j \in Keys \ {k} : worker'[j] = worker[j]
    BY <1>1 DEF Settle, TypeOK, main
  <2>2. /\ ledger'.retryAt = IF reply[k].kind = "limited" /\ reply[k].retryAt > ledger.retryAt
                             THEN reply[k].retryAt ELSE ledger.retryAt
        /\ limited' = (limited \/ reply[k].kind = "limited")
    BY <1>0, <2>1, SettleReports
  <2>3. ledger.retryAt <= ledger'.retryAt /\ reply[k].retryAt <= ledger'.retryAt
    BY <1>0, <2>2 DEF Replied, WellFormed
  <2>4. ledger'.retryAt \in Nat
    BY <1>0, <2>2
  <2>5. \A j \in Keys : worker'[j] # "settling" => reply[j].retryAt <= ledger'.retryAt
    <3>. SUFFICES ASSUME NEW j \in Keys, worker'[j] # "settling", j # k PROVE reply[j].retryAt <= ledger'.retryAt
      BY <2>3
    <3>1. reply[j].retryAt <= ledger.retryAt
      BY <2>1 DEF Retried
    <3>. QED
      BY <1>0, <2>3, <2>4, <3>1
  <2>6. ledger'.retryAt > 0 =>
            \E j \in Keys : worker'[j] \notin Unanswered /\ reply[j].retryAt = ledger'.retryAt
    <3>1. CASE ledger'.retryAt = reply[k].retryAt
      BY <2>1, <3>1 DEF Unanswered
    <3>2. CASE ledger'.retryAt = ledger.retryAt /\ ledger.retryAt > 0
      <4>1. PICK j \in Keys : worker[j] \notin Unanswered /\ reply[j].retryAt = ledger.retryAt
        BY <3>2 DEF Retried
      <4>2. worker'[j] \notin Unanswered
        BY <2>1, <4>1 DEF Unanswered
      <4>. QED
        BY <3>2, <4>1, <4>2
    <3>. QED
      BY <2>2, <3>1, <3>2
  <2>7. limited' => ledger'.retryAt > 0
    <3>1. CASE limited
      <4>1. ledger.retryAt > 0
        BY <3>1 DEF Retried
      <4>. QED
        BY <1>0, <2>3, <2>4, <4>1
    <3>2. CASE reply[k].kind = "limited"
      <4>1. reply[k].retryAt > 0
        BY <3>2 DEF Replied, WellFormed
      <4>. QED
        BY <1>0, <2>3, <2>4, <4>1
    <3>. QED
      BY <2>2, <3>1, <3>2
  <2>8. pc' = "refuse" => refused'.retryAt <= ledger'.retryAt
    BY <1>0, <2>1, <2>3, <2>4 DEF Retried
  <2>. QED
    BY <2>1, <2>5, <2>6, <2>7, <2>8 DEF Retried
<1>2. CASE \A k \in Keys : ~Settle(k)
  <2>1. ledger'.retryAt = ledger.retryAt /\ limited' = limited
    <3>1. CASE Refuse
      <4>1. SettleIdentity(unit, refused) /\ unit \in Keys /\ refused \in Outcomes /\ pc = "refuse"
        BY <3>1, UnitType DEF Refuse, TypeOK
      <4>2. refused.retryAt <= ledger.retryAt /\ (refused.kind = "limited" => limited) /\ limited \in BOOLEAN
        BY <4>1 DEF Retried, Accounted, Backed, TypeOK
      <4>. QED
        BY <1>0, <4>1, <4>2, SettleReports
    <3>. QED
      BY <1>2, <3>1, ReportsKept
  <2>2. \A j \in Keys : worker'[j] # "settling" => worker[j] # "settling" /\ reply'[j] = reply[j]
    BY <1>2, ReplyOnce
  <2>3. \A j \in Keys : worker'[j] # "settling" => reply'[j].retryAt <= ledger'.retryAt
    BY <2>1, <2>2 DEF Retried
  <2>4. ledger'.retryAt > 0 =>
            \E j \in Keys : worker'[j] \notin Unanswered /\ reply'[j].retryAt = ledger'.retryAt
    BY <2>1, ReplyOnce DEF Retried
  <2>5. pc' = "refuse" => refused'.retryAt <= ledger'.retryAt
    <3>1. CASE GateRefuse
      <4>1. refused'.retryAt \in {0, ledger.retryAt}
        BY <3>1 DEF GateRefuse, RateLimited, Unknown, Missing
      <4>. QED
        BY <1>0, <2>1, <4>1
    <3>2. CASE ~GateRefuse
      BY <2>1, <3>2, RefusedKept DEF Retried
    <3>. QED
      BY <3>1, <3>2
  <2>6. limited' => ledger'.retryAt > 0
    BY <2>1 DEF Retried
  <2>. QED
    BY <2>3, <2>4, <2>5, <2>6 DEF Retried
<1>. QED
  BY <1>1, <1>2

\* The gate's refusal is backed by what the gate looked at.
LEMMA RefusalBacked ==
    ASSUME IInv, BoundsInv, GateRefuse
    PROVE  Backed(refused)' /\ (ledger'.canceled => ledger.canceled \/ refused'.kind = "canceled")
<1>1. ledger \in Ledgers
  BY DEF IInv, TypeOK
<1>2. CASE canceled
  <2>1. refused' = Unknown("canceled") /\ ledger' = [ledger EXCEPT !.canceled = TRUE]
    BY <1>2 DEF GateRefuse
  <2>2. refused'.kind = "canceled" /\ ledger'.canceled
    BY <1>1, <2>1 DEF Unknown, Missing, Ledgers
  <2>. QED
    BY <2>2 DEF Backed
<1>3. CASE ~canceled /\ limited
  <2>1. refused' = RateLimited(ledger.retryAt) /\ ledger' = ledger /\ limited' = limited
    BY <1>3 DEF GateRefuse
  <2>2. refused'.kind = "limited"
    BY <2>1 DEF RateLimited, Unknown, Missing
  <2>. QED
    BY <1>3, <2>1, <2>2 DEF Backed
<1>4. CASE ~canceled /\ ~limited
  <2>1. refused' = Unknown("noBudget") /\ ledger' = ledger /\ ledger.requests >= Requests
    BY <1>4 DEF GateRefuse
  <2>2. refused'.kind = "noBudget"
    BY <2>1 DEF Unknown, Missing
  <2>. QED
    BY <2>1, <2>2 DEF Backed
<1>. QED
  BY <1>2, <1>3, <1>4

\* Every step keeps the settled identities accounted for.
LEMMA AccountedStep == IInv /\ BoundsInv /\ OInv /\ [Next]_vars => Accounted'
<1>. SUFFICES ASSUME IInv, BoundsInv, Replied, Accounted, [Next]_vars PROVE Accounted'
  BY DEF OInv
<1>. DEFINE Shown == \/ \E k \in Keys : identities[k].kind = "canceled"
                     \/ pc = "refuse" /\ refused.kind = "canceled"
<1>0. /\ \A k \in Keys : identities[k] # Missing => identities'[k] = identities[k]
  BY ReportsStand
<1>1. ASSUME NEW o, Backed(o) PROVE Backed(o)'
  BY <1>1, ReportsStand DEF Backed
<1>2. ASSUME NEW k \in Keys, NEW o \in Outcomes, SettledBy(k, o) PROVE Backed(o)'
  <2>1. CASE k \in stored /\ o.kind = "complete"
    BY <2>1 DEF Backed
  <2>2. CASE o.kind = "queueFull" /\ ledger.queued >= QueuedUnits
    <3>1. Backed(o)
      BY <2>2 DEF Backed
    <3>. QED
      BY <1>1, <3>1
  <2>3. CASE Refuse /\ o = refused
    <3>1. Backed(o)
      BY <2>3 DEF Refuse, Accounted
    <3>. QED
      BY <1>1, <3>1
  <2>4. CASE Settle(k) /\ o = reply[k]
    <3>1. SettleIdentity(k, o) /\ WellFormed(o)
      BY <2>4 DEF Settle, Replied
    <3>. QED
      BY <3>1, SettleReports DEF Backed, WellFormed, ReplyKinds
  <2>. QED
    BY <1>2, <2>1, <2>2, <2>3, <2>4 DEF SettledBy, Source
<1>3. \A k \in Keys : identities'[k] # Missing => Backed(identities[k])'
  <2>. SUFFICES ASSUME NEW k \in Keys, identities'[k] # Missing PROVE Backed(identities[k])'
    OBVIOUS
  <2>1. CASE identities[k] # Missing
    <3>. DEFINE o == identities[k]
    <3>1. Backed(o) /\ identities'[k] = identities[k]
      BY <1>0, <2>1 DEF Accounted
    <3>2. /\ o.kind = "noBudget" => ledger'.requests >= Requests
          /\ o.kind = "queueFull" => ledger'.queued >= QueuedUnits
          /\ o.kind = "limited" => limited'
          /\ o.kind = "canceled" => ledger'.canceled
      BY <1>1, <3>1 DEF Backed
    <3>. QED
      BY <3>1, <3>2 DEF Backed
  <2>2. CASE identities[k] = Missing
    <3>1. PICK j \in Keys, o \in Outcomes : SettledBy(j, o)
      BY <2>2, SettlingStep
    <3>2. identities'[k] = IF k = j THEN o ELSE identities[k]
      BY <3>1 DEF SettledBy, IInv, TypeOK
    <3>3. identities'[k] = o
      BY <2>2, <3>2
    <3>4. Backed(o)'
      BY <1>2, <3>1
    <3>. QED
      BY <3>3, <3>4 DEF Backed
  <2>. QED
    BY <2>1, <2>2
<1>4. pc' = "refuse" => Backed(refused)'
  <2>1. CASE GateRefuse
    BY <2>1, RefusalBacked DEF Backed
  <2>2. CASE ~GateRefuse /\ pc' = "refuse"
    <3>1. pc = "refuse" /\ refused' = refused /\ Backed(refused)
      BY <2>2, RefusedKept DEF Accounted
    <3>. QED
      BY <1>1, <3>1 DEF Backed
  <2>. QED
    BY <2>1, <2>2
<1>5. ledger'.canceled => Shown'
  <2>1. ASSUME ledger.canceled PROVE Shown'
    <3>1. CASE \E k \in Keys : identities[k].kind = "canceled"
      <4>1. PICK k \in Keys : identities[k].kind = "canceled"
        BY <3>1
      <4>2. identities[k] # Missing
        BY <4>1 DEF Missing
      <4>. QED
        BY <1>0, <4>1, <4>2
    <3>2. CASE pc = "refuse" /\ refused.kind = "canceled" /\ Refuse
      <4>1. unit \in Keys /\ identities' = [identities EXCEPT ![unit] = refused]
        BY <3>2, UnitType DEF Refuse, SettleIdentity, IInv
      <4>2. identities'[unit] = refused
        BY <4>1 DEF IInv, TypeOK
      <4>. QED
        BY <3>2, <4>1, <4>2
    <3>3. CASE pc = "refuse" /\ refused.kind = "canceled" /\ ~Refuse
      BY <3>3, RefusedKept
    <3>. QED
      BY <2>1, <3>1, <3>2, <3>3 DEF Accounted
  <2>2. CASE GateRefuse
    <3>1. ledger'.canceled => ledger.canceled \/ refused'.kind = "canceled"
      BY <2>2, RefusalBacked
    <3>2. pc' = "refuse"
      BY <2>2 DEF GateRefuse
    <3>. QED
      BY <2>1, <3>1, <3>2
  <2>3. CASE Refuse
    <3>1. unit \in Keys /\ SettleIdentity(unit, refused) /\ refused \in Outcomes
      BY <2>3, UnitType DEF Refuse, IInv, TypeOK
    <3>2. identities'[unit] = refused
      BY <3>1 DEF SettleIdentity, IInv, TypeOK
    <3>3. ledger'.canceled => ledger.canceled \/ refused.kind = "canceled"
      BY <3>1, SettleReports
    <3>. QED
      BY <2>1, <3>1, <3>2, <3>3
  <2>4. ASSUME NEW k \in Keys, Settle(k) PROVE ledger'.canceled => Shown'
    <3>1. SettleIdentity(k, reply[k]) /\ reply[k] \in Outcomes
      BY <2>4 DEF Settle, IInv, TypeOK
    <3>2. identities'[k] = reply[k]
      BY <3>1 DEF SettleIdentity, IInv, TypeOK
    <3>3. ledger'.canceled => ledger.canceled \/ reply[k].kind = "canceled"
      BY <3>1, SettleReports
    <3>. QED
      BY <2>1, <3>2, <3>3
  <2>5. CASE ~GateRefuse /\ ~Refuse /\ \A k \in Keys : ~Settle(k)
    BY <2>1, <2>5, ReportsKept
  <2>. QED
    BY <2>2, <2>3, <2>4, <2>5
<1>. QED
  BY <1>3, <1>4, <1>5 DEF Accounted, Backed

\* Every step keeps each seen key reachable from an event.
LEMMA SourcedStep == IInv /\ Sourced /\ [Next]_vars => Sourced'
<1>. SUFFICES ASSUME IInv, Sourced, [Next]_vars PROVE Sourced'
  OBVIOUS
<1>. USE DEF IInv
<1>1. CASE AdmitEvent
  <2>. DEFINE k == events[cursor].key
  <2>1. cursor \in 1..Len(events) /\ aliases' = aliases /\ events' = events
    BY <1>1, AdmitEventEffect DEF AdmitEvent
  <2>2. \/ Passing
        \/ k \in Keys /\ Admission(k, 1)
    BY <1>1, AdmitEventEffect
  <2>3. seen' \subseteq seen \cup {k}
    BY <2>2 DEF Passing, Admission
  <2>4. \A i \in 1..Len(queue'[1]) :
            queue'[1][i] = k \/ (i \in 1..Len(queue[1]) /\ queue'[1][i] = queue[1][i])
    <3>1. CASE queue' = queue
      BY <3>1
    <3>2. CASE k \in Keys /\ Appended(k, 1)
      BY <3>2, AppendItems
    <3>. QED
      BY <2>2, <3>1, <3>2 DEF Passing, Admission, Settled
  <2>. QED
    BY <2>1, <2>3, <2>4 DEF Sourced, Asks
<1>2. CASE DeriveCompare
  <2>. DEFINE pull == queue[1][cursor]
              k == derived[pull]
  <2>1. cursor \in 1..Len(queue[1]) /\ events' = events
    BY <1>2, DeriveEffect DEF DeriveCompare
  <2>2. PICK n \in 1..Len(events) : events[n].key = pull
    BY <2>1 DEF Sourced
  <2>3. queue'[1] = queue[1]
    <3>1. k \in Keys /\ Appended(k, 2) => queue'[1] = queue[1]
      BY AppendEffect
    <3>. QED
      BY <1>2, <3>1, DeriveEffect DEF Passing, Admission, Settled
  <2>4. \A p \in Pulls : aliases[p] # NoKey => aliases'[p] = aliases[p]
    BY <1>2, DeriveEffect DEF Linked, TypeOK
  <2>5. \A j \in seen' \ seen : pull \in Pulls /\ aliases'[pull] = j
    BY <1>2, DeriveEffect DEF Passing, Admission, TypeOK
  <2>6. NoKey \notin seen
    BY KeyAssumption DEF TypeOK
  <2>. QED
    BY <2>1, <2>2, <2>3, <2>4, <2>5, <2>6 DEF Sourced, Asks
<1>3. CASE ~AdmitEvent /\ ~DeriveCompare
  BY <1>3, QueueFrame DEF Sourced, Asks
<1>. QED
  BY <1>1, <1>2, <1>3

\* Every step keeps what save is about to store settled.
LEMMA SavedStep == IInv /\ BoundsInv /\ Saved /\ [Next]_vars => Saved'
<1>. SUFFICES ASSUME IInv, BoundsInv, Saved, [Next]_vars,
                     NEW k \in Keys, worker'[k] \in {"saving", "writing"}
              PROVE  /\ identities'[k] = reply'[k] /\ reply'[k] # Missing
                     /\ worker'[k] = "writing" => IsComplete(reply'[k])
  BY DEF Saved
<1>. USE DEF IInv
<1>1. CASE Settle(k)
  <2>1. /\ worker[k] = "settling" /\ reply' = reply /\ identities' = [identities EXCEPT ![k] = reply[k]]
        /\ worker'[k] # "writing"
    BY <1>1 DEF Settle, SettleIdentity, TypeOK
  <2>. QED
    BY <2>1 DEF Proven, TypeOK
<1>2. CASE CheckSave(k)
  BY <1>2 DEF CheckSave, CanSave, Saved, TypeOK, work
<1>3. CASE ~Settle(k) /\ ~CheckSave(k)
  <2>1. worker[k] = worker'[k]
    <3>1. ASSUME NEW j \in Keys, Goroutine(j), j # k PROVE worker[k] = worker'[k]
      BY <3>1, GoroutineEffect
    <3>2. CASE Goroutine(k)
      BY <1>3, <3>2 DEF Goroutine, Send, Receive, NextPage, ReceiveRefs, Save, Leave, Release, TypeOK
    <3>3. CASE Launch
      <4>1. worker' = [worker EXCEPT ![unit] = "ready"]
        BY <3>3 DEF Launch
      <4>. QED
        BY <4>1 DEF TypeOK
    <3>4. CASE ~Launch /\ ~(\E j \in Keys : Goroutine(j))
      BY <3>4 DEF Next, MainStep, Returned, AdmitEvent, DeriveCompare, StartDispatch, TakeSlot, GateRefuse,
         GateAdmit, Refuse, StartJoin, Join, MaintainCache, Assemble, Cancel, vars
    <3>. QED
      BY <3>1, <3>2, <3>3, <3>4
  <2>2. reply'[k] = reply[k] /\ identities[k] # Missing => identities'[k] = identities[k]
    BY ReportsStand
  <2>3. reply'[k] = reply[k]
    BY <2>1, ReplyOnce DEF Unanswered
  <2>. QED
    BY <2>1, <2>2, <2>3 DEF Saved
<1>. QED
  BY <1>1, <1>2, <1>3

\* The account holds when Evidence is called.
LEMMA OutcomesInit == Init => OInv
<1>. SUFFICES ASSUME Init PROVE OInv
  OBVIOUS
<1>1. WellFormed(Missing) /\ Missing.retryAt = 0
  BY DEF WellFormed, Missing, ReplyKinds
<1>2. Replied /\ Retried
  BY <1>1 DEF Init, Replied, Retried
<1>3. Accounted /\ Saved
  BY DEF Init, Accounted, Saved
<1>4. Sourced
  BY DEF Init, Sourced
<1>. QED
  BY <1>2, <1>3, <1>4 DEF OInv

\* The account holds of every reachable state.
THEOREM OutcomesInvariance == Spec => []OInv
<1>1. Init => OInv
  BY OutcomesInit
<1>2. IInv /\ BoundsInv /\ OInv /\ [Next]_vars => OInv'
  BY RepliedStep, RetriedStep, AccountedStep, SourcedStep, SavedStep DEF OInv
<1>. QED
  BY <1>1, <1>2, Invariance, BoundsInvariance, PTL DEF Spec

-----------------------------------------------------------------------------
(* The answers                                                             *)

\* Evidence answers in one step, and after it nothing moves.
LEMMA AnswersOnce ==
    ASSUME IInv, [Next]_vars
    PROVE  Assemble \/ (outcomes' = <<>> /\ pc' # "done") \/ UNCHANGED vars
<1>. USE DEF IInv
<1>1. CASE pc = "done"
  <2>1. \A k \in Keys : ~Goroutine(k)
    BY <1>1, LiveGoroutine, NotAlone DEF Alone
  <2>. QED
    BY <1>1, <2>1 DEF Next, MainStep, AdmitEvent, DeriveCompare, StartDispatch, TakeSlot, GateRefuse,
       GateAdmit, Refuse, Launch, StartJoin, Join, MaintainCache, Assemble, Cancel, Returned
<1>2. CASE pc # "done"
  <2>0. outcomes = <<>>
    BY <1>2 DEF Control
  <2>1. ASSUME NEW k \in Keys, Goroutine(k) PROVE outcomes' = outcomes /\ pc' = pc
    BY <2>1, GoroutineFrame
  <2>2. CASE AdmitEvent \/ DeriveCompare \/ StartDispatch \/ TakeSlot \/ GateRefuse \/ GateAdmit
    BY <2>0, <2>2 DEF AdmitEvent, DeriveCompare, StartDispatch, TakeSlot, GateRefuse, GateAdmit
  <2>3. CASE Refuse \/ Launch \/ StartJoin \/ Join \/ MaintainCache
    BY <2>0, <2>3 DEF Refuse, Launch, StartJoin, Join, MaintainCache
  <2>4. CASE Cancel
    BY <1>2, <2>0, <2>4 DEF Cancel, main
  <2>. QED
    BY <1>2, <2>0, <2>1, <2>2, <2>3, <2>4 DEF Next, MainStep, Returned
<1>. QED
  BY <1>1, <1>2

\* The answer to an event of a settled identity keeps the kind it settled at,
\* unless the commit's parent is not the event's.
LEMMA AnswerKind ==
    ASSUME IInv, pc = "assemble", NEW i \in 1..Len(events), events[i].key # NoKey
    PROVE  LET k == events[i].key
               o == identities[Resolve(k)]
           IN /\ k \in seen /\ Resolve(k) \in Keys /\ o # Missing /\ o \in Outcomes
              /\ Answer(events[i]).kind =
                    IF k \in Commits /\ IsComplete(o) /\ (o.of \notin Commits \/ ParentOf[o.of] # events[i].before)
                    THEN "wrongParent" ELSE o.kind
              /\ Answer(events[i]).kind = "limited" => Answer(events[i]).retryAt = ledger.retryAt
<1>. DEFINE event == events[i]
            k == event.key
            o == identities[Resolve(k)]
            f == ForDescriptor(o, event)
<1>1. k \in seen
  BY DEF IInv, EventsSeen
<1>2. Resolve(k) \in Keys /\ o # Missing /\ o \in Outcomes
  BY <1>1, ResolvedIsSettled DEF IInv, TypeOK
<1>3. Unknown("wrongParent").kind = "wrongParent"
  BY DEF Unknown, Missing
<1>4. f.kind = IF k \in Commits /\ IsComplete(o) /\ (o.of \notin Commits \/ ParentOf[o.of] # event.before)
               THEN "wrongParent" ELSE o.kind
  <2>. HIDE DEF o
  <2>. QED
    BY <1>2, <1>3 DEF ForDescriptor, Outcomes
<1>5. RateLimited(ledger.retryAt).kind = "limited" /\ RateLimited(ledger.retryAt).retryAt = ledger.retryAt
  BY DEF RateLimited, Unknown, Missing
<1>6. Answer(event) = IF f.kind = "limited" THEN RateLimited(ledger.retryAt) ELSE f
  BY DEF Answer
<1>7. Answer(event).kind = f.kind /\ (Answer(event).kind = "limited" => Answer(event).retryAt = ledger.retryAt)
  <2>. HIDE DEF f
  <2>. QED
    BY <1>5, <1>6
<1>. QED
  BY <1>1, <1>2, <1>4, <1>7

\* The kind of an answer is "given", "wrongParent" or backed.
LEMMA AnswerBacked ==
    ASSUME IInv, Accounted, pc = "assemble", NEW i \in 1..Len(events)
    PROVE  LET o == Answer(events[i]) IN
           /\ o.kind = "noBudget" => ledger.requests >= Requests
           /\ o.kind = "queueFull" => ledger.queued >= QueuedUnits
           /\ o.kind = "limited" => limited /\ o.retryAt = ledger.retryAt
           /\ o.kind = "canceled" => ledger.canceled
<1>1. CASE events[i].key = NoKey
  BY <1>1 DEF Answer, Unknown, Missing
<1>2. CASE events[i].key # NoKey
  <2>. DEFINE o == identities[Resolve(events[i].key)]
  <2>1. /\ Backed(o)
        /\ Answer(events[i]).kind \in {"wrongParent", o.kind}
        /\ Answer(events[i]).kind = "limited" => Answer(events[i]).retryAt = ledger.retryAt
    BY <1>2, AnswerKind DEF Accounted
  <2>. HIDE DEF o
  <2>. QED
    BY <2>1 DEF Backed
<1>. QED
  BY <1>1, <1>2

\* A canceled identity shows in the answer to the event that asked for it.
LEMMA CanceledShows ==
    ASSUME IInv, Sourced, pc = "assemble", NEW k \in Keys, identities[k].kind = "canceled"
    PROVE  \E i \in 1..Len(events) : Answer(events[i]).kind = "canceled"
<1>1. identities[k] # Missing
  BY DEF Missing
<1>2. k \in seen
  BY <1>1 DEF IInv, Untouched, UnseenFresh, Fresh
<1>3. PICK i \in 1..Len(events) : Asks(i, k)
  BY <1>2 DEF Sourced
<1>4. events[i].key # NoKey
  BY <1>3, KeyAssumption DEF Asks, Keys
<1>5. Resolve(events[i].key) = k
  <2>1. CASE events[i].key = k
    <3>1. k \in Pulls => aliases[k] = NoKey
      BY <1>1 DEF IInv, Untouched, PullsDerived, Linked
    <3>. QED
      BY <2>1, <3>1 DEF Resolve
  <2>2. CASE events[i].key \in Pulls /\ aliases[events[i].key] = k
    <3>1. k # NoKey
      BY KeyAssumption
    <3>. QED
      BY <2>2, <3>1 DEF Resolve
  <2>. QED
    BY <1>3, <2>1, <2>2 DEF Asks
<1>6. Answer(events[i]).kind = "canceled"
  BY <1>4, <1>5, AnswerKind DEF IsComplete
<1>. QED
  BY <1>6

\* Every limited outcome names one instant, the latest any response of this
\* refresh instructed, also for units settled before that response came.
THEOREM RateLimitSafe == Spec => []RateLimitShared
<1>1. Init => RateLimitShared
  BY DEF Init, RateLimitShared
<1>2. IInv /\ OInv /\ RateLimitShared /\ [Next]_vars => RateLimitShared'
  <2>. SUFFICES ASSUME IInv, OInv, RateLimitShared, [Next]_vars PROVE RateLimitShared'
    OBVIOUS
  <2>1. CASE Assemble
    <3>1. /\ outcomes' = [i \in 1..Len(events) |-> Answer(events[i])]
          /\ pc = "assemble" /\ reply' = reply
      BY <2>1 DEF Assemble
    <3>2. \A k \in Keys : worker[k] # "settling"
      BY <3>1 DEF IInv, Control, Alone, AllEnded
    <3>3. ASSUME NEW i \in 1..Len(events), Answer(events[i]).kind = "limited"
          PROVE  /\ Answer(events[i]).retryAt > 0
                 /\ \A k \in Keys : Answer(events[i]).retryAt >= reply[k].retryAt
                 /\ \E k \in Keys : Answer(events[i]).retryAt = reply[k].retryAt
      <4>1. limited /\ Answer(events[i]).retryAt = ledger.retryAt
        BY <3>1, <3>3, AnswerBacked DEF OInv
      <4>2. ledger.retryAt > 0
        BY <4>1 DEF OInv, Retried
      <4>3. \A k \in Keys : reply[k].retryAt <= ledger.retryAt
        BY <3>2 DEF OInv, Retried
      <4>4. \E k \in Keys : reply[k].retryAt = ledger.retryAt
        BY <4>2 DEF OInv, Retried
      <4>5. \A k \in Keys : reply[k].retryAt \in Nat /\ ledger.retryAt \in Nat
        <5>1. \A t \in RetryTimes \cup {0} : t \in Nat
          BY RetryAssumption
        <5>2. \A k \in Keys : reply[k].retryAt \in RetryTimes \cup {0} /\ ledger.retryAt \in RetryTimes \cup {0}
          BY DEF IInv, TypeOK, Ledgers, Outcomes
        <5>. QED
          BY <5>1, <5>2
      <4>. QED
        BY <4>1, <4>2, <4>3, <4>4, <4>5
    <3>. QED
      BY <3>1, <3>3 DEF RateLimitShared
  <2>2. CASE outcomes' = <<>>
    BY <2>2 DEF RateLimitShared
  <2>3. CASE UNCHANGED vars
    BY <2>3 DEF vars, RateLimitShared
  <2>. QED
    BY <2>1, <2>2, <2>3, AnswersOnce
<1>. QED
  BY <1>1, <1>2, Invariance, OutcomesInvariance, PTL DEF Spec

\* Each unknown outcome is backed by the ledger, and Ledger.Canceled never
\* claims a cancellation no event shows.
THEOREM UnknownSafe == Spec => []UnknownIsAccounted
<1>1. Init => UnknownIsAccounted
  BY DEF Init, UnknownIsAccounted
<1>2. IInv /\ OInv /\ BoundsInv /\ UnknownIsAccounted /\ [Next]_vars => UnknownIsAccounted'
  <2>. SUFFICES ASSUME IInv, OInv, Spent, UnknownIsAccounted, [Next]_vars PROVE UnknownIsAccounted'
    BY DEF BoundsInv
  <2>1. CASE Assemble
    <3>1. /\ outcomes' = [i \in 1..Len(events) |-> Answer(events[i])]
          /\ pc = "assemble" /\ ledger' = ledger /\ limited' = limited
      BY <2>1 DEF Assemble
    <3>2. /\ DOMAIN outcomes' = 1..Len(events)
          /\ \A i \in 1..Len(events) : outcomes'[i] = Answer(events[i])
      BY <3>1
    <3>3. \A i \in 1..Len(events) :
            /\ Answer(events[i]).kind = "noBudget" => ledger.requests >= Requests
            /\ Answer(events[i]).kind = "queueFull" => ledger.queued >= QueuedUnits
            /\ Answer(events[i]).kind = "limited" => limited
            /\ Answer(events[i]).kind = "canceled" => ledger.canceled
      BY <3>1, AnswerBacked DEF OInv
    <3>4. ledger.canceled => \E i \in 1..Len(events) : Answer(events[i]).kind = "canceled"
      BY <3>1, CanceledShows DEF OInv, Accounted
    <3>5. /\ ledger.requests >= Requests => ledger.requests = Requests
          /\ ledger.queued >= QueuedUnits => ledger.queued = QueuedUnits
      <4>1. /\ ledger.requests \in Nat /\ ledger.queued \in Nat
            /\ Requests \in Nat /\ QueuedUnits \in Nat
        BY BoundAssumption DEF IInv, TypeOK, Ledgers
      <4>. QED
        BY <4>1 DEF Spent
    <3>. QED
      BY <3>1, <3>2, <3>3, <3>4, <3>5 DEF UnknownIsAccounted
  <2>2. CASE pc' # "done"
    BY <2>2 DEF UnknownIsAccounted
  <2>3. CASE UNCHANGED vars
    BY <2>3 DEF vars, main, UnknownIsAccounted
  <2>. QED
    BY <2>1, <2>2, <2>3, AnswersOnce
<1>. QED
  BY <1>1, <1>2, Invariance, BoundsInvariance, OutcomesInvariance, PTL DEF Spec

-----------------------------------------------------------------------------
(* The coordination implements the settlement contract                     *)

\* The abstract verdicts and answers, as Settlement's substitution states them.
VerdictOf == [k \in Keys |-> IF identities[k] = Missing THEN "open" ELSE identities[k].kind]
AnswerKinds == [i \in DOMAIN outcomes |-> outcomes[i].kind]

\* Settling an identity is the abstract decision on it.
LEMMA DecideStep ==
    ASSUME IInv, NEW k \in Keys, NEW o \in Outcomes, SettledBy(k, o),
           UNCHANGED <<events, stored, derived, outcomes>>, Launched' = Launched
    PROVE  Settlement!Decide(k)
<1>1. VerdictOf[k] = "open" /\ VerdictOf' = [VerdictOf EXCEPT ![k] = o.kind]
  <2>1. identities[k] = Missing /\ o # Missing /\ identities' = [identities EXCEPT ![k] = o]
    BY DEF SettledBy
  <2>2. \A j \in Keys : identities'[j] = IF j = k THEN o ELSE identities[j]
    BY <2>1 DEF IInv, TypeOK
  <2>3. VerdictOf[k] = "open"
    BY <2>1 DEF VerdictOf
  <2>4. VerdictOf' = [j \in Keys |-> IF j = k THEN o.kind ELSE VerdictOf[j]]
    BY <2>1, <2>2 DEF VerdictOf
  <2>5. VerdictOf = [j \in Keys |-> VerdictOf[j]]
    BY DEF VerdictOf
  <2>. QED
    BY <2>3, <2>4, <2>5
<1>2. o.kind \in Kinds \ {"open"}
  BY DEF Outcomes, Kinds
<1>3. o.kind = "complete" => k \in Launched \cup stored
  <2>1. CASE Refuse /\ o = refused
    BY <2>1 DEF Refuse, IInv, Proven, IsComplete
  <2>2. CASE Settle(k)
    BY <2>2 DEF Settle, Launched
  <2>. QED
    BY <2>1, <2>2 DEF SettledBy, Source
<1>4. ~(k \in Pulls /\ derived[k] # NoKey)
  BY DEF SettledBy
<1>. QED
  BY <1>1, <1>2, <1>3, <1>4 DEF Settlement!Decide, Launched, VerdictOf

\* The contract counts as this module does.
LEMMA SameCardinality == \A S : Settlement!Cardinality(S) = Cardinality(S)
BY DEF Settlement!Cardinality, Cardinality

\* Launching a unit is the abstract call, within the abstract budget.
LEMMA CallStep ==
    ASSUME IInv, BoundsInv, Launch, NEW k \in Keys, k = unit
    PROVE  Settlement!Call(k)
<1>1. identities[k] = Missing /\ worker[k] = "idle"
  BY CurrentUnit DEF Launch, IInv, Fresh
<1>2. k \notin Launched /\ Launched' = Launched \cup {k}
  <2>1. \A j \in Keys : worker'[j] = IF j = k THEN "ready" ELSE worker[j]
    BY DEF Launch, IInv, TypeOK
  <2>. QED
    BY <1>1, <2>1 DEF Launched
<1>3. Cardinality(Launched) < Requests
  <2>1. ledger.requests = Cardinality(Launched) + 1 /\ ledger.requests <= Requests
    BY DEF BoundsInv, Counted, Spent, Launch
  <2>2. Cardinality(Launched) \in Nat /\ Requests \in Nat
    BY GoroutineSets, BoundAssumption DEF BoundsInv, Counted
  <2>. QED
    BY <2>1, <2>2
<1>4. UNCHANGED <<events, stored, derived, VerdictOf, AnswerKinds>>
  BY DEF Launch, work, VerdictOf, AnswerKinds
<1>5. VerdictOf[k] = "open"
  BY <1>1 DEF VerdictOf
<1>6. UNCHANGED <<events, stored, derived>> /\ VerdictOf' = VerdictOf /\ AnswerKinds' = AnswerKinds
  BY <1>4
<1>7. Cardinality({j \in Keys : worker[j] # "idle"}) < Requests
  BY <1>3 DEF Launched
<1>8. k \notin {j \in Keys : worker[j] # "idle"}
  BY <1>2 DEF Launched
<1>9. {j \in Keys : worker[j] # "idle"}' = {j \in Keys : worker[j] # "idle"} \cup {k}
  BY <1>2 DEF Launched
<1>. QED
  <2>. USE DEF VerdictOf, AnswerKinds
  <2>1. Settlement!Call(k)!1
    BY <1>5, <1>8
  <2>2. Settlement!Call(k)!2
    BY <1>7, SameCardinality
  <2>3. Settlement!Call(k)!3
    BY <1>9
  <2>4. Settlement!Call(k)!4
    BY <1>6
  <2>. QED
    BY <2>1, <2>2, <2>3, <2>4 DEF Settlement!Call

\* Deriving a live compare is the abstract link.
LEMMA LinkStep ==
    ASSUME IInv, NEW k \in Keys, ReceiveRefs(k), Launched' = Launched
    PROVE  k \in Pulls /\ Settlement!Link(k)
<1>1. k \in Pulls /\ worker[k] = "waiting" /\ identities[k] = Missing /\ derived[k] = NoKey
  BY DEF ReceiveRefs, IInv, Untouched, AskedOpen, PullsDerived, Asking
<1>2. \E c \in Compares : derived' = [derived EXCEPT ![k] = c]
  BY DEF ReceiveRefs
<1>3. UNCHANGED <<events, stored, identities, outcomes>>
  BY DEF ReceiveRefs
<1>4. k \in Launched /\ VerdictOf[k] = "open"
  BY <1>1 DEF Launched, VerdictOf
<1>. QED
  BY <1>1, <1>2, <1>3, <1>4 DEF Settlement!Link, Launched, VerdictOf

\* A save stores what its goroutine settled as complete, or nothing.
LEMMA LearnStep ==
    ASSUME IInv, Saved, NEW k \in Keys, Save(k), Launched' = Launched
    PROVE  Settlement!Learn(k) \/ stored' = stored
<1>1. identities[k] = reply[k] /\ reply[k] # Missing /\ IsComplete(reply[k]) /\ worker[k] = "writing"
  BY DEF Save, Saved
<1>2. stored' = stored \cup {k} \/ stored' = stored
  BY DEF Save
<1>3. UNCHANGED <<events, derived, identities, outcomes>>
  BY DEF Save, work
<1>4. k \in Launched /\ VerdictOf[k] = "complete"
  BY <1>1 DEF Launched, VerdictOf, IsComplete
<1>. QED
  BY <1>2, <1>3, <1>4 DEF Settlement!Learn, Launched, VerdictOf

\* Assembling is the abstract answer: every event from a verdict that exists.
LEMMA AnswerStep ==
    ASSUME IInv, Assemble
    PROVE  Settlement!Answer
<1>1. /\ pc = "assemble" /\ outcomes = <<>>
      /\ outcomes' = [i \in 1..Len(events) |-> Answer(events[i])]
      /\ UNCHANGED <<events, stored, derived, identities, worker>>
  BY DEF Assemble, IInv, Control, work
<1>2. DOMAIN events = 1..Len(events)
  BY DEF IInv, TypeOK
<1>3. ASSUME NEW i \in 1..Len(events)
      PROVE  Settlement!Verdict(events[i]) = Answer(events[i]).kind /\ Settlement!Verdict(events[i]) # "open"
  <2>. DEFINE k == events[i].key
              o == identities[Resolve(k)]
  <2>1. CASE k = NoKey
    BY <2>1 DEF Settlement!Verdict, Answer, Unknown, Missing
  <2>2. CASE k # NoKey
    <3>1. /\ k \in seen /\ Resolve(k) \in Keys /\ o # Missing /\ o \in Outcomes
          /\ Answer(events[i]).kind =
                IF k \in Commits /\ IsComplete(o) /\ (o.of \notin Commits \/ ParentOf[o.of] # events[i].before)
                THEN "wrongParent" ELSE o.kind
      BY <1>1, <2>2, AnswerKind
    <3>2. Settlement!Target(k) = Resolve(k)
      BY <1>1, <3>1, ResolvedIsSettled DEF Settlement!Target
    <3>3. VerdictOf[Resolve(k)] = o.kind
      BY <3>1 DEF VerdictOf
    <3>4. k \in Commits /\ IsComplete(o) => o.of = k
      <4>1. IsComplete(o) => o.of = Resolve(k)
        BY <3>1 DEF IInv, Proven
      <4>2. k \in Commits => Resolve(k) = k
        BY KeyAssumption DEF Resolve, Persistable
      <4>. QED
        BY <4>1, <4>2
    <3>5. o.kind # "open"
      BY <3>1 DEF Outcomes, Kinds
    <3>6. Settlement!Verdict(events[i]) =
            IF VerdictOf[Resolve(k)] = "complete" /\ k \in Commits /\ ParentOf[k] # events[i].before
            THEN "wrongParent" ELSE VerdictOf[Resolve(k)]
      BY <2>2, <3>2 DEF Settlement!Verdict, VerdictOf
    <3>. HIDE DEF o, k
    <3>. QED
      BY <3>1, <3>3, <3>4, <3>5, <3>6 DEF IsComplete
  <2>. QED
    BY <2>1, <2>2
<1>4. AnswerKinds = <<>>
  BY <1>1 DEF AnswerKinds
<1>5. AnswerKinds' = [i \in DOMAIN events |-> Settlement!Verdict(events[i])]
  BY <1>1, <1>2, <1>3 DEF AnswerKinds
<1>. QED
  BY <1>1, <1>2, <1>3, <1>4, <1>5 DEF Settlement!Answer, AnswerKinds

\* Every step of the coordination is a step of the contract or leaves it alone.
LEMMA ContractStep ==
    ASSUME IInv, BoundsInv, OInv, [Next]_vars
    PROVE  [Settlement!Next]_(Settlement!vars)
<1>1. Settlement!Keys = Keys
  BY DEF Settlement!Keys, Keys, Persistable
<1>2. ~Launch => Launched' = Launched
  BY LaunchStarts DEF Launched
<1>3. ASSUME NEW k \in Keys,
             \/ Settlement!Call(k) \/ Settlement!Decide(k) \/ Settlement!Learn(k)
             \/ k \in Pulls /\ Settlement!Link(k)
      PROVE  Settlement!Next
  BY <1>1, <1>3 DEF Settlement!Next
<1>4. ASSUME ~Launch, UNCHANGED <<events, stored, derived, identities, outcomes>>
      PROVE  UNCHANGED Settlement!vars
  BY <1>2, <1>4 DEF Settlement!vars, Launched
<1>5. ASSUME ~Launch, UNCHANGED <<events, stored, derived, outcomes>>
      PROVE  [Settlement!Next]_(Settlement!vars)
  <2>1. CASE identities' = identities
    BY <1>4, <1>5, <2>1
  <2>2. ASSUME NEW k \in Keys, NEW o \in Outcomes, SettledBy(k, o) PROVE Settlement!Next
    BY <1>2, <1>3, <1>5, <2>2, DecideStep
  <2>. QED
    BY <2>1, <2>2, SettlingStep
<1>6. CASE Launch
  <2>1. unit \in Keys
    BY <1>6, UnitType DEF Launch, IInv
  <2>. QED
    BY <1>3, <1>6, <2>1, CallStep
<1>7. CASE Assemble
  BY <1>7, AnswerStep DEF Settlement!Next
<1>8. CASE MainStep /\ ~Launch /\ ~Assemble
  <2>1. UNCHANGED <<events, stored, derived, outcomes>>
    BY <1>8 DEF MainStep, AdmitEvent, DeriveCompare, StartDispatch, TakeSlot, GateRefuse,
       GateAdmit, Refuse, StartJoin, Join, MaintainCache, work
  <2>. QED
    BY <1>5, <1>8, <2>1
<1>9. ASSUME NEW k \in Keys, Goroutine(k) PROVE [Settlement!Next]_(Settlement!vars)
  <2>1. ~Launch
    <3>1. worker[k] # "idle" /\ pc' = pc
      BY <1>9, LiveGoroutine, GoroutineFrame
    <3>. QED
      BY <3>1 DEF Launch
  <2>2. CASE ReceiveRefs(k)
    BY <1>2, <1>3, <2>1, <2>2, LinkStep
  <2>3. CASE Save(k)
    <3>1. UNCHANGED <<events, derived, identities, outcomes>>
      BY <2>3 DEF Save, work
    <3>2. CASE stored' = stored
      BY <1>4, <2>1, <3>1, <3>2
    <3>. QED
      BY <1>2, <1>3, <2>1, <2>3, <3>2, LearnStep DEF OInv
  <2>4. CASE ~ReceiveRefs(k) /\ ~Save(k)
    <3>1. UNCHANGED <<events, stored, derived, outcomes>>
      BY <1>9, <2>4 DEF Goroutine, Send, Receive, NextPage, Settle, CheckSave, Leave, Release, work
    <3>. QED
      BY <1>5, <2>1, <3>1
  <2>. QED
    BY <2>2, <2>3, <2>4
<1>10. CASE Cancel \/ UNCHANGED vars
  <2>1. ~Launch /\ UNCHANGED <<events, stored, derived, identities, outcomes>>
    BY <1>10 DEF Cancel, vars, main, work, Launch
  <2>. QED
    BY <1>4, <2>1
<1>. QED
  BY <1>6, <1>7, <1>8, <1>9, <1>10, Zenon DEF Next, Returned

\* The coordination, with its queue, stages, goroutines and locks, implements
\* the settlement contract: one call and one verdict per identity within the
\* request bound, a cache that learns only proven evidence, one joint answer.
THEOREM SettlesContract == Spec => Settles
<1>1. Init => Settlement!Init
  <2>. SUFFICES ASSUME Init PROVE Settlement!Init
    OBVIOUS
  <2>1. Launched = {}
    BY DEF Init, Launched
  <2>2. VerdictOf = [k \in Keys |-> "open"]
    BY DEF Init, VerdictOf
  <2>3. AnswerKinds = <<>>
    BY DEF Init, AnswerKinds
  <2>4. Settlement!Keys = Keys
    BY DEF Settlement!Keys, Keys, Persistable
  <2>. QED
    BY <2>1, <2>2, <2>3, <2>4 DEF Init, Settlement!Init, Launched, VerdictOf, AnswerKinds
<1>2. IInv /\ BoundsInv /\ OInv /\ [Next]_vars => [Settlement!Next]_(Settlement!vars)
  BY ContractStep
<1>. QED
  BY <1>1, <1>2, Invariance, BoundsInvariance, OutcomesInvariance, PTL DEF Spec, Settles, Settlement!Spec
=============================================================================
