--------------------------- MODULE WorkflowProofs ---------------------------
(***************************************************************************)
(* Proofs about the workflow registry, for every set of units and every    *)
(* bound on the length of a history.                                       *)
(***************************************************************************)
EXTENDS Workflow, TLAPS

-----------------------------------------------------------------------------
\* Where a legal action leads is always one of the five statuses.
LEMMA TargetType == \A a \in Actions : Target(a) \in Statuses
  BY DEF Actions, Target, Statuses

\* Get yields a well-formed entry, stored or synthesized.
LEMMA GetType ==
  ASSUME TypeOK, NEW k \in Keys
  PROVE  Get(k) \in Entry
<1>1. CASE k \in DOMAIN entries
  BY <1>1 DEF TypeOK, Get
<1>2. CASE k \notin DOMAIN entries
  <2>1. <<>> \in Seq(Events)
    OBVIOUS
  <2> QED
    BY <1>2, <2>1 DEF Get, Entry, Statuses
<1> QED
  BY <1>1, <1>2

\* Applying an action to a well-formed entry appends exactly one event.
LEMMA AppliedType ==
  ASSUME NEW e \in Entry, NEW a \in Actions
  PROVE  /\ Applied(e, a) \in Entry
         /\ Applied(e, a).status = Target(a)
         /\ Len(Applied(e, a).history) = Len(e.history) + 1
         /\ \A i \in 1 .. Len(e.history) : Applied(e, a).history[i] = e.history[i]
         /\ Applied(e, a).history[Len(e.history) + 1]
              = [action |-> a, from |-> e.status, to |-> Target(a)]
<1> DEFINE ev == [action |-> a, from |-> e.status, to |-> Target(a)]
<1>1. e.history \in Seq(Events) /\ e.status \in Statuses
  BY DEF Entry
<1>2. Target(a) \in Statuses
  BY TargetType
<1>3. ev \in Events
  BY <1>1, <1>2 DEF Events
<1>4. Applied(e, a) = [status |-> Target(a), history |-> Append(e.history, ev)]
  BY DEF Applied
<1> HIDE DEF ev
<1>5. /\ Append(e.history, ev) \in Seq(Events)
      /\ Len(Append(e.history, ev)) = Len(e.history) + 1
      /\ \A i \in 1 .. Len(e.history) : Append(e.history, ev)[i] = e.history[i]
      /\ Append(e.history, ev)[Len(e.history) + 1] = ev
  BY <1>1, <1>3
<1> QED
  BY <1>2, <1>4, <1>5 DEF Entry, ev

-----------------------------------------------------------------------------
\* Type correctness of the registry.
LEMMA TypeInit == Init => TypeOK
  BY DEF Init, TypeOK

LEMMA TypeStep == TypeOK /\ [Next]_vars => TypeOK'
<1> SUFFICES ASSUME TypeOK, [Next]_vars PROVE TypeOK'
  OBVIOUS
<1>1. ASSUME NEW k \in Keys, NEW a \in Actions, Apply(k, a) PROVE TypeOK'
  <2>1. Applied(Get(k), a) \in Entry
    BY GetType, AppliedType
  <2> QED
    BY <1>1, <2>1 DEF Apply, TypeOK
<1>2. ASSUME NEW k \in Keys, Forget(k) PROVE TypeOK'
  BY <1>2 DEF Forget, TypeOK
<1>3. CASE UNCHANGED vars
  BY <1>3 DEF vars, TypeOK
<1> QED
  BY <1>1, <1>2, <1>3 DEF Next

\* The registry only ever holds well-formed entries of known units.
THEOREM TypeCorrect == Spec => []TypeOK
  BY TypeInit, TypeStep, PTL DEF Spec

-----------------------------------------------------------------------------
\* One entry: appending the event of an action keeps the chain unbroken.
LEMMA ChainExtends ==
  ASSUME NEW e \in Entry, NEW a \in Actions,
         \/ Chained(e)
         \/ e = [status |-> "NotStarted", history |-> <<>>]
  PROVE  Chained(Applied(e, a))
<1> DEFINE h == e.history
           g == Applied(e, a).history
<1>1. /\ h \in Seq(Events) /\ g \in Seq(Events)
      /\ Len(g) = Len(h) + 1
      /\ \A i \in 1 .. Len(h) : g[i] = h[i]
      /\ g[Len(h) + 1] = [action |-> a, from |-> e.status, to |-> Target(a)]
      /\ Applied(e, a).status = Target(a)
  BY AppliedType DEF Entry
<1>2. g # <<>> /\ g[Len(g)].to = Applied(e, a).status
  BY <1>1
<1>3. CASE e = [status |-> "NotStarted", history |-> <<>>]
  <2>1. Len(h) = 0 /\ e.status = "NotStarted"
    BY <1>3
  <2> QED
    BY <1>1, <1>2, <2>1 DEF Chained
<1>4. CASE Chained(e)
  <2>1. Len(h) \in Nat \ {0}
    BY <1>1, <1>4 DEF Chained
  <2>2. g[1].from = "NotStarted"
    BY <1>1, <1>4, <2>1 DEF Chained
  <2>3. ASSUME NEW i \in 1 .. Len(g) - 1 PROVE g[i].to = g[i + 1].from
    <3>1. CASE i = Len(h)
      BY <1>1, <1>4, <2>1, <3>1 DEF Chained
    <3>2. CASE i # Len(h)
      <4>1. i \in 1 .. Len(h) - 1 /\ i + 1 \in 1 .. Len(h)
        BY <1>1, <2>1, <3>2
      <4> QED
        BY <1>1, <1>4, <4>1 DEF Chained
    <3> QED
      BY <3>1, <3>2
  <2> QED
    BY <1>2, <2>2, <2>3 DEF Chained
<1> QED
  BY <1>3, <1>4

LEMMA ChainInit == Init => HistoryChain
  BY DEF Init, HistoryChain

LEMMA ChainStep == TypeOK /\ HistoryChain /\ [Next]_vars => HistoryChain'
<1> SUFFICES ASSUME TypeOK, HistoryChain, [Next]_vars PROVE HistoryChain'
  OBVIOUS
<1>1. ASSUME NEW k \in Keys, NEW a \in Actions, Apply(k, a) PROVE HistoryChain'
  <2>1. Get(k) \in Entry
    BY GetType
  <2>2. \/ Chained(Get(k))
        \/ Get(k) = [status |-> "NotStarted", history |-> <<>>]
    BY DEF HistoryChain, Get
  <2>3. Chained(Applied(Get(k), a))
    BY <2>1, <2>2, ChainExtends
  <2>4. ASSUME NEW j \in DOMAIN entries' PROVE Chained(entries'[j])
    <3>1. CASE j = k
      BY <1>1, <2>3, <3>1 DEF Apply
    <3>2. CASE j # k
      BY <1>1, <3>2 DEF Apply, HistoryChain
    <3> QED
      BY <3>1, <3>2
  <2> QED
    BY <2>4 DEF HistoryChain
<1>2. ASSUME NEW k \in Keys, Forget(k) PROVE HistoryChain'
  BY <1>2 DEF Forget, HistoryChain
<1>3. CASE UNCHANGED vars
  BY <1>3 DEF vars, HistoryChain
<1> QED
  BY <1>1, <1>2, <1>3 DEF Next

\* In every behaviour, the history of every tracked unit is an unbroken walk
\* from NotStarted to the unit's present status.
THEOREM HistoryIsChained == Spec => []HistoryChain
<1>1. Init => TypeOK /\ HistoryChain
  BY TypeInit, ChainInit
<1>2. TypeOK /\ HistoryChain /\ [Next]_vars => (TypeOK /\ HistoryChain)'
  BY TypeStep, ChainStep
<1> QED
  BY <1>1, <1>2, PTL DEF Spec

-----------------------------------------------------------------------------
\* What it means to end with the one to four steps of a pipeline.
LEMMA EndsWithTuples ==
  ASSUME NEW h, Len(h) \in Nat
  PROVE  /\ EndsWith(h, <<>>)
         /\ \A p : EndsWith(h, <<p>>) <=> Len(h) >= 1 /\ h[Len(h)].action = p
         /\ \A p, q : EndsWith(h, <<p, q>>)
              <=> Len(h) >= 2 /\ h[Len(h) - 1].action = p /\ h[Len(h)].action = q
         /\ \A p, q, r : EndsWith(h, <<p, q, r>>)
              <=> /\ Len(h) >= 3 /\ h[Len(h) - 2].action = p
                  /\ h[Len(h) - 1].action = q /\ h[Len(h)].action = r
         /\ \A p, q, r, s : EndsWith(h, <<p, q, r, s>>)
              <=> /\ Len(h) >= 4 /\ h[Len(h) - 3].action = p /\ h[Len(h) - 2].action = q
                  /\ h[Len(h) - 1].action = r /\ h[Len(h)].action = s
<1>1. EndsWith(h, <<>>)
  BY DEF EndsWith
<1>2. ASSUME NEW p PROVE EndsWith(h, <<p>>) <=> Len(h) >= 1 /\ h[Len(h)].action = p
  BY DEF EndsWith
<1>3. ASSUME NEW p, NEW q
      PROVE  EndsWith(h, <<p, q>>)
               <=> Len(h) >= 2 /\ h[Len(h) - 1].action = p /\ h[Len(h)].action = q
  BY DEF EndsWith
<1>4. ASSUME NEW p, NEW q, NEW r
      PROVE  EndsWith(h, <<p, q, r>>)
               <=> /\ Len(h) >= 3 /\ h[Len(h) - 2].action = p
                   /\ h[Len(h) - 1].action = q /\ h[Len(h)].action = r
  BY DEF EndsWith
<1>5. ASSUME NEW p, NEW q, NEW r, NEW s
      PROVE  EndsWith(h, <<p, q, r, s>>)
               <=> /\ Len(h) >= 4 /\ h[Len(h) - 3].action = p /\ h[Len(h) - 2].action = q
                   /\ h[Len(h) - 1].action = r /\ h[Len(h)].action = s
  BY DEF EndsWith
<1> QED
  BY <1>1, <1>2, <1>3, <1>4, <1>5

\* One entry: an allowed action extends the pipeline evidence by itself.
LEMMA EvidenceExtends ==
  ASSUME NEW e \in Entry, NEW a \in Actions, Allowed(e.status, a),
         EndsWith(e.history, PipelineTo(e.status))
  PROVE  EndsWith(Applied(e, a).history, PipelineTo(Target(a)))
<1> DEFINE h == e.history
           g == Applied(e, a).history
<1>1. /\ Len(h) \in Nat
      /\ Len(g) = Len(h) + 1
      /\ \A i \in 1 .. Len(h) : g[i].action = h[i].action
      /\ g[Len(h) + 1].action = a
  <2>1. Len(h) \in Nat
    BY DEF Entry
  <2>2. /\ Len(g) = Len(h) + 1
        /\ \A i \in 1 .. Len(h) : g[i] = h[i]
        /\ g[Len(h) + 1] = [action |-> a, from |-> e.status, to |-> Target(a)]
    BY AppliedType
  <2> HIDE DEF g, h
  <2> QED
    BY <2>1, <2>2
<1>2. EndsWith(h, PipelineTo(e.status))
  OBVIOUS
<1> HIDE DEF g, h
<1>3. Len(g) \in Nat
  BY <1>1
<1>4. CASE a = "reopen"
  <2>1. PipelineTo(Target(a)) = <<>>
    BY <1>4 DEF PipelineTo, Target
  <2> QED
    BY <1>3, <2>1, EndsWithTuples DEF g
<1>5. CASE a = "import"
  <2>1. PipelineTo(Target(a)) = <<"import">>
    BY <1>5 DEF PipelineTo, Target
  <2>2. EndsWith(g, <<"import">>)
    BY <1>1, <1>3, <1>5, EndsWithTuples
  <2> QED
    BY <2>1, <2>2 DEF g
<1>6. CASE a = "validate"
  <2>1. e.status = "Imported"
    BY <1>6 DEF Allowed
  <2>2. /\ PipelineTo(e.status) = <<"import">>
        /\ PipelineTo(Target(a)) = <<"import", "validate">>
    BY <1>6, <2>1 DEF PipelineTo, Target
  <2>3. Len(h) >= 1 /\ h[Len(h)].action = "import"
    BY <1>1, <1>2, <2>2, EndsWithTuples
  <2>4. EndsWith(g, <<"import", "validate">>)
    BY <1>1, <1>3, <1>6, <2>3, EndsWithTuples
  <2> QED
    BY <2>2, <2>4 DEF g
<1>7. CASE a = "process"
  <2>1. e.status = "Validated"
    BY <1>7 DEF Allowed
  <2>2. /\ PipelineTo(e.status) = <<"import", "validate">>
        /\ PipelineTo(Target(a)) = <<"import", "validate", "process">>
    BY <1>7, <2>1 DEF PipelineTo, Target
  <2>3. Len(h) >= 2 /\ h[Len(h) - 1].action = "import" /\ h[Len(h)].action = "validate"
    BY <1>1, <1>2, <2>2, EndsWithTuples
  <2>4. EndsWith(g, <<"import", "validate", "process">>)
    BY <1>1, <1>3, <1>7, <2>3, EndsWithTuples
  <2> QED
    BY <2>2, <2>4 DEF g
<1>8. CASE a = "certify"
  <2>1. e.status = "Processed"
    BY <1>8 DEF Allowed
  <2>2. /\ PipelineTo(e.status) = <<"import", "validate", "process">>
        /\ PipelineTo(Target(a)) = <<"import", "validate", "process", "certify">>
    BY <1>8, <2>1 DEF PipelineTo, Target
  <2>3. /\ Len(h) >= 3 /\ h[Len(h) - 2].action = "import"
        /\ h[Len(h) - 1].action = "validate" /\ h[Len(h)].action = "process"
    BY <1>1, <1>2, <2>2, EndsWithTuples
  <2>4. EndsWith(g, <<"import", "validate", "process", "certify">>)
    BY <1>1, <1>3, <1>8, <2>3, EndsWithTuples
  <2> QED
    BY <2>2, <2>4 DEF g
<1> QED
  BY <1>4, <1>5, <1>6, <1>7, <1>8 DEF Actions

LEMMA EvidenceInit == Init => PipelineEvidence
  BY DEF Init, PipelineEvidence

LEMMA EvidenceStep == TypeOK /\ PipelineEvidence /\ [Next]_vars => PipelineEvidence'
<1> SUFFICES ASSUME TypeOK, PipelineEvidence, [Next]_vars PROVE PipelineEvidence'
  OBVIOUS
<1>1. ASSUME NEW k \in Keys, NEW a \in Actions, Apply(k, a) PROVE PipelineEvidence'
  <2>1. Get(k) \in Entry
    BY GetType
  <2>2. EndsWith(Get(k).history, PipelineTo(Get(k).status))
    <3>1. CASE k \in DOMAIN entries
      BY <3>1 DEF PipelineEvidence, Get
    <3>2. CASE k \notin DOMAIN entries
      BY <3>2 DEF Get, EndsWith, PipelineTo
    <3> QED
      BY <3>1, <3>2
  <2>3. /\ EndsWith(Applied(Get(k), a).history, PipelineTo(Target(a)))
        /\ Applied(Get(k), a).status = Target(a)
    BY <1>1, <2>1, <2>2, EvidenceExtends, AppliedType DEF Apply, Status
  <2>4. ASSUME NEW j \in DOMAIN entries'
        PROVE  EndsWith(entries'[j].history, PipelineTo(entries'[j].status))
    <3>1. CASE j = k
      BY <1>1, <2>3, <3>1 DEF Apply
    <3>2. CASE j # k
      BY <1>1, <3>2 DEF Apply, PipelineEvidence
    <3> QED
      BY <3>1, <3>2
  <2> QED
    BY <2>4 DEF PipelineEvidence
<1>2. ASSUME NEW k \in Keys, Forget(k) PROVE PipelineEvidence'
  BY <1>2 DEF Forget, PipelineEvidence
<1>3. CASE UNCHANGED vars
  BY <1>3 DEF vars, PipelineEvidence
<1> QED
  BY <1>1, <1>2, <1>3 DEF Next

\* In every behaviour, a certified unit went through import, validate, process
\* and certify, in that order and with nothing in between; likewise for the
\* earlier statuses.
THEOREM CertifiedWentThroughPipeline == Spec => []PipelineEvidence
<1>1. Init => TypeOK /\ PipelineEvidence
  BY TypeInit, EvidenceInit
<1>2. TypeOK /\ PipelineEvidence /\ [Next]_vars => (TypeOK /\ PipelineEvidence)'
  BY TypeStep, EvidenceStep
<1> QED
  BY <1>1, <1>2, PTL DEF Spec

-----------------------------------------------------------------------------
\* No step rewrites or drops an event of a unit that stays tracked.
THEOREM HistoryIsAppendOnly == Spec => HistoryAppendOnly
<1> DEFINE Kept == \A k \in DOMAIN entries \cap DOMAIN entries' :
                     /\ Len(entries[k].history) <= Len(entries'[k].history)
                     /\ \A i \in 1 .. Len(entries[k].history) :
                          entries'[k].history[i] = entries[k].history[i]
<1>1. TypeOK /\ [Next]_vars => [Kept]_vars
  <2> SUFFICES ASSUME TypeOK, Next PROVE Kept
    OBVIOUS
  <2>0. \A j \in DOMAIN entries : Len(entries[j].history) \in Nat
    BY DEF TypeOK, Entry
  <2>1. ASSUME NEW k \in Keys, NEW a \in Actions, Apply(k, a) PROVE Kept
    <3>1. Get(k) \in Entry
      BY GetType
    <3>2. ASSUME NEW j \in DOMAIN entries \cap DOMAIN entries'
          PROVE  /\ Len(entries[j].history) <= Len(entries'[j].history)
                 /\ \A i \in 1 .. Len(entries[j].history) :
                      entries'[j].history[i] = entries[j].history[i]
      <4>1. CASE j = k
        <5>1. entries'[j] = Applied(Get(k), a) /\ entries[j] = Get(k)
          BY <2>1, <4>1 DEF Apply, Get
        <5>2. Len(Get(k).history) \in Nat
          BY <3>1 DEF Entry
        <5>3. /\ Len(Applied(Get(k), a).history) = Len(Get(k).history) + 1
              /\ \A i \in 1 .. Len(Get(k).history) :
                   Applied(Get(k), a).history[i] = Get(k).history[i]
          BY <3>1, AppliedType
        <5> HIDE DEF Kept
        <5> QED
          BY <4>1, <5>1, <5>2, <5>3
      <4>2. CASE j # k
        BY <2>0, <2>1, <4>2 DEF Apply
      <4> QED
        BY <4>1, <4>2
    <3> QED
      BY <3>2
  <2>2. ASSUME NEW k \in Keys, Forget(k) PROVE Kept
    BY <2>0, <2>2 DEF Forget
  <2> QED
    BY <2>1, <2>2 DEF Next
<1>2. Spec => []TypeOK
  BY TypeCorrect
<1> QED
  BY <1>1, <1>2, PTL DEF Spec, HistoryAppendOnly
=============================================================================
