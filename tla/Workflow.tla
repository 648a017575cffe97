------------------------------ MODULE Workflow ------------------------------
(***************************************************************************)
(* The workflow registry of internal/workflow: one entry per tracked data  *)
(* unit, holding the unit's status and the append-only history of the      *)
(* actions applied to it.  Apply is the only way the status moves; the     *)
(* server forgets an entry when the entity or scenario of its unit is      *)
(* deleted (purgeDerivedRefs in internal/server/dims.go).                  *)
(*                                                                         *)
(* A unit that was never touched has no entry and reads as NotStarted.     *)
(* The time stamp and the user of an event are not modelled.               *)
(***************************************************************************)
EXTENDS Naturals, Sequences, WorkflowRules

CONSTANTS Keys,        \* the data units (cube, entity, scenario, month)
          MaxHistory   \* bound: events kept in one history

ASSUME MaxHistoryAssumption == MaxHistory \in Nat

VARIABLE entries       \* Registry.Entries: tracked unit -> its entry

vars == entries

Events   == [action : Actions, from : Statuses, to : Statuses]
Entry    == [status : Statuses, history : Seq(Events)]

-----------------------------------------------------------------------------
\* Get returning an entry whose Status was never set (the zero value).
GetUnset(k) == IF k \in DOMAIN entries
               THEN entries[k]
               ELSE [status |-> "", history |-> <<>>]

\* Get synthesizes a NotStarted entry, with no history, for an untracked unit.
Get(k) == IF k \in DOMAIN entries
          THEN entries[k]
          ELSE [status |-> "NotStarted", history |-> <<>>]

Status(k) == Get(k).status

-----------------------------------------------------------------------------
\* The entry Apply stores: the event is appended before the status moves, so
\* its From is the status the action found.
AppliedStatusFirst(e, a) ==
  [status  |-> Target(a),
   history |-> Append(e.history, [action |-> a, from |-> Target(a), to |-> Target(a)])]

AppliedResetsHistory(e, a) ==
  [status  |-> Target(a),
   history |-> IF a = "reopen" THEN <<>>
               ELSE Append(e.history, [action |-> a, from |-> e.status, to |-> Target(a)])]

Applied(e, a) ==
  [status  |-> Target(a),
   history |-> Append(e.history, [action |-> a, from |-> e.status, to |-> Target(a)])]

Init == entries = [k \in {} |-> [status |-> "NotStarted", history |-> <<>>]]

\* Apply: an illegal action returns an error and leaves the registry alone.
Apply(k, a) ==
  /\ Allowed(Status(k), a)
  /\ Len(Get(k).history) < MaxHistory
  /\ entries' = [j \in DOMAIN entries \cup {k} |->
                   IF j = k THEN Applied(Get(k), a) ELSE entries[j]]

\* The registry part of deleting the entity or scenario of unit k.
Forget(k) ==
  /\ k \in DOMAIN entries
  /\ entries' = [j \in DOMAIN entries \ {k} |-> entries[j]]

Next == \E k \in Keys : \/ \E a \in Actions : Apply(k, a)
                        \/ Forget(k)

Spec == Init /\ [][Next]_vars

-----------------------------------------------------------------------------
(* The registry holds well-formed entries of known units.                  *)
TypeOK == /\ DOMAIN entries \subseteq Keys
          /\ entries \in [DOMAIN entries -> Entry]

(* The audit trail of an entry is one unbroken walk from NotStarted to the *)
(* entry's status: each event starts where the previous one ended.         *)
Chained(e) ==
  /\ e.history # <<>>
  /\ e.history[1].from = "NotStarted"
  /\ \A i \in 1 .. Len(e.history) - 1 : e.history[i].to = e.history[i + 1].from
  /\ e.history[Len(e.history)].to = e.status

(* Registry.Apply and the journal it keeps: the history of every tracked   *)
(* unit explains its present status.                                       *)
HistoryChain == \A k \in DOMAIN entries : Chained(entries[k])

\* The pipeline steps a unit must just have been through to hold a status.
PipelineTo(s) ==
  CASE s = "NotStarted" -> <<>>
    [] s = "Imported"   -> <<"import">>
    [] s = "Validated"  -> <<"import", "validate">>
    [] s = "Processed"  -> <<"import", "validate", "process">>
    [] s = "Certified"  -> <<"import", "validate", "process", "certify">>

EndsWith(h, p) ==
  /\ Len(p) <= Len(h)
  /\ \A i \in 1 .. Len(p) : h[Len(h) - Len(p) + i].action = p[i]

(* Whatever was re-imported, reopened or forgotten before, the last events *)
(* of a certified unit are import, validate, process, certify with nothing *)
(* in between, and likewise for the earlier statuses.                      *)
PipelineEvidence ==
  \A k \in DOMAIN entries : EndsWith(entries[k].history, PipelineTo(entries[k].status))

(* The history of a unit is append-only: a step either drops the whole     *)
(* entry or keeps every recorded event in its place.                       *)
HistoryAppendOnly ==
  [][\A k \in DOMAIN entries \cap DOMAIN entries' :
       /\ Len(entries[k].history) <= Len(entries'[k].history)
       /\ \A i \in 1 .. Len(entries[k].history) :
            entries'[k].history[i] = entries[k].history[i]]_vars
=============================================================================
