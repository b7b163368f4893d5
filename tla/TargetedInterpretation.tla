----------------------- MODULE TargetedInterpretation ------------------------
(***************************************************************************)
(* Evidence R2: TargetedInterpretationService.interpret (evidence/r2) of   *)
(* the artifact of one area, under an operation key that the caller        *)
(* chooses.                                                                *)
(***************************************************************************)
EXTENDS CompaniesHouseCollection

CONSTANTS
  OperationKeys,
  Readings       \* what a provider may make of an artifact

Interpretation == [request : AreaSet, result : Readings]
OperationRow == [request : AreaSet, status : {"in_progress", "completed", "failed"},
                 result : Readings \cup {Nothing}]

ASSUME NoReadingAssumption == Nothing \notin Readings \cup Interpretation \cup OperationRow

VARIABLES
  operation,     \* rows: request, status and result by key
  consulted,     \* provider calls by key
  interpretations  \* completed interpretations that callers were told of

interpretationVars == <<operation, consulted, interpretations>>

InitInterpretation ==
  /\ operation = [k \in OperationKeys |-> Nothing]
  /\ consulted = [k \in OperationKeys |-> 0]
  /\ interpretations = {}

\* Mutant: a failed operation is taken up again.
ClaimFailed(k) == operation[k] # Nothing => operation[k].status = "failed"

\* claimOperation: INSERT ... ON CONFLICT DO NOTHING
Claim(k) == operation[k] = Nothing

SameRequest(k, a) == operation[k].request = a

Told(k, a, r) ==
  interpretations' = interpretations \cup {[key |-> k, request |-> a, result |-> r]}

Interpret(c, k, a) ==
  /\ Called(c)
  /\ a \in DOMAIN artifacts
  /\ UNCHANGED <<collectionVars, consulted>>
  /\ \/ /\ Claim(k)
        /\ operation' = [operation EXCEPT ![k] =
                          [request |-> a, status |-> "in_progress", result |-> Nothing]]
        /\ job' = [job EXCEPT ![c] = [at |-> "interpret", key |-> k, result |-> Nothing]]
        /\ UNCHANGED interpretations
     \/ /\ ~Claim(k)
        /\ IF SameRequest(k, a) /\ operation[k].status = "completed"
           THEN Told(k, a, operation[k].result)
           ELSE UNCHANGED interpretations
        /\ UNCHANGED <<job, operation>>

Then(c, step, r) == Goes(c, [job[c] EXCEPT !.at = step, !.result = r])

\* The interpreter asks the provider, or fails before (integrity, media).
Consult(c) ==
  /\ At(c, "interpret")
  /\ \/ /\ consulted' = [consulted EXCEPT ![job[c].key] = @ + 1]
        /\ \E r \in Readings \cup {Nothing} :
             Then(c, IF r = Nothing THEN "fail" ELSE "complete", r)
     \/ /\ Then(c, "fail", Nothing)
        /\ UNCHANGED consulted
  /\ UNCHANGED <<collectionVars, operation, interpretations>>

\* Mutant: the result is not kept.
SettleStatus(k, status, r) ==
  operation' = [operation EXCEPT ![k] =
                 IF @.status = "in_progress" THEN [@ EXCEPT !.status = status] ELSE @]

\* Mutant: the update is of the row, whatever its status.
SettleAnew(k, status, r) ==
  operation' = [operation EXCEPT ![k] = [@ EXCEPT !.status = status, !.result = r]]

\* Both updates are of a row in progress.
Settle(k, status, r) ==
  operation' = [operation EXCEPT ![k] =
                 IF @.status = "in_progress"
                 THEN [@ EXCEPT !.status = status, !.result = r] ELSE @]

Complete(c) ==
  LET k == job[c].key
  IN /\ At(c, "complete")
     /\ \/ /\ operation[k].status = "in_progress"
           /\ Settle(k, "completed", job[c].result)
           /\ Told(k, operation[k].request, job[c].result)
           /\ Goes(c, NoJob)
        \/ \* No row in progress, no commit, or a reply that is lost.
           /\ \/ Settle(k, "completed", job[c].result)
              \/ UNCHANGED operation
           /\ Then(c, "fail", Nothing)
           /\ UNCHANGED interpretations
     /\ UNCHANGED <<collectionVars, consulted>>

\* Best-effort; the caller is answered that the operation failed.
Fail(c) ==
  /\ At(c, "fail")
  /\ \/ Settle(job[c].key, "failed", Nothing)
     \/ UNCHANGED operation
  /\ Goes(c, NoJob)
  /\ UNCHANGED <<collectionVars, consulted, interpretations>>

InterpretationNext(c) ==
  \/ \E k \in OperationKeys, a \in AreaSet : Interpret(c, k, a)
  \/ Consult(c)
  \/ Complete(c)
  \/ Fail(c)
==============================================================================
