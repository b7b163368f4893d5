------------------------ MODULE MCDecisionApplication ------------------------
(* Small instances of DecisionApplication for TLC.                          *)
EXTENDS DecisionApplication, TLC

Request(es, is, as) == [entities |-> es, identities |-> is, adjudications |-> as]
Identity(p, s, e) == [party |-> p, status |-> s, entity |-> e]
Become(c, s, t) == [claim |-> c, previous |-> s, resulting |-> t]

\* Accept a claim together with an entity for each of its parties.
Accept(c) ==
  Request(HostEntities,
          <<Identity(<<c, "SUBJECT">>, "RESOLVED", CHOOSE e \in HostEntities : TRUE)>> \o
          (IF c[2] \in Relationships
           THEN <<Identity(<<c, "OBJECT">>, "RESOLVED", CHOOSE e \in HostEntities : TRUE)>>
           ELSE <<>>),
          <<Become(c, "CANDIDATE", "OPERATIVE")>>)

\* One identity decision, one adjudication, or several of one claim.
MCRequests ==
  {Accept(c) : c \in ClaimIds}
  \cup {Request({}, <<Identity(p, "RESOLVED", e)>>, <<>>) : p \in Parties, e \in HostEntities}
  \cup {Request({}, <<Identity(<<c, "SUBJECT">>, "UNRESOLVED", NoEntity)>>, <<>>) : c \in ClaimIds}
  \cup {Request({}, <<Identity(<<c, "OBJECT">>, "REJECTED", e)>>, <<>>) :
          c \in ClaimIds, e \in HostEntities}
  \cup {Request({}, <<>>, <<Become(c, s, t)>>) :
          c \in ClaimIds, s \in {"CANDIDATE", "OPERATIVE", "REJECTED"},
          t \in {"OPERATIVE", "REJECTED"}}
  \cup {Request({}, <<>>, <<Become(c, "OPERATIVE", "DISPUTED"), Become(c, "DISPUTED", t)>>) :
          c \in ClaimIds, t \in {"OPERATIVE", "SUPERSEDED"}}

Symmetry == Permutations(Callers)
==============================================================================
