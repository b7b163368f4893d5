--------------------------- MODULE IdvIdentityProofs ---------------------------
(***************************************************************************)
(* Proofs about IdvIdentity, for any number of callers, attributes, calls  *)
(* and faults: its types, that one reference stands, that every access is  *)
(* audited, that answers are backed, that a hold is respected and that a   *)
(* deletion is final.                                                      *)
(***************************************************************************)
EXTENDS IdvIdentity, WellFoundedInduction, TLAPS

\* What a transaction has done by the time it comes to its audit row.
Worked(t) ==
  \/ t.action = "STORE" /\ t.did \subseteq {"inserted"}
  \/ t.action = "READ" /\ t.did = {} /\ t.wrote = {}
  \/ t.action = "RECORD" /\ t.did = {"responded"} /\ t.wrote = {}
  \/ t.action = "DELETE" /\ t.did = {"locked", "erased"} /\ t.wrote = {}
  \/ t.action = "SCHEDULE" /\ t.did = {"locked"} /\ t.wrote = {}

\* What a caller holds before each statement.
Stage(s, t) ==
  /\ s = "idle" => t = NoCall
  /\ s \in {"look", "insert"} => t.action = "STORE" /\ t.did = {} /\ t.wrote = {}
  /\ s = "attributes" => t.action = "STORE" /\ t.did \subseteq {"inserted"}
  /\ s \in {"check", "select", "presented"} =>
       t.action = "READ" /\ t.did = {} /\ t.wrote = {}
  /\ s \in {"recheck", "respond", "answered"} =>
       t.action = "RECORD" /\ t.did = {} /\ t.wrote = {}
  /\ s = "lock" => t.action \in {"DELETE", "SCHEDULE"} /\ t.did = {} /\ t.wrote = {}
  /\ s = "delete" => t.action = "DELETE" /\ t.did = {"locked"} /\ t.wrote = {}
  /\ s = "audit" => Worked(t)
  /\ s = "commit" => "audited" \in t.did /\ Worked([t EXCEPT !.did = @ \ {"audited"}])

\* The reference a caller works under: its own of a record it has inserted, or the
\* committed one.
Refers(s, t) == s \notin {"idle", "look", "insert"} =>
  IF "inserted" \in t.did THEN record.status = "absent" /\ t.reference = t.run
                          ELSE record.status # "absent" /\ t.reference = record.reference

\* What a reader has selected is stored, and what an answerer has recorded too.
Found(s, t) ==
  /\ t.action \in {"READ", "RECORD"} /\ record.status # "DELETED"
  /\ s \in {"recheck", "respond", "audit", "commit", "presented", "answered"}
  => t.items \subseteq Stored

Answered(s, t) == s = "answered" /\ record.status # "DELETED" =>
  \A a \in t.items : [attribute |-> a, run |-> t.run] \in responses

Staged  == \A p \in Procs : Stage(pc[p], tx[p])
Refered == \A p \in Procs : Refers(pc[p], tx[p])
Founded == \A p \in Procs : Found(pc[p], tx[p]) /\ Answered(pc[p], tx[p])

\* The row lock and the insertion belong to one transaction, and the lock to a live
\* record that is not on hold.
Exclusive ==
  /\ \A p, q \in Procs : "inserted" \in tx[p].did /\ "inserted" \in tx[q].did => p = q
  /\ \A p, q \in Procs : "locked" \in tx[p].did /\ "locked" \in tx[q].did => p = q
  /\ \A p \in Procs : "locked" \in tx[p].did =>
       ~record.hold /\ record.status \in {"ACTIVE", "SCHEDULED"}

\* Before the record is committed nobody was told of it.
Unborn == record.status = "absent" => ~record.hold /\ given = {}

Inv == TypeOK /\ Staged /\ Refered /\ Founded /\ Exclusive /\ Unborn
       /\ OneReference /\ AccessAudited /\ AnswersBacked

-----------------------------------------------------------------------------
(* The facts the steps share.                                               *)

\* A nonempty set of attributes has a first one.
LEMMA MinInside ==
  ASSUME NEW S \in SUBSET Attributes, S # {}
  PROVE  Min(S) \in S
<1>1. S \in SUBSET Nat  BY DEF Attributes
<1>2. PICK a \in S : \A b \in S : ~ (<<b, a>> \in OpToRel(<, Nat))
  BY <1>1, WFMin, NatLessThanWellFounded
<1>3. \A b \in S : a <= b
  <2>1. \A b \in S : ~ (b < a)  BY <1>1, <1>2 DEF OpToRel
  <2> QED  BY <1>1, <2>1
<1> QED  BY <1>3 DEF Min

\* What a step of one caller sets, and what it leaves to the others.
LEMMA Moved ==
  ASSUME Inv, NEW p \in Procs, NEW s, NEW t, Goto(p, s, t)
  PROVE  /\ pc'[p] = s /\ tx'[p] = t
         /\ \A q \in Procs \ {p} : pc'[q] = pc[q] /\ tx'[q] = tx[q]
BY DEF Inv, TypeOK, Goto

\* Steps that leave the tables and what was handed out alone preserve the invariant as
\* far as what the caller holds now is accounted for.
LEMMA LocalStep ==
  ASSUME Inv, NEW p \in Procs, NEW s \in Steps, NEW t \in Call, Goto(p, s, t),
         UNCHANGED <<rows, given>>, runs' \in Nat, faults' \in Nat,
         events' \subseteq [kind: {"presented", "answered"}, attribute: Attributes, run: Nat],
         Stage(s, t), Refers(s, t), Found(s, t), Answered(s, t),
         "inserted" \in t.did => ~InsertedByOther(p),
         "locked" \in t.did => /\ ~LockedByOther(p) /\ ~record.hold
                               /\ record.status \in {"ACTIVE", "SCHEDULED"},
         record.status # "DELETED" =>
           \A e \in events' : e \in events \/
             (e.kind = "answered" => [attribute |-> e.attribute, run |-> e.run] \in responses)
  PROVE  Inv'
<1> USE DEF rows
<1>1. /\ pc'[p] = s /\ tx'[p] = t
      /\ \A q \in Procs \ {p} : pc'[q] = pc[q] /\ tx'[q] = tx[q]
  BY Moved
<1>2. TypeOK'
  <2>1. pc' \in [Procs -> Steps] /\ tx' \in [Procs -> Call]
    BY DEF Inv, TypeOK, Goto
  <2> QED  BY <2>1 DEF Inv, TypeOK
<1>3. Staged'  BY <1>1 DEF Inv, Staged
<1>4. Refered'
  <2>1. ASSUME NEW q \in Procs PROVE Refers(pc[q], tx[q])'
    BY <1>1 DEF Inv, Refered, Refers
  <2> QED  BY <2>1 DEF Refered
<1>5. Founded'
  <2>1. ASSUME NEW q \in Procs PROVE (Found(pc[q], tx[q]) /\ Answered(pc[q], tx[q]))'
    BY <1>1 DEF Inv, Founded, Found, Answered, Stored
  <2> QED  BY <2>1 DEF Founded
<1>6. Exclusive'  BY <1>1 DEF Inv, Exclusive, InsertedByOther, LockedByOther
<1>7. Unborn' /\ OneReference' /\ AccessAudited'
  BY DEF Inv, Unborn, OneReference, AccessAudited
<1>8. AnswersBacked'  BY DEF Inv, AnswersBacked, Stored
<1> QED  BY <1>2, <1>3, <1>4, <1>5, <1>6, <1>7, <1>8 DEF Inv

\* A call that ends without a trace leaves the invariant as it was.
LEMMA ReturnStep ==
  ASSUME Inv, NEW p \in Procs, Return(p), UNCHANGED <<rows, events, given>>,
         runs' \in Nat, faults' \in Nat
  PROVE  Inv'
<1>1. NoCall \in Call /\ "idle" \in Steps
  BY DEF NoCall, Call, Kinds, Actions, Marks, Attributes, Steps
<1>2. /\ Stage("idle", NoCall) /\ Refers("idle", NoCall)
      /\ Found("idle", NoCall) /\ Answered("idle", NoCall)
  BY DEF Stage, Refers, Found, Answered, NoCall
<1>3. NoCall.did = {}  BY DEF NoCall
<1>4. events' \subseteq [kind: {"presented", "answered"}, attribute: Attributes, run: Nat]
  BY DEF Inv, TypeOK
<1> QED  BY <1>1, <1>2, <1>3, <1>4, LocalStep DEF Return

\* What the invariant says of one caller.
LEMMA Caller ==
  ASSUME Inv, NEW p \in Procs
  PROVE  /\ tx[p] \in Call /\ pc[p] \in Steps /\ runs \in Nat /\ faults \in Nat
         /\ Stage(pc[p], tx[p]) /\ Refers(pc[p], tx[p])
         /\ Found(pc[p], tx[p]) /\ Answered(pc[p], tx[p])
         /\ "inserted" \in tx[p].did => ~InsertedByOther(p)
         /\ "locked" \in tx[p].did => /\ ~LockedByOther(p) /\ ~record.hold
                                      /\ record.status \in {"ACTIVE", "SCHEDULED"}
<1>1. /\ tx[p] \in Call /\ pc[p] \in Steps /\ runs \in Nat /\ faults \in Nat
  BY DEF Inv, TypeOK
<1>2. /\ Stage(pc[p], tx[p]) /\ Refers(pc[p], tx[p])
      /\ Found(pc[p], tx[p]) /\ Answered(pc[p], tx[p])
  BY DEF Inv, Staged, Refered, Founded
<1>3. /\ "inserted" \in tx[p].did => ~InsertedByOther(p)
      /\ "locked" \in tx[p].did => /\ ~LockedByOther(p) /\ ~record.hold
                                   /\ record.status \in {"ACTIVE", "SCHEDULED"}
  BY DEF Inv, Exclusive, InsertedByOther, LockedByOther
<1> QED  BY <1>1, <1>2, <1>3

\* A step within a transaction: only the caller's own state changes.
LEMMA InnerStep ==
  ASSUME Inv, NEW p \in Procs, NEW s \in Steps, NEW t \in Call, Goto(p, s, t),
         UNCHANGED <<rows, events, given, faults>>, runs' \in Nat,
         Stage(s, t), Refers(s, t), Found(s, t), s # "answered",
         "inserted" \in t.did => ~InsertedByOther(p),
         "locked" \in t.did => /\ ~LockedByOther(p) /\ ~record.hold
                               /\ record.status \in {"ACTIVE", "SCHEDULED"}
  PROVE  Inv'
<1>1. events' \subseteq [kind: {"presented", "answered"}, attribute: Attributes, run: Nat]
  BY DEF Inv, TypeOK
<1>2. Answered(s, t)  BY DEF Answered
<1>3. faults' \in Nat  BY DEF Inv, TypeOK
<1> QED  BY <1>1, <1>2, <1>3, LocalStep

-----------------------------------------------------------------------------
(* The steps of a transaction.                                              *)

LEMMA BeginKeeps == ASSUME Inv, NEW p \in Procs, Begin(p) PROVE Inv'
<1>1. PICK kind \in Kinds, items \in SUBSET Attributes :
        LET call(action, reference) ==
              [NoCall EXCEPT !.run = runs + 1, !.kind = kind, !.action = action,
                             !.items = items, !.reference = reference]
        IN \/ kind = "extract" /\ Goto(p, "look", call("STORE", 0))
           \/ \E g \in given :
                \/ kind \in {"present", "answer"} /\ Goto(p, "check", call("READ", g.reference))
                \/ kind = "erase" /\ Goto(p, "lock", call("DELETE", g.reference))
                \/ kind = "schedule" /\ Goto(p, "lock", call("SCHEDULE", g.reference))
  BY DEF Begin
<1> DEFINE call(action, reference) ==
             [NoCall EXCEPT !.run = runs + 1, !.kind = kind, !.action = action,
                            !.items = items, !.reference = reference]
<1>2. runs' \in Nat /\ runs + 1 \in Nat /\ UNCHANGED <<rows, events, given, faults>>
  <2>1. runs' = runs + 1 /\ UNCHANGED <<rows, events, given, faults>>  BY DEF Begin
  <2>2. runs \in Nat  BY Caller
  <2> QED  BY <2>1, <2>2
<1>3. ASSUME NEW action \in Actions, NEW r \in Nat
      PROVE  /\ call(action, r) \in Call /\ call(action, r).action = action
             /\ call(action, r).did = {} /\ call(action, r).wrote = {}
             /\ call(action, r).reference = r
  BY <1>2, <1>3 DEF Call, NoCall
<1>4. CASE kind = "extract" /\ Goto(p, "look", call("STORE", 0))
  <2>1. "STORE" \in Actions /\ "look" \in Steps /\ 0 \in Nat  BY DEF Actions, Steps
  <2>2. /\ Stage("look", call("STORE", 0)) /\ Refers("look", call("STORE", 0))
        /\ Found("look", call("STORE", 0))
    BY <1>3, <2>1 DEF Stage, Refers, Found
  <2> QED  BY <1>2, <1>3, <1>4, <2>1, <2>2, InnerStep
<1>5. CASE \E g \in given :
             \/ kind \in {"present", "answer"} /\ Goto(p, "check", call("READ", g.reference))
             \/ kind = "erase" /\ Goto(p, "lock", call("DELETE", g.reference))
             \/ kind = "schedule" /\ Goto(p, "lock", call("SCHEDULE", g.reference))
  <2>1. PICK g \in given :
             \/ Goto(p, "check", call("READ", g.reference))
             \/ Goto(p, "lock", call("DELETE", g.reference))
             \/ Goto(p, "lock", call("SCHEDULE", g.reference))
    BY <1>5
  <2>2. g.reference \in Nat /\ g.reference = record.reference /\ record.status # "absent"
    BY DEF Inv, TypeOK, OneReference, Unborn
  <2>3. ASSUME NEW s, NEW action \in Actions,
               \/ s = "check" /\ action = "READ"
               \/ s = "lock" /\ action \in {"DELETE", "SCHEDULE"},
               Goto(p, s, call(action, g.reference))
        PROVE  Inv'
    <3> HIDE DEF call
    <3> DEFINE t == call(action, g.reference)
    <3>1. s \in Steps  BY <2>3 DEF Steps
    <3>2. /\ t \in Call /\ t.action = action /\ t.did = {} /\ t.wrote = {}
          /\ t.reference = record.reference
      BY <1>3, <2>2
    <3>3. Goto(p, s, t)  BY <2>3
    <3> HIDE DEF t
    <3>4. Stage(s, t) /\ Refers(s, t) /\ Found(s, t)
      BY <2>2, <2>3, <3>2 DEF Stage, Refers, Found
    <3> QED  BY <1>2, <2>3, <3>1, <3>2, <3>3, <3>4, InnerStep
  <2> QED  BY <2>1, <2>3 DEF Actions
<1> QED  BY <1>1, <1>4, <1>5

LEMMA LookKeeps == ASSUME Inv, NEW p \in Procs, Look(p) PROVE Inv'
<1>1. /\ pc[p] = "look" /\ UNCHANGED <<rows, events, given, faults>>
      /\ runs' \in Nat /\ faults' \in Nat
  BY DEF Look, Inv, TypeOK
<1>2. tx[p] \in Call /\ tx[p].action = "STORE" /\ tx[p].did = {} /\ tx[p].wrote = {}
  BY <1>1, Caller DEF Stage
<1>3. {"insert", "attributes"} \subseteq Steps /\ record.reference \in Nat
  BY DEF Steps, Inv, TypeOK, Record
<1>4. CASE Return(p)  BY <1>1, <1>4, ReturnStep
<1>5. CASE Goto(p, "insert", tx[p])
  <2>1. Stage("insert", tx[p]) /\ Refers("insert", tx[p]) /\ Found("insert", tx[p])
    BY <1>2 DEF Stage, Refers, Found
  <2> QED  BY <1>1, <1>2, <1>3, <1>5, <2>1, InnerStep
<1>6. CASE /\ record.status \in {"ACTIVE", "SCHEDULED"}
           /\ Goto(p, "attributes", [tx[p] EXCEPT !.reference = record.reference])
  <2> DEFINE t == [tx[p] EXCEPT !.reference = record.reference]
  <2>1. /\ t \in Call /\ t.action = "STORE" /\ t.did = {} /\ t.reference = record.reference
    BY <1>2, <1>3 DEF Call
  <2>2. Stage("attributes", t) /\ Refers("attributes", t) /\ Found("attributes", t)
    BY <1>6, <2>1 DEF Stage, Refers, Found
  <2> QED  BY <1>1, <1>3, <1>6, <2>1, <2>2, InnerStep
<1> QED  BY <1>4, <1>5, <1>6 DEF Look

LEMMA InsertKeeps == ASSUME Inv, NEW p \in Procs, Insert(p) PROVE Inv'
<1>1. /\ pc[p] = "insert" /\ ~InsertedByOther(p)
      /\ UNCHANGED <<rows, events, given, faults>> /\ runs' \in Nat
  BY DEF Insert, Inv, TypeOK
<1>2. tx[p] \in Call /\ tx[p].action = "STORE" /\ tx[p].did = {} /\ tx[p].wrote = {}
  BY <1>1, Caller DEF Stage
<1>3. "attributes" \in Steps /\ record.reference \in Nat
  BY DEF Steps, Inv, TypeOK, Record
<1>4. CASE /\ record.status = "absent"
           /\ Goto(p, "attributes", [Did(p, "inserted") EXCEPT !.reference = tx[p].run])
  <2> DEFINE t == [Did(p, "inserted") EXCEPT !.reference = tx[p].run]
  <2>1. /\ t \in Call /\ t.action = "STORE" /\ t.did = {"inserted"}
        /\ t.reference = t.run
    BY <1>2 DEF Call, Did, Marks
  <2>2. Stage("attributes", t) /\ Refers("attributes", t) /\ Found("attributes", t)
    BY <1>4, <2>1 DEF Stage, Refers, Found
  <2>3. "locked" \notin t.did  BY <2>1
  <2> HIDE DEF t
  <2> QED  BY <1>1, <1>3, <1>4, <2>1, <2>2, <2>3, InnerStep DEF t
<1>5. CASE /\ record.status # "absent"
           /\ Goto(p, "attributes", [tx[p] EXCEPT !.reference = record.reference])
  <2> DEFINE t == [tx[p] EXCEPT !.reference = record.reference]
  <2>1. /\ t \in Call /\ t.action = "STORE" /\ t.did = {} /\ t.reference = record.reference
    BY <1>2, <1>3 DEF Call
  <2>2. Stage("attributes", t) /\ Refers("attributes", t) /\ Found("attributes", t)
    BY <1>5, <2>1 DEF Stage, Refers, Found
  <2> QED  BY <1>1, <1>3, <1>5, <2>1, <2>2, InnerStep
<1> QED  BY <1>4, <1>5 DEF Insert

LEMMA WriteAttributeKeeps == ASSUME Inv, NEW p \in Procs, WriteAttribute(p) PROVE Inv'
<1> DEFINE a    == Min(tx[p].items)
           rest == [tx[p] EXCEPT !.items = @ \ {a}]
           more == [rest EXCEPT !.wrote = @ \cup {a}]
<1>1. /\ pc[p] = "attributes" /\ tx[p].items # {}
      /\ UNCHANGED <<rows, events, given, faults>> /\ runs' \in Nat
      /\ Goto(p, "attributes", rest) \/ Goto(p, "attributes", more)
  BY DEF WriteAttribute, Inv, TypeOK
<1>2. /\ tx[p] \in Call /\ tx[p].action = "STORE" /\ tx[p].did \subseteq {"inserted"}
      /\ Refers("attributes", tx[p]) /\ ("inserted" \in tx[p].did => ~InsertedByOther(p))
  BY <1>1, Caller DEF Stage
<1>3. a \in Attributes  BY <1>1, <1>2, MinInside DEF Call
<1>4. ASSUME NEW t \in {rest, more} PROVE
        /\ t \in Call /\ t.action = "STORE" /\ t.did = tx[p].did
        /\ t.reference = tx[p].reference /\ t.run = tx[p].run
  <2>1. rest \in Call /\ rest.action = "STORE" /\ rest.did = tx[p].did
        /\ rest.reference = tx[p].reference /\ rest.run = tx[p].run
    BY <1>2 DEF Call
  <2> HIDE DEF rest
  <2>2. more \in Call /\ more.action = "STORE" /\ more.did = tx[p].did
        /\ more.reference = tx[p].reference /\ more.run = tx[p].run
    BY <1>3, <2>1 DEF Call
  <2> QED  BY <2>1, <2>2
<1> HIDE DEF rest, more
<1>5. PICK t \in {rest, more} : Goto(p, "attributes", t)  BY <1>1
<1>6. Stage("attributes", t) /\ Refers("attributes", t) /\ Found("attributes", t)
  BY <1>2, <1>4 DEF Stage, Refers, Found
<1>7. "attributes" \in Steps  BY DEF Steps
<1> QED  BY <1>1, <1>2, <1>4, <1>5, <1>6, <1>7, InnerStep

\* The steps that go on with what the caller holds.
LEMMA PassingKeeps ==
  ASSUME Inv, NEW p \in Procs, AttributesDone(p) \/ Check(p) \/ Select(p) \/ Recheck(p)
  PROVE  Inv'
<1>1. UNCHANGED <<rows, events, given, faults>> /\ runs' \in Nat /\ faults' \in Nat
  BY DEF AttributesDone, Check, Select, Recheck, Inv, TypeOK
<1>2. /\ tx[p] \in Call /\ Stage(pc[p], tx[p]) /\ Refers(pc[p], tx[p])
      /\ "inserted" \in tx[p].did => ~InsertedByOther(p)
  BY Caller
<1>3. {"audit", "select", "respond"} \subseteq Steps  BY DEF Steps
<1>4. CASE Return(p)  BY <1>1, <1>4, ReturnStep
<1>5. CASE AttributesDone(p)
  <2>1. pc[p] = "attributes" /\ Goto(p, "audit", tx[p])  BY <1>5 DEF AttributesDone
  <2>2. tx[p].action = "STORE" /\ tx[p].did \subseteq {"inserted"}  BY <1>2, <2>1 DEF Stage
  <2>3. Stage("audit", tx[p]) /\ Refers("audit", tx[p]) /\ Found("audit", tx[p])
    BY <1>2, <2>1, <2>2 DEF Stage, Worked, Refers, Found
  <2> QED  BY <1>1, <1>2, <1>3, <2>1, <2>2, <2>3, InnerStep
<1>6. CASE Check(p) /\ Goto(p, "select", tx[p])
  <2>1. pc[p] = "check"  BY <1>6 DEF Check
  <2>2. tx[p].action = "READ" /\ tx[p].did = {} /\ tx[p].wrote = {}  BY <1>2, <2>1 DEF Stage
  <2>3. Stage("select", tx[p]) /\ Refers("select", tx[p]) /\ Found("select", tx[p])
    BY <1>2, <2>1, <2>2 DEF Stage, Refers, Found
  <2> QED  BY <1>1, <1>2, <1>3, <1>6, <2>2, <2>3, InnerStep
<1>7. CASE Select(p)
  <2> DEFINE t == [tx[p] EXCEPT !.items = @ \cap Stored]
  <2>1. pc[p] = "select" /\ Goto(p, "audit", t)  BY <1>7 DEF Select
  <2>2. tx[p].action = "READ" /\ tx[p].did = {} /\ tx[p].wrote = {}  BY <1>2, <2>1 DEF Stage
  <2>3. /\ t \in Call /\ t.action = "READ" /\ t.did = {} /\ t.wrote = {}
        /\ t.reference = tx[p].reference /\ t.items \subseteq Stored
    BY <1>2, <2>2 DEF Call
  <2> HIDE DEF t
  <2>4. Stage("audit", t) /\ Refers("audit", t) /\ Found("audit", t)
    BY <1>2, <2>1, <2>2, <2>3 DEF Stage, Worked, Refers, Found
  <2> QED  BY <1>1, <1>3, <2>1, <2>3, <2>4, InnerStep
<1>8. CASE Recheck(p) /\ Goto(p, "respond", tx[p])
  <2>1. pc[p] = "recheck"  BY <1>8 DEF Recheck
  <2>2. tx[p].action = "RECORD" /\ tx[p].did = {} /\ tx[p].wrote = {}  BY <1>2, <2>1 DEF Stage
  <2>3. Found("recheck", tx[p])  BY <2>1, Caller
  <2>4. Stage("respond", tx[p]) /\ Refers("respond", tx[p]) /\ Found("respond", tx[p])
    BY <1>2, <2>1, <2>2, <2>3 DEF Stage, Refers, Found
  <2> QED  BY <1>1, <1>2, <1>3, <1>8, <2>2, <2>4, InnerStep
<1> QED  BY <1>4, <1>5, <1>6, <1>7, <1>8 DEF Check, Recheck

LEMMA RespondKeeps == ASSUME Inv, NEW p \in Procs, Respond(p) PROVE Inv'
<1> DEFINE t == Did(p, "responded")
<1>1. /\ pc[p] = "respond" /\ Goto(p, "audit", t) /\ "audit" \in Steps
      /\ UNCHANGED <<rows, events, given, faults>> /\ runs' \in Nat
  BY DEF Respond, Inv, TypeOK, Steps
<1>2. /\ tx[p] \in Call /\ tx[p].action = "RECORD" /\ tx[p].did = {} /\ tx[p].wrote = {}
      /\ Refers("respond", tx[p]) /\ Found("respond", tx[p])
  BY <1>1, Caller DEF Stage
<1>3. /\ t \in Call /\ t.action = "RECORD" /\ t.did = {"responded"} /\ t.wrote = {}
      /\ t.reference = tx[p].reference /\ t.items = tx[p].items
  BY <1>2 DEF Call, Did, Marks
<1> HIDE DEF t
<1>4. Stage("audit", t) /\ Refers("audit", t) /\ Found("audit", t)
  BY <1>2, <1>3 DEF Stage, Worked, Refers, Found
<1> QED  BY <1>1, <1>3, <1>4, InnerStep

\* The lock is taken of a record that is live and not on hold, by nobody else.
LEMMA LockKeeps == ASSUME Inv, NEW p \in Procs, Lock(p) PROVE Inv'
<1> DEFINE t == Did(p, "locked")
<1>1. /\ pc[p] = "lock" /\ ~LockedByOther(p)
      /\ UNCHANGED <<rows, events, given, faults>> /\ runs' \in Nat /\ faults' \in Nat
  BY DEF Lock, Inv, TypeOK
<1>2. CASE Return(p)  BY <1>1, <1>2, ReturnStep
<1>3. CASE /\ ~record.hold /\ record.status # "DELETED"
           /\ Goto(p, IF tx[p].action = "DELETE" THEN "delete" ELSE "audit", t)
  <2>1. /\ tx[p] \in Call /\ tx[p].action \in {"DELETE", "SCHEDULE"} /\ tx[p].did = {}
        /\ tx[p].wrote = {} /\ Refers("lock", tx[p])
    BY <1>1, Caller DEF Stage
  <2>2. /\ t \in Call /\ t.action = tx[p].action /\ t.did = {"locked"} /\ t.wrote = {}
        /\ t.reference = tx[p].reference
    BY <2>1 DEF Call, Did, Marks
  <2> HIDE DEF t
  <2>3. PICK s \in {"delete", "audit"} :
          (s = "delete" <=> tx[p].action = "DELETE") /\ Goto(p, s, t)
    BY <1>3
  <2>4. s \in Steps  BY DEF Steps
  <2>5. Stage(s, t) /\ Refers(s, t) /\ Found(s, t)
    BY <2>1, <2>2, <2>3 DEF Stage, Worked, Refers, Found
  <2>6. record.status \in {"ACTIVE", "SCHEDULED"}
    BY <1>3, <2>1 DEF Refers, Inv, TypeOK, Record
  <2> QED  BY <1>1, <1>3, <2>2, <2>3, <2>4, <2>5, <2>6, InnerStep
<1> QED  BY <1>2, <1>3 DEF Lock

LEMMA EraseKeeps == ASSUME Inv, NEW p \in Procs, Erase(p) PROVE Inv'
<1> DEFINE t == Did(p, "erased")
<1>1. /\ pc[p] = "delete" /\ Goto(p, "audit", t) /\ "audit" \in Steps
      /\ UNCHANGED <<rows, events, given, faults>> /\ runs' \in Nat
  BY DEF Erase, Inv, TypeOK, Steps
<1>2. /\ tx[p] \in Call /\ tx[p].action = "DELETE" /\ tx[p].did = {"locked"}
      /\ tx[p].wrote = {} /\ Refers("delete", tx[p])
      /\ ~LockedByOther(p) /\ ~record.hold /\ record.status \in {"ACTIVE", "SCHEDULED"}
  BY <1>1, Caller DEF Stage
<1>3. /\ t \in Call /\ t.action = "DELETE" /\ t.did = {"locked", "erased"} /\ t.wrote = {}
      /\ t.reference = tx[p].reference
  BY <1>2 DEF Call, Did, Marks
<1> HIDE DEF t
<1>4. Stage("audit", t) /\ Refers("audit", t) /\ Found("audit", t)
  BY <1>2, <1>3 DEF Stage, Worked, Refers, Found
<1> QED  BY <1>1, <1>2, <1>3, <1>4, InnerStep

LEMMA AuditKeeps == ASSUME Inv, NEW p \in Procs, Audit(p) PROVE Inv'
<1> DEFINE t == Did(p, "audited")
<1>1. /\ pc[p] = "audit" /\ Goto(p, "commit", t) /\ "commit" \in Steps
      /\ UNCHANGED <<rows, events, given, faults>> /\ runs' \in Nat
  BY DEF Audit, Inv, TypeOK, Steps
<1>2. /\ tx[p] \in Call /\ Worked(tx[p])
      /\ Refers("audit", tx[p]) /\ Found("audit", tx[p])
      /\ "inserted" \in tx[p].did => ~InsertedByOther(p)
      /\ "locked" \in tx[p].did => /\ ~LockedByOther(p) /\ ~record.hold
                                   /\ record.status \in {"ACTIVE", "SCHEDULED"}
  BY <1>1, Caller DEF Stage
<1>3. t \in Call /\ t = [tx[p] EXCEPT !.did = @ \cup {"audited"}]
  BY <1>2 DEF Call, Did, Marks
<1>4. "audited" \notin tx[p].did  BY <1>2 DEF Worked
<1>5. /\ t.did = tx[p].did \cup {"audited"} /\ t.action = tx[p].action
      /\ t.wrote = tx[p].wrote /\ t.items = tx[p].items /\ t.run = tx[p].run
      /\ t.reference = tx[p].reference /\ [t EXCEPT !.did = @ \ {"audited"}] = tx[p]
  BY <1>2, <1>3, <1>4 DEF Call
<1> HIDE DEF t
<1>6. Stage("commit", t) /\ Refers("commit", t) /\ Found("commit", t)
  BY <1>2, <1>5 DEF Stage, Refers, Found
<1> QED  BY <1>1, <1>2, <1>3, <1>5, <1>6, InnerStep

-----------------------------------------------------------------------------
(* COMMIT                                                                   *)

\* What a transaction about to commit has done.
LEMMA Ready ==
  ASSUME Inv, NEW p \in Procs, pc[p] = "commit"
  PROVE  /\ tx[p] \in Call /\ Marked(p, "audited")
         /\ Marked(p, "inserted") =>
              /\ tx[p].action = "STORE" /\ record.status = "absent"
              /\ tx[p].reference = tx[p].run /\ ~InsertedByOther(p)
         /\ ~Marked(p, "inserted") =>
              record.status # "absent" /\ tx[p].reference = record.reference
         /\ Marked(p, "locked") <=> tx[p].action \in {"DELETE", "SCHEDULE"}
         /\ Marked(p, "locked") =>
              /\ ~LockedByOther(p) /\ ~record.hold
              /\ record.status \in {"ACTIVE", "SCHEDULED"}
         /\ Marked(p, "erased") <=> tx[p].action = "DELETE"
         /\ Marked(p, "responded") <=> tx[p].action = "RECORD"
         /\ tx[p].action # "STORE" => tx[p].wrote = {}
<1> DEFINE t == [tx[p] EXCEPT !.did = @ \ {"audited"}]
<1>1. /\ tx[p] \in Call /\ "audited" \in tx[p].did /\ Worked(t) /\ Refers("commit", tx[p])
      /\ "inserted" \in tx[p].did => ~InsertedByOther(p)
      /\ "locked" \in tx[p].did => /\ ~LockedByOther(p) /\ ~record.hold
                                   /\ record.status \in {"ACTIVE", "SCHEDULED"}
  BY Caller DEF Stage
<1>2. t.did = tx[p].did \ {"audited"} /\ t.action = tx[p].action /\ t.wrote = tx[p].wrote
  BY <1>1 DEF Call
<1> HIDE DEF t
<1>3. /\ "inserted" \in tx[p].did => tx[p].action = "STORE"
      /\ "locked" \in tx[p].did <=> tx[p].action \in {"DELETE", "SCHEDULE"}
      /\ "erased" \in tx[p].did <=> tx[p].action = "DELETE"
      /\ "responded" \in tx[p].did <=> tx[p].action = "RECORD"
      /\ tx[p].action # "STORE" => tx[p].wrote = {}
  BY <1>1, <1>2 DEF Worked
<1>4. /\ "inserted" \in tx[p].did => record.status = "absent" /\ tx[p].reference = tx[p].run
      /\ "inserted" \notin tx[p].did =>
           record.status # "absent" /\ tx[p].reference = record.reference
  BY <1>1 DEF Refers
<1> QED  BY <1>1, <1>3, <1>4 DEF Marked

\* The record a COMMIT leaves.
LEMMA RecordCommitted ==
  ASSUME Inv, NEW p \in Procs, pc[p] = "commit", Apply(p)
  PROVE  /\ record' \in Record /\ record'.status # "absent" /\ record'.hold = record.hold
         /\ record'.reference = tx[p].reference
         /\ ~Marked(p, "inserted") => record'.reference = record.reference
         /\ record.status = "DELETED" => record'.status = "DELETED"
         /\ record'.status = "DELETED" => record.status = "DELETED" \/ Marked(p, "erased")
         /\ Marked(p, "erased") => record'.status = "DELETED"
         /\ record.hold => record'.status = record.status
         /\ \A q \in Procs \ {p} : "locked" \in tx[q].did => record' = record
<1>1. record' = [record EXCEPT
        !.status = IF Marked(p, "inserted") THEN "ACTIVE"
                   ELSE IF Marked(p, "erased") THEN "DELETED"
                   ELSE IF tx[p].action = "SCHEDULE" THEN "SCHEDULED" ELSE @,
        !.reference = IF Marked(p, "inserted") THEN tx[p].run ELSE @]
  BY DEF Apply
<1>2. record \in Record /\ (record.status = "absent" => ~record.hold)
  BY DEF Inv, TypeOK, Unborn
<1>3. record' \in Record
  <2>1. tx[p].run \in Nat  BY Ready DEF Call
  <2> QED  BY <1>1, <1>2, <2>1 DEF Record
<1>4. /\ record'.hold = record.hold
      /\ record'.reference = IF Marked(p, "inserted") THEN tx[p].run ELSE record.reference
      /\ record'.status = IF Marked(p, "inserted") THEN "ACTIVE"
                          ELSE IF Marked(p, "erased") THEN "DELETED"
                          ELSE IF tx[p].action = "SCHEDULE" THEN "SCHEDULED"
                          ELSE record.status
  BY <1>1, <1>2 DEF Record
<1>5. ASSUME NEW q \in Procs \ {p}, "locked" \in tx[q].did PROVE record' = record
  <2>1. /\ ~Marked(p, "locked") /\ record.status # "absent"
    BY <1>5 DEF Inv, Exclusive, Marked
  <2>2. /\ ~Marked(p, "inserted") /\ ~Marked(p, "erased") /\ tx[p].action # "SCHEDULE"
    BY <2>1, Ready
  <2> QED  BY <1>1, <1>2, <2>2 DEF Record
<1> QED  BY <1>2, <1>3, <1>4, <1>5, Ready

\* What a COMMIT does to the other tables.
LEMMA TablesCommitted ==
  ASSUME Inv, NEW p \in Procs, pc[p] = "commit", Apply(p)
  PROVE  /\ attributes' \subseteq Row /\ responses' \subseteq Row
         /\ audit' \subseteq [run: Nat, action: Actions] /\ audit \subseteq audit'
         /\ [run |-> tx[p].run, action |-> tx[p].action] \in audit'
         /\ ~Marked(p, "erased") => attributes \subseteq attributes' /\ responses \subseteq responses'
         /\ \A r \in attributes' : r \in attributes \/ (r.run = tx[p].run /\ tx[p].action = "STORE")
         /\ \A r \in responses' : r \in responses \/
              /\ r.run = tx[p].run /\ tx[p].action = "RECORD" /\ r.attribute \in tx[p].items
         /\ tx[p].action = "RECORD" =>
              \A a \in tx[p].items : [attribute |-> a, run |-> tx[p].run] \in responses'
<1>1. /\ tx[p].run \in Nat /\ tx[p].action \in Actions /\ tx[p].items \subseteq Attributes
      /\ tx[p].wrote \subseteq Attributes
  BY Ready DEF Call
<1>2. /\ attributes \subseteq Row /\ responses \subseteq Row
      /\ audit \subseteq [run: Nat, action: Actions]
  BY DEF Inv, TypeOK
<1>3. /\ audit' = audit \cup {[run |-> tx[p].run, action |-> tx[p].action]}
      /\ attributes' = IF Marked(p, "erased") THEN {} ELSE attributes \cup Rows(p)
      /\ responses' = IF Marked(p, "erased") THEN {}
                      ELSE IF tx[p].action = "RECORD"
                      THEN responses \cup [attribute: tx[p].items, run: {tx[p].run}]
                      ELSE responses
  BY Ready DEF Apply
<1>4. Rows(p) \subseteq Row /\ \A r \in Rows(p) : r.run = tx[p].run /\ tx[p].action = "STORE"
  BY <1>1, Ready DEF Rows, Row
<1>5. [attribute: tx[p].items, run: {tx[p].run}] \subseteq Row
  BY <1>1 DEF Row
<1>6. attributes' \subseteq Row /\ responses' \subseteq Row
  BY <1>2, <1>3, <1>4, <1>5
<1>7. /\ audit' \subseteq [run: Nat, action: Actions] /\ audit \subseteq audit'
      /\ [run |-> tx[p].run, action |-> tx[p].action] \in audit'
  BY <1>1, <1>2, <1>3
<1>8. /\ \A r \in attributes' : r \in attributes \/ (r.run = tx[p].run /\ tx[p].action = "STORE")
      /\ ~Marked(p, "erased") => attributes \subseteq attributes' /\ responses \subseteq responses'
  BY <1>3, <1>4
<1>9. \A r \in responses' : r \in responses \/
        /\ r.run = tx[p].run /\ tx[p].action = "RECORD" /\ r.attribute \in tx[p].items
  BY <1>3
<1>10. ASSUME tx[p].action = "RECORD", NEW a \in tx[p].items
       PROVE  [attribute |-> a, run |-> tx[p].run] \in responses'
  <2>1. ~Marked(p, "erased")  BY <1>10, Ready
  <2> QED  BY <1>3, <1>10, <2>1
<1> QED  BY <1>6, <1>7, <1>8, <1>9, <1>10

\* Where a caller may go when its transaction is committed.
Continues(p, s, t) ==
  \/ s = "idle" /\ t = NoCall
  \/ /\ s \in {"presented", "recheck", "answered"} /\ tx[p].action \in {"READ", "RECORD"}
     /\ t \in Call /\ t.did = {} /\ t.wrote = {}
     /\ t.run = tx[p].run /\ t.items = tx[p].items /\ t.reference = tx[p].reference
     /\ t.action = IF s = "presented" THEN "READ" ELSE "RECORD"
     /\ s = "answered" => tx[p].action = "RECORD"

\* A COMMIT preserves the invariant, whether or not its caller learns of it.
LEMMA CommitStep ==
  ASSUME Inv, NEW p \in Procs, pc[p] = "commit", Apply(p), UNCHANGED events,
         NEW s, NEW t, Goto(p, s, t), Continues(p, s, t),
         runs' \in Nat, faults' \in Nat,
         given' \subseteq given \cup {[run |-> tx[p].run, action |-> tx[p].action,
                                       reference |-> tx[p].reference]}
  PROVE  Inv'
<1>1. /\ tx[p] \in Call /\ Found("commit", tx[p])
      /\ \A q \in Procs : Stage(pc[q], tx[q]) /\ Refers(pc[q], tx[q])
                          /\ Found(pc[q], tx[q]) /\ Answered(pc[q], tx[q])
  BY Caller
<1>2. /\ pc'[p] = s /\ tx'[p] = t
      /\ \A q \in Procs \ {p} : pc'[q] = pc[q] /\ tx'[q] = tx[q]
  BY Moved
<1>3. s \in Steps /\ t \in Call /\ Stage(s, t) /\ t.did = {}
  BY <1>1 DEF Continues, Stage, NoCall, Call, Steps, Kinds, Actions
<1>4. record'.status # "DELETED" =>
        /\ record.status # "DELETED" /\ attributes \subseteq attributes'
        /\ responses \subseteq responses'
  BY RecordCommitted, TablesCommitted
<1>5. TypeOK'
  <2>1. pc' \in [Procs -> Steps] /\ tx' \in [Procs -> Call]
    BY <1>3 DEF Inv, TypeOK, Goto
  <2>2. given' \subseteq [run: Nat, action: Actions, reference: Nat]
    <3>1. [run |-> tx[p].run, action |-> tx[p].action, reference |-> tx[p].reference]
            \in [run: Nat, action: Actions, reference: Nat]
      BY <1>1 DEF Call
    <3> QED  BY <3>1 DEF Inv, TypeOK
  <2>3. /\ record' \in Record /\ attributes' \subseteq Row /\ responses' \subseteq Row
        /\ audit' \subseteq [run: Nat, action: Actions]
    BY RecordCommitted, TablesCommitted
  <2>4. events' \subseteq [kind: {"presented", "answered"}, attribute: Attributes, run: Nat]
    BY DEF Inv, TypeOK
  <2> QED  BY <2>1, <2>2, <2>3, <2>4 DEF TypeOK
<1>6. Staged'  BY <1>1, <1>2, <1>3 DEF Staged
<1>7. Refered'
  <2>1. Refers(s, t)'
    BY <1>3, RecordCommitted DEF Continues, Refers
  <2>2. ASSUME NEW q \in Procs \ {p} PROVE Refers(pc[q], tx[q])'
    <3>1. CASE pc[q] \in {"idle", "look", "insert"}
      BY <1>2, <3>1 DEF Refers
    <3>2. CASE pc[q] \notin {"idle", "look", "insert"}
      <4>1. ~Marked(p, "inserted") /\ "inserted" \notin tx[q].did
        BY <1>1, <3>2, Ready DEF Refers, InsertedByOther
      <4>2. record'.reference = record.reference /\ record'.status # "absent"
        BY <4>1, RecordCommitted
      <4> QED  BY <1>1, <1>2, <3>2, <4>1, <4>2 DEF Refers
    <3> QED  BY <3>1, <3>2
  <2> QED  BY <1>2, <2>1, <2>2 DEF Refered
<1>8. Founded'
  <2>1. Found(s, t)'
    <3>1. ASSUME s # "idle", record'.status # "DELETED" PROVE tx[p].items \subseteq Stored'
      BY <1>1, <1>4, <3>1 DEF Continues, Found, Stored
    <3> QED  BY <3>1 DEF Continues, Found
  <2>2. Answered(s, t)'  BY TablesCommitted DEF Continues, Answered
  <2>3. ASSUME NEW q \in Procs \ {p} PROVE (Found(pc[q], tx[q]) /\ Answered(pc[q], tx[q]))'
    BY <1>1, <1>2, <1>4 DEF Found, Answered, Stored
  <2> QED  BY <1>2, <2>1, <2>2, <2>3 DEF Founded
<1>9. Exclusive'
  <2>1. \A q \in Procs : "locked" \in tx'[q].did => tx'[q] = tx[q] /\ record' = record
    BY <1>2, <1>3, RecordCommitted
  <2>2. \A q \in Procs : "inserted" \in tx'[q].did => tx'[q] = tx[q]
    BY <1>2, <1>3
  <2> QED  BY <2>1, <2>2 DEF Inv, Exclusive
<1>10. Unborn'  BY RecordCommitted DEF Unborn
<1>11. OneReference'
  <2>1. \A g \in given : g.reference = record'.reference
    BY Ready, RecordCommitted DEF Inv, OneReference, Unborn
  <2>2. tx[p].reference = record'.reference  BY RecordCommitted
  <2> QED  BY <2>1, <2>2 DEF OneReference
<1>12. AccessAudited'
  <2>1. \A r \in attributes' : [run |-> r.run, action |-> "STORE"] \in audit'
    BY TablesCommitted DEF Inv, AccessAudited
  <2>2. \A r \in responses' : [run |-> r.run, action |-> "RECORD"] \in audit'
    BY TablesCommitted DEF Inv, AccessAudited
  <2>3. ASSUME NEW g \in given' PROVE [run |-> g.run, action |-> g.action] \in audit'
    <3>1. CASE g \in given  BY <3>1, TablesCommitted DEF Inv, AccessAudited
    <3>2. CASE g = [run |-> tx[p].run, action |-> tx[p].action, reference |-> tx[p].reference]
      BY <3>2, TablesCommitted
    <3> QED  BY <3>1, <3>2
  <2>4. record'.status = "DELETED" => \E a \in audit' : a.action = "DELETE"
    <3>1. CASE record.status = "DELETED"
      BY <3>1, TablesCommitted DEF Inv, AccessAudited
    <3>2. CASE Marked(p, "erased")
      BY <3>2, Ready, TablesCommitted
    <3> QED  BY <3>1, <3>2, RecordCommitted
  <2> QED  BY <2>1, <2>2, <2>3, <2>4 DEF AccessAudited
<1>13. AnswersBacked'
  <2> SUFFICES ASSUME record'.status # "DELETED"
               PROVE  /\ \A e \in events' : e.kind = "answered" =>
                           [attribute |-> e.attribute, run |-> e.run] \in responses'
                      /\ \A r \in responses' : r.attribute \in Stored'
    BY DEF AnswersBacked
  <2>1. \A e \in events' : e.kind = "answered" =>
          [attribute |-> e.attribute, run |-> e.run] \in responses'
    BY <1>4 DEF Inv, AnswersBacked
  <2>2. Stored \subseteq Stored'  BY <1>4 DEF Stored
  <2>3. ASSUME NEW r \in responses' PROVE r.attribute \in Stored
    <3>1. CASE r \in responses  BY <1>4, <3>1 DEF Inv, AnswersBacked
    <3>2. CASE tx[p].action = "RECORD" /\ r.attribute \in tx[p].items
      BY <1>1, <1>4, <3>2 DEF Found
    <3> QED  BY <3>1, <3>2, TablesCommitted
  <2> QED  BY <2>1, <2>2, <2>3
<1> QED
  BY <1>5, <1>6, <1>7, <1>8, <1>9, <1>10, <1>11, <1>12, <1>13 DEF Inv

LEMMA CommitKeeps == ASSUME Inv, NEW p \in Procs, Commit(p) \/ ReplyLost(p) PROVE Inv'
<1>1. pc[p] = "commit" /\ Apply(p) /\ UNCHANGED events  BY DEF Commit, ReplyLost
<1>2. runs' \in Nat /\ faults' \in Nat  BY DEF Commit, ReplyLost, Fault, Inv, TypeOK
<1>3. given' \subseteq given \cup {[run |-> tx[p].run, action |-> tx[p].action,
                                    reference |-> tx[p].reference]}
  BY DEF Commit, ReplyLost, Fault
<1>4. \E s, t : Goto(p, s, t) /\ Continues(p, s, t)
  <2>1. tx[p] \in Call /\ (tx[p].action # "STORE" => tx[p].wrote = {})  BY <1>1, Ready
  <2>2. CASE Return(p)  BY <2>2 DEF Return, Continues
  <2>3. CASE tx[p].action = "READ" /\ Goto(p, "presented", [tx[p] EXCEPT !.did = {}])
    <3> DEFINE t == [tx[p] EXCEPT !.did = {}]
    <3>1. Continues(p, "presented", t)  BY <2>1, <2>3 DEF Continues, Call
    <3> QED  BY <2>3, <3>1
  <2>4. CASE /\ tx[p].action = "READ"
             /\ Goto(p, "recheck", [tx[p] EXCEPT !.did = {}, !.action = "RECORD"])
    <3> DEFINE t == [tx[p] EXCEPT !.did = {}, !.action = "RECORD"]
    <3>1. Continues(p, "recheck", t)  BY <2>1, <2>4 DEF Continues, Call, Actions
    <3> QED  BY <2>4, <3>1
  <2>5. CASE tx[p].action = "RECORD" /\ Goto(p, "answered", [tx[p] EXCEPT !.did = {}])
    <3> DEFINE t == [tx[p] EXCEPT !.did = {}]
    <3>1. Continues(p, "answered", t)  BY <2>1, <2>5 DEF Continues, Call
    <3> QED  BY <2>5, <3>1
  <2> QED  BY <2>2, <2>3, <2>4, <2>5 DEF Commit, After, ReplyLost
<1> QED  BY <1>1, <1>2, <1>3, <1>4, CommitStep

-----------------------------------------------------------------------------
(* Events, failures and the legal hold.                                     *)

\* A call that ends with events about what it holds: each of an answer has its response.
LEMMA EventsKeep == ASSUME Inv, NEW p \in Procs, Emit(p) \/ EmitFails(p) PROVE Inv'
<1>1. /\ pc[p] \in {"presented", "answered"} /\ Return(p) /\ UNCHANGED <<rows, given>>
      /\ runs' \in Nat /\ faults' \in Nat
  BY DEF Emit, EmitFails, Fault, Inv, TypeOK
<1>2. tx[p] \in Call /\ Answered(pc[p], tx[p])  BY Caller
<1>3. PICK some \in SUBSET tx[p].items :
        events' = events \cup [kind: {pc[p]}, attribute: some, run: {tx[p].run}]
  BY DEF Emit, EmitFails
<1>4. tx[p].items \subseteq Attributes /\ tx[p].run \in Nat  BY <1>2 DEF Call
<1>5. events' \subseteq [kind: {"presented", "answered"}, attribute: Attributes, run: Nat]
  BY <1>1, <1>3, <1>4 DEF Inv, TypeOK
<1>6. record.status # "DELETED" =>
        \A e \in events' : e \in events \/
          (e.kind = "answered" => [attribute |-> e.attribute, run |-> e.run] \in responses)
  BY <1>2, <1>3 DEF Answered
<1>7. /\ NoCall \in Call /\ "idle" \in Steps /\ NoCall.did = {}
      /\ Stage("idle", NoCall) /\ Refers("idle", NoCall)
      /\ Found("idle", NoCall) /\ Answered("idle", NoCall)
  BY DEF NoCall, Call, Kinds, Actions, Steps, Stage, Refers, Found, Answered
<1> QED  BY <1>1, <1>5, <1>6, <1>7, LocalStep DEF Return

LEMMA FailsKeeps == ASSUME Inv, NEW p \in Procs, Fails(p) PROVE Inv'
<1>1. /\ Return(p) /\ UNCHANGED <<rows, events, given>> /\ runs' \in Nat /\ faults' \in Nat
  BY DEF Fails, Fault, Rollback, Inv, TypeOK
<1> QED  BY <1>1, ReturnStep

\* The hold changes while nobody holds the lock.
LEMMA SetHoldKeeps == ASSUME Inv, SetHold PROVE Inv'
<1>1. /\ record' = [record EXCEPT !.hold = ~@] /\ record.status # "absent"
      /\ ~\E q \in Procs : "locked" \in tx[q].did
      /\ UNCHANGED <<attributes, responses, audit, events, given, pc, tx, runs, faults>>
  BY DEF SetHold
<1>2. record \in Record  BY DEF Inv, TypeOK
<1>3. record' \in Record  BY <1>1, <1>2 DEF Record
<1>4. record'.status = record.status /\ record'.reference = record.reference
  BY <1>1, <1>2 DEF Record
<1>5. TypeOK'  BY <1>1, <1>3 DEF Inv, TypeOK
<1>6. Staged' /\ Exclusive'  BY <1>1, <1>4 DEF Inv, Staged, Exclusive
<1>7. Refered'  BY <1>1, <1>4 DEF Inv, Refered, Refers
<1>8. Founded'  BY <1>1, <1>4 DEF Inv, Founded, Found, Answered, Stored
<1>9. Unborn' /\ OneReference' /\ AccessAudited' /\ AnswersBacked'
  BY <1>1, <1>4 DEF Inv, Unborn, OneReference, AccessAudited, AnswersBacked, Stored
<1> QED  BY <1>5, <1>6, <1>7, <1>8, <1>9 DEF Inv

-----------------------------------------------------------------------------
(* The invariant, and what follows from it.                                 *)

LEMMA InitInv == ASSUME Init PROVE Inv
<1>1. /\ record = [status |-> "absent", hold |-> FALSE, reference |-> 0]
      /\ attributes = {} /\ responses = {} /\ audit = {} /\ events = {} /\ given = {}
      /\ pc = [p \in Procs |-> "idle"] /\ tx = [p \in Procs |-> NoCall]
      /\ runs = 0 /\ faults = 0
  BY DEF Init
<1>2. NoCall \in Call /\ NoCall.did = {}
  BY DEF NoCall, Call, Kinds, Actions
<1>3. TypeOK  BY <1>1, <1>2 DEF TypeOK, Record, Steps
<1>4. Staged /\ Refered /\ Founded
  BY <1>1, <1>2 DEF Staged, Refered, Founded, Stage, Refers, Found, Answered
<1>5. Exclusive /\ Unborn /\ OneReference /\ AccessAudited /\ AnswersBacked
  BY <1>1, <1>2 DEF Exclusive, Unborn, OneReference, AccessAudited, AnswersBacked
<1> QED  BY <1>3, <1>4, <1>5 DEF Inv

LEMMA NextKeeps == ASSUME Inv, [Next]_vars PROVE Inv'
<1>1. CASE UNCHANGED vars
  <2> USE <1>1 DEF vars, rows
  <2>1. TypeOK' /\ Staged' /\ Refered'  BY DEF Inv, TypeOK, Staged, Refered, Refers
  <2>2. Founded' /\ Exclusive'  BY DEF Inv, Founded, Found, Answered, Stored, Exclusive
  <2>3. Unborn' /\ OneReference' /\ AccessAudited' /\ AnswersBacked'
    BY DEF Inv, Unborn, OneReference, AccessAudited, AnswersBacked, Stored
  <2> QED  BY <2>1, <2>2, <2>3 DEF Inv
<1>2. CASE SetHold  BY <1>2, SetHoldKeeps
<1>3. ASSUME NEW p \in Procs, Begin(p) \/ Work(p) \/ Fails(p) \/ EmitFails(p) \/ ReplyLost(p)
      PROVE  Inv'
  BY <1>3, BeginKeeps, LookKeeps, InsertKeeps, WriteAttributeKeeps, PassingKeeps,
     RespondKeeps, LockKeeps, EraseKeeps, AuditKeeps, CommitKeeps, EventsKeep, FailsKeeps
  DEF Work
<1> QED  BY <1>1, <1>2, <1>3 DEF Next

\* Every reachable state satisfies the invariant.
LEMMA Invariance == Spec => []Inv
<1> QED  BY InitInv, NextKeeps, PTL DEF Spec

\* Every variable holds a value of its kind.
THEOREM IdentityTypes == Spec => []TypeOK
<1>1. Inv => TypeOK  BY DEF Inv
<1> QED  BY <1>1, Invariance, PTL

\* However insertions race, fail and roll back, every reference handed out is the one
\* that stands in the table.
THEOREM ReferenceStands == Spec => []OneReference
<1>1. Inv => OneReference  BY DEF Inv
<1> QED  BY <1>1, Invariance, PTL

\* What was stored, disclosed, answered or erased is in the audit trail of its own
\* transaction.
THEOREM EveryAccessAudited == Spec => []AccessAudited
<1>1. Inv => AccessAudited  BY DEF Inv
<1> QED  BY <1>1, Invariance, PTL

\* An answered event is backed by its response, and a response by the extraction it
\* answers, until the record is deleted.
THEOREM EveryAnswerBacked == Spec => []AnswersBacked
<1>1. Inv => AnswersBacked  BY DEF Inv
<1> QED  BY <1>1, Invariance, PTL

\* The record and its tables change by a COMMIT or by the hold.
LEMMA WhoChanges ==
  ASSUME [Next]_vars
  PROVE  \/ UNCHANGED rows
         \/ SetHold
         \/ \E p \in Procs : pc[p] = "commit" /\ Apply(p)
<1>1. CASE UNCHANGED vars  BY <1>1 DEF vars, rows
<1>2. CASE SetHold  BY <1>2
<1>3. ASSUME NEW p \in Procs, Begin(p) \/ Work(p) \/ Fails(p) \/ EmitFails(p) \/ ReplyLost(p)
      PROVE  UNCHANGED rows \/ (pc[p] = "commit" /\ Apply(p))
  <2>1. CASE Begin(p) \/ Fails(p) \/ EmitFails(p) \/ ReplyLost(p)
    BY <2>1 DEF Begin, Fails, EmitFails, ReplyLost
  <2>2. CASE Work(p)
    BY <2>2 DEF Work, Look, Insert, WriteAttribute, AttributesDone, Check, Select, Recheck,
                Respond, Lock, Erase, Audit, Commit, Emit
  <2> QED  BY <1>3, <2>1, <2>2
<1> QED  BY <1>1, <1>2, <1>3 DEF Next

\* A legal hold set while a deletion runs is never overtaken by it: under it no step
\* erases anything or schedules a deletion.
THEOREM HoldIsRespected == Spec => HoldRespected
<1>1. ASSUME Inv, [Next]_vars, record.hold
      PROVE  /\ attributes \subseteq attributes' /\ responses \subseteq responses'
             /\ record'.status = record.status
  <2>1. CASE UNCHANGED rows  BY <2>1 DEF rows
  <2>2. CASE SetHold
    BY <1>1, <2>2 DEF SetHold, Inv, TypeOK, Record
  <2>3. ASSUME NEW p \in Procs, pc[p] = "commit", Apply(p)
        PROVE  /\ attributes \subseteq attributes' /\ responses \subseteq responses'
               /\ record'.status = record.status
    <3>1. ~Marked(p, "erased")  BY <1>1, <2>3, Ready
    <3> QED  BY <1>1, <2>3, <3>1, RecordCommitted, TablesCommitted
  <2> QED  BY <1>1, <2>1, <2>2, <2>3, WhoChanges
<1> QED  BY <1>1, Invariance, PTL DEF Spec, HoldRespected

\* A deletion is final, also when another one was scheduled at the same time.
THEOREM DeletionIsFinal == Spec => DeletionFinal
<1>1. ASSUME Inv, [Next]_vars, record.status = "DELETED" PROVE record'.status = "DELETED"
  <2>1. CASE UNCHANGED rows  BY <1>1, <2>1 DEF rows
  <2>2. CASE SetHold  BY <1>1, <2>2 DEF SetHold, Inv, TypeOK, Record
  <2>3. ASSUME NEW p \in Procs, pc[p] = "commit", Apply(p) PROVE record'.status = "DELETED"
    BY <1>1, <2>3, RecordCommitted
  <2> QED  BY <1>1, <2>1, <2>2, <2>3, WhoChanges
<1> QED  BY <1>1, Invariance, PTL DEF Spec, DeletionFinal

=============================================================================
