------------------------ MODULE AssessmentStoreProofs ------------------------
(***************************************************************************)
(* Proofs about AssessmentStore, for any number of calls and coordinates.  *)
(*                                                                         *)
(* The invariant has three parts for each call: what its record holds at   *)
(* each place (Shape), how the row it read relates to the row there now    *)
(* (Current), and which coordinates it holds (Locks).  A step of one call  *)
(* keeps the parts of the others because it changes rows and locks only    *)
(* where it holds the lock, and records in `raced' what it changed.        *)
(***************************************************************************)
EXTENDS AssessmentStore, TLAPS

Evaluating == {"evaluating", "deleting", "inserting", "committing",
               "readBack", "readKey"}
Pending == {"evaluating", "deleting", "inserting", "committing", "resetting"}

Shape(c) ==
    /\ call[c].at = "idle" => call[c] = Idle
    /\ call[c].at # "idle" => call[c].ticket \in 1..MaxTickets
    /\ call[c].at \in Evaluating =>
        /\ call[c].mode \in {"fill", "reeval"}
        /\ call[c].via \in {"bridge", "direct"}
        /\ \E k \in Keys : call[c].keys = {k}
    /\ call[c].at \in Pending => call[c].did = "none" /\ call[c].result = "none"
    /\ call[c].at = "deleting" => call[c].mode = "reeval"
    /\ call[c].at = "readBack" => call[c].did \in {"kept", "wrote"}
    /\ call[c].at = "readKey" => call[c].did = "refused"
    /\ call[c].at \in {"readBack", "readKey"} => call[c].result = "none"
    /\ call[c].at = "answered" => call[c].did # "none"
    /\ call[c].at = "resetting" =>
        /\ call[c].mode = "reset" /\ call[c].keys \in Groups
        /\ call[c].units = "none"
        /\ call[c].todo \subseteq call[c].keys
    /\ call[c].at = "inserting" /\ call[c].mode = "fill" =>
        \A k \in call[c].keys : call[c].seen[k] = NoRow

\* The row a call relies on is still there, or another call changed it.
Current(c) ==
    /\ call[c].at \in {"deleting", "inserting", "committing", "resetting"} =>
        \A k \in call[c].keys : row[k] = call[c].seen[k] \/ k \in raced[c]
    /\ call[c].at = "readBack" =>
        \A k \in call[c].keys :
            \/ row[k] = IF call[c].did = "wrote" THEN call[c].ticket
                        ELSE call[c].seen[k]
            \/ k \in raced[c]
    /\ call[c].did = "refused" => raced[c] # {} \/ call[c].units = "dup"
    /\ call[c].result = "notFound" => raced[c] # {} \/ call[c].units = "dup"

Locks(c) ==
    /\ \A k \in Keys : holder[k] = c =>
        /\ k \in call[c].keys
        /\ \/ call[c].at = "inserting" /\ call[c].mode = "reeval"
           \/ call[c].at = "committing"
           \/ call[c].at = "resetting" /\ k \notin call[c].todo
    /\ call[c].at = "committing" =>
        /\ call[c].units # "dup"
        /\ \A k \in call[c].keys :
            holder[k] = c /\ (call[c].mode = "fill" => row[k] = NoRow)
    /\ call[c].at = "inserting" /\ call[c].mode = "reeval" =>
        \A k \in call[c].keys : holder[k] = c \/ call[c].seen[k] = NoRow
    /\ call[c].at = "resetting" =>
        \A k \in call[c].keys \ call[c].todo :
            holder[k] = c \/ call[c].seen[k] = NoRow \/ k \in raced[c]

CallOK(c) == Shape(c) /\ Current(c) /\ Locks(c)

StoreInv == TypeOK /\ \A c \in Calls : CallOK(c)

\* What a step of c does outside c's own record.
Frame(c) ==
    /\ \A d \in Calls \ {c} : call'[d] = call[d]
    /\ \A k \in Keys : \/ holder'[k] = holder[k]
                       \/ holder[k] \in {Nobody, c} /\ holder'[k] \in {Nobody, c}
    /\ \A k \in Keys : row'[k] = row[k] \/ holder[k] = c
    /\ \A d \in Calls \ {c} : raced[d] \subseteq raced'[d]
    /\ \A d \in Calls \ {c} : ~At(d, "idle") =>
        \A k \in Keys : k \in call[d].keys /\ row'[k] # row[k] => k \in raced'[d]

------------------------------------------------------------------------------
LEMMA KeyOfSingleton ==
  ASSUME NEW c, NEW k, call[c].keys = {k}
  PROVE  KeyOf(c) = k
  BY DEF KeyOf

LEMMA IdleType == Idle \in CallType
  BY DEF Idle, CallType, Places, NoRow

\* A step of c keeps the invariant of every other call.
LEMMA OthersKeep ==
  ASSUME StoreInv, NEW c \in Calls, NEW d \in Calls \ {c}, Frame(c)
  PROVE  CallOK(d)'
<1>1. call'[d] = call[d] /\ raced[d] \subseteq raced'[d]
  BY DEF Frame
<1>2. \A k \in Keys : holder'[k] = d <=> holder[k] = d
  BY CallsAssumption DEF Frame
<1>3. \A k \in Keys : holder[k] = d => row'[k] = row[k]
  BY DEF Frame
<1>4. call[d].at # "idle" =>
        \A k \in Keys : k \in call[d].keys => row'[k] = row[k] \/ k \in raced'[d]
  BY DEF Frame, At
<1>5. call[d].keys \subseteq Keys
  BY DEF StoreInv, TypeOK, CallType
<1>6. Shape(d)'
  BY <1>1 DEF StoreInv, CallOK, Shape
<1>7. Current(d)'
  BY <1>1, <1>4, <1>5 DEF StoreInv, CallOK, Current
<1>8. Locks(d)'
  BY <1>1, <1>2, <1>3, <1>5 DEF StoreInv, CallOK, Locks
<1>9. QED
  BY <1>6, <1>7, <1>8 DEF CallOK

LEMMA OneCall ==
  ASSUME StoreInv, NEW c \in Calls, Frame(c), TypeOK', CallOK(c)'
  PROVE  StoreInv'
  BY OthersKeep DEF StoreInv

------------------------------------------------------------------------------
(* The call's own record. *)

Dids == {"none", "kept", "wrote", "refused", "failed"}
Results == {"none", "created", "existing", "conflict", "failed", "notFound",
            "done"}

\* What a step that changes these four fields leaves of the record.
SameArgs(c) ==
    /\ call' \in [Calls -> CallType]
    /\ \A d \in Calls \ {c} : call'[d] = call[d]
    /\ call'[c].mode = call[c].mode /\ call'[c].via = call[c].via
    /\ call'[c].keys = call[c].keys /\ call'[c].units = call[c].units
    /\ call'[c].ticket = call[c].ticket

LEMMA GoesType ==
  ASSUME call \in [Calls -> CallType], NEW c \in Calls, NEW at \in Places,
         Goes(c, at)
  PROVE  /\ SameArgs(c) /\ call'[c].at = at /\ call'[c].did = call[c].did
         /\ call'[c].result = call[c].result /\ call'[c].seen = call[c].seen
         /\ call'[c].todo = call[c].todo
  BY DEF Goes, SameArgs, CallType

LEMMA AnsweredRecord ==
  \A r \in CallType, at \in Places, did \in Dids, result \in Results :
    [r EXCEPT !.at = at, !.did = did, !.result = result] \in CallType
  BY DEF CallType, Dids, Results

LEMMA DecidedRecord ==
  \A r \in CallType, at \in Places, did \in Dids :
    [r EXCEPT !.at = at, !.did = did] \in CallType
  BY DEF CallType, Dids

LEMMA AnswersType ==
  ASSUME call \in [Calls -> CallType], NEW c \in Calls, NEW did \in Dids,
         NEW result \in Results, Answers(c, did, result)
  PROVE  /\ SameArgs(c) /\ call'[c].at = "answered" /\ call'[c].did = did
         /\ call'[c].result = result
<1> DEFINE r == [call[c] EXCEPT !.at = "answered", !.did = did,
                                !.result = result]
<1>1. call[c] \in CallType
  OBVIOUS
<1>2. call' = [call EXCEPT ![c] = r]
  BY DEF Answers
<1>3. r \in CallType
  <2>1. "answered" \in Places
    BY DEF Places
  <2>2. QED
    BY <1>1, <2>1, AnsweredRecord
<1>4. /\ r.at = "answered" /\ r.did = did /\ r.result = result
      /\ r.mode = call[c].mode /\ r.via = call[c].via /\ r.keys = call[c].keys
      /\ r.units = call[c].units /\ r.ticket = call[c].ticket
  BY <1>1 DEF CallType
<1> HIDE DEF r
<1>5. QED
  BY <1>2, <1>3, <1>4 DEF SameArgs

LEMMA GoesDidType ==
  ASSUME call \in [Calls -> CallType], NEW c \in Calls, NEW did \in Dids,
         NEW at \in Places,
         call' = [call EXCEPT ![c].at = at, ![c].did = did]
  PROVE  /\ SameArgs(c) /\ call'[c].at = at /\ call'[c].did = did
         /\ call'[c].result = call[c].result /\ call'[c].seen = call[c].seen
<1> DEFINE r == [call[c] EXCEPT !.at = at, !.did = did]
<1>1. call[c] \in CallType
  OBVIOUS
<1>2. call' = [call EXCEPT ![c] = r]
  OBVIOUS
<1>3. r \in CallType
  BY <1>1, DecidedRecord
<1>4. /\ r.at = at /\ r.did = did /\ r.result = call[c].result
      /\ r.mode = call[c].mode /\ r.via = call[c].via /\ r.keys = call[c].keys
      /\ r.units = call[c].units /\ r.ticket = call[c].ticket
      /\ r.seen = call[c].seen
  BY <1>1 DEF CallType
<1> HIDE DEF r
<1>5. QED
  BY <1>2, <1>3, <1>4 DEF SameArgs

LEMMA ConflictsType ==
  ASSUME call \in [Calls -> CallType], NEW c \in Calls, Conflicts(c)
  PROVE  /\ SameArgs(c) /\ call'[c].did = "refused"
         /\ \/ /\ call[c].via = "bridge" /\ call[c].mode = "fill"
               /\ call'[c].at = "readKey" /\ call'[c].result = call[c].result
            \/ call'[c].at = "answered" /\ call'[c].result = "conflict"
<1>1. "refused" \in Dids /\ "conflict" \in Results /\ "readKey" \in Places
  BY DEF Dids, Results, Places
<1>2. CASE call' = [call EXCEPT ![c].at = "readKey", ![c].did = "refused"]
           /\ call[c].via = "bridge" /\ call[c].mode = "fill"
  BY <1>1, <1>2, GoesDidType
<1>3. CASE Answers(c, "refused", "conflict")
  BY <1>1, <1>3, AnswersType
<1>4. QED
  BY <1>2, <1>3 DEF Conflicts

------------------------------------------------------------------------------
(* One lemma per action. *)

\* A step that answers and changes no row, releasing or keeping locks.
LEMMA GiveUpKeeps ==
  ASSUME StoreInv, NEW c \in Calls, GiveUp(c)
  PROVE  StoreInv'
<1>1. "failed" \in Dids /\ "failed" \in Results
  BY DEF Dids, Results
<1>2. /\ SameArgs(c) /\ call'[c].at = "answered" /\ call'[c].did = "failed"
      /\ call'[c].result = "failed"
  BY <1>1, AnswersType DEF GiveUp, StoreInv, TypeOK
<1>3. call[c].at = "evaluating" /\ UNCHANGED <<row, holder, tickets, raced>>
  BY DEF GiveUp, At
<1>4. Frame(c)
  BY <1>2, <1>3 DEF Frame, SameArgs
<1>5. TypeOK'
  BY <1>2, <1>3 DEF StoreInv, TypeOK, SameArgs
<1>6. CallOK(c)'
  BY <1>2, <1>3 DEF StoreInv, CallOK, Shape, Current, Locks, SameArgs,
     Evaluating, Pending
<1>7. QED
  BY <1>4, <1>5, <1>6, OneCall

LEMMA ReadBackByIdKeeps ==
  ASSUME StoreInv, NEW c \in Calls, ReadBackById(c)
  PROVE  StoreInv'
<1> DEFINE k == KeyOf(c)
           id == IF call[c].did = "wrote" THEN call[c].ticket ELSE call[c].seen[k]
<1>1. call[c].at = "readBack" /\ UNCHANGED <<row, holder, tickets, raced>>
  BY DEF ReadBackById, At
<1>2. PICK j \in Keys : call[c].keys = {j}
  BY <1>1 DEF StoreInv, CallOK, Shape, Evaluating
<1>3. k = j
  BY <1>2, KeyOfSingleton
<1>4. PICK result \in {"created", "existing", "notFound"} :
        /\ Answers(c, call[c].did, result)
        /\ result = "notFound" => row[k] # id
  BY DEF ReadBackById
<1>5. result \in Results /\ call[c].did \in {"kept", "wrote"}
  BY <1>1 DEF Results, StoreInv, CallOK, Shape
<1>6. call[c].did \in Dids
  BY <1>5 DEF Dids
<1>7. /\ SameArgs(c) /\ call'[c].at = "answered" /\ call'[c].did = call[c].did
      /\ call'[c].result = result
  BY <1>4, <1>5, <1>6, AnswersType DEF StoreInv, TypeOK
<1>8. result = "notFound" => raced[c] # {}
  BY <1>1, <1>2, <1>3, <1>4 DEF StoreInv, CallOK, Current
<1>9. Frame(c)
  BY <1>7, <1>1 DEF Frame, SameArgs
<1>10. TypeOK'
  BY <1>7, <1>1 DEF StoreInv, TypeOK, SameArgs
<1>11. CallOK(c)'
  BY <1>1, <1>5, <1>7, <1>8 DEF StoreInv, CallOK, Shape, Current, Locks, SameArgs,
     Evaluating, Pending
<1>12. QED
  BY <1>9, <1>10, <1>11, OneCall

LEMMA ReadBackByCoordinateKeeps ==
  ASSUME StoreInv, NEW c \in Calls, ReadBackByCoordinate(c)
  PROVE  StoreInv'
<1>1. call[c].at = "readKey" /\ UNCHANGED <<row, holder, tickets, raced>>
  BY DEF ReadBackByCoordinate, At
<1>2. PICK result \in {"existing", "notFound"} : Answers(c, call[c].did, result)
  BY DEF ReadBackByCoordinate
<1>3. result \in Results /\ call[c].did = "refused" /\ "refused" \in Dids
  BY <1>1 DEF Results, Dids, StoreInv, CallOK, Shape
<1>4. /\ SameArgs(c) /\ call'[c].at = "answered" /\ call'[c].did = "refused"
      /\ call'[c].result = result
  BY <1>2, <1>3, AnswersType DEF StoreInv, TypeOK
<1>5. Frame(c)
  BY <1>4, <1>1 DEF Frame, SameArgs
<1>6. TypeOK'
  BY <1>4, <1>1 DEF StoreInv, TypeOK, SameArgs
<1>7. CallOK(c)'
  BY <1>1, <1>4 DEF StoreInv, CallOK, Shape, Current, Locks, SameArgs,
     Evaluating, Pending
<1>8. QED
  BY <1>5, <1>6, <1>7, OneCall

LEMMA SeenRecord ==
  ASSUME NEW r \in CallType, NEW at \in Places, NEW did \in Dids,
         NEW result \in Results, NEW seen \in [Keys -> Nat]
  PROVE  /\ [r EXCEPT !.at = at, !.seen = seen] \in CallType
         /\ [r EXCEPT !.at = at, !.seen = seen, !.did = did] \in CallType
         /\ [r EXCEPT !.at = at, !.seen = seen, !.did = did, !.result = result]
               \in CallType
<1>1. \A q \in CallType : [q EXCEPT !.at = at, !.seen = seen] \in CallType
  BY DEF CallType
<1>2. \A q \in CallType : [q EXCEPT !.at = at, !.seen = seen, !.did = did] \in CallType
  BY DEF CallType, Dids
<1>3. \A q \in CallType :
        [q EXCEPT !.at = at, !.seen = seen, !.did = did, !.result = result]
            \in CallType
  BY DEF CallType, Dids, Results
<1>4. QED
  BY <1>1, <1>2, <1>3

\* The read of the transaction, as the invariant sees it.
LEMMA ReadCoordinateRecord ==
  ASSUME StoreInv, NEW c \in Calls, ReadCoordinate(c)
  PROVE  /\ SameArgs(c) /\ call'[c].seen = Snapshot(c)
         /\ LET found == row[KeyOf(c)] # NoRow IN
            \/ /\ found /\ call[c].mode = "fill"
               /\ call'[c].at = "readBack" /\ call'[c].did = "kept"
               /\ call'[c].result = call[c].result
            \/ /\ found /\ call[c].mode = "fill"
               /\ call'[c].at = "answered" /\ call'[c].did = "kept"
               /\ call'[c].result = "existing"
            \/ /\ found /\ call[c].mode = "reeval" /\ call'[c].at = "deleting"
               /\ call'[c].did = call[c].did /\ call'[c].result = call[c].result
            \/ /\ ~found /\ call'[c].at = "inserting"
               /\ call'[c].did = call[c].did /\ call'[c].result = call[c].result
<1> DEFINE found == row[KeyOf(c)] # NoRow
           seen == Snapshot(c)
           r1 == [call[c] EXCEPT !.at = "readBack", !.seen = seen, !.did = "kept"]
           r2 == [call[c] EXCEPT !.at = "answered", !.seen = seen, !.did = "kept",
                                 !.result = "existing"]
           r3 == [call[c] EXCEPT !.at = "deleting", !.seen = seen]
           r4 == [call[c] EXCEPT !.at = "inserting", !.seen = seen]
<1>1. call \in [Calls -> CallType] /\ call[c] \in CallType
  BY DEF StoreInv, TypeOK
<1>2. seen \in [Keys -> Nat]
  BY DEF Snapshot, StoreInv, TypeOK, NoRow
<1>3. {"readBack", "answered", "deleting", "inserting"} \subseteq Places
      /\ "kept" \in Dids /\ "existing" \in Results
  BY DEF Places, Dids, Results
<1> HIDE DEF seen
<1>4. r1 \in CallType /\ r2 \in CallType /\ r3 \in CallType /\ r4 \in CallType
  BY <1>1, <1>2, <1>3, SeenRecord
<1> DEFINE Args(r) == /\ r.mode = call[c].mode /\ r.via = call[c].via
                      /\ r.keys = call[c].keys /\ r.units = call[c].units
                      /\ r.ticket = call[c].ticket /\ r.seen = seen
<1>5. /\ Args(r1) /\ r1.at = "readBack" /\ r1.did = "kept"
      /\ r1.result = call[c].result
  BY <1>1 DEF CallType
<1>6. /\ Args(r2) /\ r2.at = "answered" /\ r2.did = "kept"
      /\ r2.result = "existing"
  BY <1>1 DEF CallType
<1>7. /\ Args(r3) /\ r3.at = "deleting" /\ r3.did = call[c].did
      /\ r3.result = call[c].result
  BY <1>1 DEF CallType
<1>8. /\ Args(r4) /\ r4.at = "inserting" /\ r4.did = call[c].did
      /\ r4.result = call[c].result
  BY <1>1 DEF CallType
<1>9. \/ found /\ call[c].mode = "fill" /\ call' = [call EXCEPT ![c] = r1]
      \/ found /\ call[c].mode = "fill" /\ call' = [call EXCEPT ![c] = r2]
      \/ found /\ call[c].mode = "reeval" /\ call' = [call EXCEPT ![c] = r3]
      \/ ~found /\ call' = [call EXCEPT ![c] = r4]
  BY DEF ReadCoordinate, seen
<1> HIDE DEF r1, r2, r3, r4, found
<1>10. seen = Snapshot(c) /\ found = (row[KeyOf(c)] # NoRow)
  BY DEF seen, found
<1>11. CASE found /\ call[c].mode = "fill" /\ call' = [call EXCEPT ![c] = r1]
  BY <1>1, <1>4, <1>5, <1>10, <1>11 DEF SameArgs
<1>12. CASE found /\ call[c].mode = "fill" /\ call' = [call EXCEPT ![c] = r2]
  BY <1>1, <1>4, <1>6, <1>10, <1>12 DEF SameArgs
<1>13. CASE found /\ call[c].mode = "reeval" /\ call' = [call EXCEPT ![c] = r3]
  BY <1>1, <1>4, <1>7, <1>10, <1>13 DEF SameArgs
<1>14. CASE ~found /\ call' = [call EXCEPT ![c] = r4]
  BY <1>1, <1>4, <1>8, <1>10, <1>14 DEF SameArgs
<1>15. QED
  BY <1>9, <1>11, <1>12, <1>13, <1>14

LEMMA ReadCoordinateKeeps ==
  ASSUME StoreInv, NEW c \in Calls, ReadCoordinate(c)
  PROVE  StoreInv'
<1> USE ReadCoordinateRecord
<1>1. call[c].at = "evaluating" /\ UNCHANGED <<row, holder, tickets, raced>>
  BY DEF ReadCoordinate, At
<1>2. PICK j \in Keys : call[c].keys = {j}
  BY <1>1 DEF StoreInv, CallOK, Shape, Evaluating
<1>3. KeyOf(c) = j
  BY <1>2, KeyOfSingleton
<1>4. call'[c].seen[j] = row[j]
  BY <1>2 DEF Snapshot
<1>5. Frame(c)
  BY <1>1 DEF Frame, SameArgs
<1>6. TypeOK'
  BY <1>1 DEF StoreInv, TypeOK, SameArgs
<1>7. Shape(c)'
  BY <1>1, <1>2, <1>3, <1>4 DEF StoreInv, CallOK, Shape, SameArgs,
     Evaluating, Pending
<1>8. Current(c)'
  BY <1>1, <1>2, <1>3, <1>4 DEF StoreInv, CallOK, Shape, Current, SameArgs, Pending
<1>9. Locks(c)'
  BY <1>1, <1>2, <1>3, <1>4 DEF StoreInv, CallOK, Locks, SameArgs
<1>10. QED
  BY <1>5, <1>6, <1>7, <1>8, <1>9, OneCall DEF CallOK

LEMMA ReleasedType ==
  ASSUME TypeOK, NEW c \in Calls
  PROVE  /\ Released(c) \in [Keys -> Calls \union {Nobody}]
         /\ \A k \in Keys : Released(c)[k] =
                               IF holder[k] = c THEN Nobody ELSE holder[k]
  BY DEF Released, TypeOK

LEMMA DeleteExistingKeeps ==
  ASSUME StoreInv, NEW c \in Calls, DeleteExisting(c)
  PROVE  StoreInv'
<1>1. /\ call[c].at = "deleting" /\ call[c].mode = "reeval"
      /\ UNCHANGED <<row, tickets, raced>>
  BY DEF DeleteExisting, At, StoreInv, CallOK, Shape
<1>2. PICK j \in Keys : call[c].keys = {j}
  BY <1>1 DEF StoreInv, CallOK, Shape, Evaluating
<1>3. KeyOf(c) = j
  BY <1>2, KeyOfSingleton
<1>4. holder[j] = Nobody
  BY <1>3 DEF DeleteExisting
<1>5. CASE /\ holder' = [holder EXCEPT ![j] = c]
           /\ Goes(c, "inserting")
  <2>1. "inserting" \in Places
    BY DEF Places
  <2>2. /\ SameArgs(c) /\ call'[c].at = "inserting" /\ call'[c].did = call[c].did
        /\ call'[c].result = call[c].result /\ call'[c].seen = call[c].seen
    BY <1>5, <2>1, GoesType DEF StoreInv, TypeOK
  <2>3. holder'[j] = c /\ \A k \in Keys \ {j} : holder'[k] = holder[k]
    BY <1>5 DEF StoreInv, TypeOK
  <2>4. Frame(c)
    BY <1>1, <1>4, <2>2, <2>3 DEF Frame, SameArgs
  <2>5. TypeOK'
    BY <1>1, <1>5, <2>2 DEF StoreInv, TypeOK, SameArgs
  <2>6. CallOK(c)'
    BY <1>1, <1>2, <2>2, <2>3 DEF StoreInv, CallOK, Shape, Current, Locks, SameArgs,
       Evaluating, Pending
  <2>7. QED
    BY <2>4, <2>5, <2>6, OneCall
<1>6. CASE row[j] # call[c].seen[j] /\ Conflicts(c) /\ UNCHANGED holder
  <2>1. /\ SameArgs(c) /\ call'[c].did = "refused"
        /\ \/ /\ call'[c].at = "readKey" /\ call'[c].result = call[c].result
           \/ call'[c].at = "answered" /\ call'[c].result = "conflict"
    BY <1>6, ConflictsType DEF StoreInv, TypeOK
  <2>2. j \in raced[c]
    BY <1>1, <1>2, <1>6 DEF StoreInv, CallOK, Current
  <2>3. Frame(c)
    BY <1>1, <1>6, <2>1 DEF Frame, SameArgs
  <2>4. TypeOK'
    BY <1>1, <1>6, <2>1 DEF StoreInv, TypeOK, SameArgs
  <2>5. CallOK(c)'
    BY <1>1, <1>2, <1>6, <2>1, <2>2 DEF StoreInv, CallOK, Shape, Current, Locks,
       SameArgs, Evaluating, Pending
  <2>6. QED
    BY <2>3, <2>4, <2>5, OneCall
<1>7. QED
  BY <1>3, <1>5, <1>6 DEF DeleteExisting

LEMMA CreateRowKeeps ==
  ASSUME StoreInv, NEW c \in Calls, CreateRow(c)
  PROVE  StoreInv'
<1>1. call[c].at = "inserting" /\ UNCHANGED <<row, tickets, raced>>
  BY DEF CreateRow, At
<1>2. PICK j \in Keys : call[c].keys = {j}
  BY <1>1 DEF StoreInv, CallOK, Shape, Evaluating
<1>3. KeyOf(c) = j
  BY <1>2, KeyOfSingleton
<1> DEFINE clash == \/ holder[j] = Nobody /\ row[j] # NoRow
                    \/ call[c].units = "dup"
<1>4. holder[j] \in {Nobody, c}
  BY <1>3 DEF CreateRow
<1>5. CASE ~clash /\ holder' = [holder EXCEPT ![j] = c] /\ Goes(c, "committing")
  <2>1. "committing" \in Places
    BY DEF Places
  <2>2. /\ SameArgs(c) /\ call'[c].at = "committing" /\ call'[c].did = call[c].did
        /\ call'[c].result = call[c].result /\ call'[c].seen = call[c].seen
    BY <1>5, <2>1, GoesType DEF StoreInv, TypeOK
  <2>3. holder'[j] = c /\ \A k \in Keys \ {j} : holder'[k] = holder[k]
    BY <1>5 DEF StoreInv, TypeOK
  <2>4. call[c].mode = "fill" => row[j] = NoRow
    BY <1>1, <1>4, <1>5 DEF StoreInv, CallOK, Locks
  <2>5. Frame(c)
    BY <1>1, <1>4, <2>2, <2>3 DEF Frame, SameArgs
  <2>6. TypeOK'
    BY <1>1, <1>5, <2>2 DEF StoreInv, TypeOK, SameArgs
  <2>7. CallOK(c)'
    BY <1>1, <1>2, <1>5, <2>2, <2>3, <2>4 DEF StoreInv, CallOK, Shape, Current,
       Locks, SameArgs, Evaluating, Pending
  <2>8. QED
    BY <2>5, <2>6, <2>7, OneCall
<1>6. CASE clash /\ Conflicts(c) /\ RollsBack(c)
  <2>1. /\ SameArgs(c) /\ call'[c].did = "refused"
        /\ \/ /\ call'[c].at = "readKey" /\ call'[c].result = call[c].result
           \/ call'[c].at = "answered" /\ call'[c].result = "conflict"
    BY <1>6, ConflictsType DEF StoreInv, TypeOK
  <2>2. /\ holder' \in [Keys -> Calls \union {Nobody}]
        /\ \A k \in Keys : holder'[k] = IF holder[k] = c THEN Nobody ELSE holder[k]
    BY <1>6, ReleasedType DEF RollsBack, StoreInv
  <2>3. j \in raced[c] \/ call[c].units = "dup"
    <3>1. SUFFICES ASSUME holder[j] = Nobody, row[j] # NoRow
                   PROVE  j \in raced[c]
      BY <1>6
    <3>2. call[c].seen[j] = NoRow
      BY <1>1, <1>2, <3>1, CallsAssumption DEF StoreInv, CallOK, Shape, Locks,
         Evaluating
    <3>3. QED
      BY <1>1, <1>2, <3>1, <3>2 DEF StoreInv, CallOK, Current
  <2>4. Frame(c)
    BY <1>1, <2>1, <2>2 DEF Frame, SameArgs
  <2>5. TypeOK'
    BY <1>1, <2>1, <2>2 DEF StoreInv, TypeOK, SameArgs
  <2>6. Shape(c)' /\ Current(c)'
    BY <1>1, <1>2, <2>1, <2>3 DEF StoreInv, CallOK, Shape, Current, SameArgs,
       Evaluating, Pending
  <2>7. Locks(c)'
    BY <2>1, <2>2, CallsAssumption DEF Locks
  <2>8. QED
    BY <2>4, <2>5, <2>6, <2>7, OneCall DEF CallOK
<1>7. QED
  BY <1>3, <1>5, <1>6 DEF CreateRow

LEMMA AbortKeeps ==
  ASSUME StoreInv, NEW c \in Calls, Abort(c)
  PROVE  StoreInv'
<1>1. "failed" \in Dids /\ "failed" \in Results
  BY DEF Dids, Results
<1>2. /\ SameArgs(c) /\ call'[c].at = "answered" /\ call'[c].did = "failed"
      /\ call'[c].result = "failed"
  BY <1>1, AnswersType DEF Abort, StoreInv, TypeOK
<1>3. call[c].at # "idle" /\ UNCHANGED <<row, tickets, raced>>
  BY DEF Abort
<1>4. /\ holder' \in [Keys -> Calls \union {Nobody}]
      /\ \A k \in Keys : holder'[k] = IF holder[k] = c THEN Nobody ELSE holder[k]
  BY ReleasedType DEF Abort, RollsBack, StoreInv
<1>5. Frame(c)
  BY <1>2, <1>3, <1>4 DEF Frame, SameArgs
<1>6. TypeOK'
  BY <1>2, <1>3, <1>4 DEF StoreInv, TypeOK, SameArgs
<1>7. Shape(c)' /\ Current(c)'
  BY <1>2, <1>3 DEF StoreInv, CallOK, Shape, Current, SameArgs, Evaluating, Pending
<1>8. Locks(c)'
  BY <1>2, <1>4, CallsAssumption DEF Locks
<1>9. QED
  BY <1>5, <1>6, <1>7, <1>8, OneCall DEF CallOK

\* What a commit tells the other calls.
LEMMA ChangedOthers ==
  ASSUME TypeOK, NEW c \in Calls, NEW K \in SUBSET Keys, Changed(K, c)
  PROVE  /\ raced' \in [Calls -> SUBSET Keys] /\ raced'[c] = raced[c]
         /\ \A d \in Calls : raced[d] \subseteq raced'[d]
         /\ \A d \in Calls \ {c} : ~At(d, "idle") =>
              \A k \in K : k \in call[d].keys => k \in raced'[d]
  BY DEF Changed, TypeOK, CallType

LEMMA CommitKeeps ==
  ASSUME StoreInv, NEW c \in Calls, Commit(c)
  PROVE  StoreInv'
<1> DEFINE K == {k \in Keys : holder[k] = c}
<1>1. call[c].at = "committing" /\ UNCHANGED tickets
  BY DEF Commit, At
<1>2. PICK j \in Keys : call[c].keys = {j}
  BY <1>1 DEF StoreInv, CallOK, Shape, Evaluating
<1>3. call[c].ticket \in 1..MaxTickets
  BY <1>1 DEF StoreInv, CallOK, Shape
<1>4. holder[j] = c /\ K = {j}
  BY <1>1, <1>2 DEF StoreInv, CallOK, Locks
<1>5. row' = [k \in Keys |-> IF k \in K THEN call[c].ticket ELSE row[k]]
  BY DEF Commit
<1>6. row'[j] = call[c].ticket /\ \A k \in Keys \ {j} : row'[k] = row[k]
  BY <1>4, <1>5
<1>7. /\ holder' \in [Keys -> Calls \union {Nobody}]
      /\ \A k \in Keys : holder'[k] = IF holder[k] = c THEN Nobody ELSE holder[k]
  BY ReleasedType DEF Commit, StoreInv
<1>8. /\ raced' \in [Calls -> SUBSET Keys] /\ raced'[c] = raced[c]
      /\ \A d \in Calls : raced[d] \subseteq raced'[d]
      /\ \A d \in Calls \ {c} : ~At(d, "idle") =>
           \A k \in K : k \in call[d].keys => k \in raced'[d]
  <2>1. Changed(K, c)
    BY DEF Commit
  <2>2. QED
    BY <2>1, ChangedOthers DEF StoreInv
<1>9. /\ SameArgs(c) /\ call'[c].did = "wrote"
      /\ \/ call'[c].at = "readBack" /\ call'[c].result = call[c].result
         \/ call'[c].at = "answered" /\ call'[c].result = "created"
  <2>1. "wrote" \in Dids /\ "created" \in Results /\ "readBack" \in Places
    BY DEF Dids, Results, Places
  <2>2. CASE call' = [call EXCEPT ![c].at = "readBack", ![c].did = "wrote"]
    BY <2>1, <2>2, GoesDidType DEF StoreInv, TypeOK
  <2>3. CASE Answers(c, "wrote", "created")
    BY <2>1, <2>3, AnswersType DEF StoreInv, TypeOK
  <2>4. QED
    BY <2>2, <2>3 DEF Commit
<1>10. Frame(c)
  BY <1>1, <1>4, <1>6, <1>7, <1>8, <1>9 DEF Frame, SameArgs
<1>11. row' \in [Keys -> Nat]
  BY <1>3, <1>5, TicketsAssumption DEF StoreInv, TypeOK
<1>12. TypeOK'
  BY <1>1, <1>7, <1>8, <1>9, <1>11 DEF StoreInv, TypeOK, SameArgs
<1>13. Shape(c)' /\ Current(c)'
  BY <1>1, <1>2, <1>6, <1>8, <1>9 DEF StoreInv, CallOK, Shape, Current, SameArgs,
     Evaluating, Pending
<1>14. Locks(c)'
  BY <1>7, <1>9, CallsAssumption DEF Locks
<1>15. QED
  BY <1>10, <1>12, <1>13, <1>14, OneCall DEF CallOK

\* A call that is idle has nothing to keep, and its record is the idle one.
LEMMA IdleOK ==
  ASSUME NEW c \in Calls, call[c] = Idle, \A k \in Keys : holder[k] # c
  PROVE  CallOK(c)
  BY DEF Idle, CallOK, Shape, Current, Locks, Evaluating, Pending

LEMMA ReturnKeeps ==
  ASSUME StoreInv, NEW c \in Calls, Return(c)
  PROVE  StoreInv'
<1>1. /\ call[c].at = "answered" /\ UNCHANGED <<row, holder, tickets>>
      /\ call' = [call EXCEPT ![c] = Idle] /\ raced' = [raced EXCEPT ![c] = {}]
  BY DEF Return, At
<1>2. \A k \in Keys : holder[k] # c
  BY <1>1 DEF StoreInv, CallOK, Locks
<1>3. Frame(c)
  BY <1>1 DEF Frame, StoreInv, TypeOK
<1>4. TypeOK'
  BY <1>1, IdleType DEF StoreInv, TypeOK
<1>5. call'[c] = Idle
  BY <1>1 DEF StoreInv, TypeOK
<1>6. CallOK(c)'
  BY <1>1, <1>2, <1>5 DEF Idle, CallOK, Shape, Current, Locks, Evaluating, Pending
<1>7. QED
  BY <1>3, <1>4, <1>6, OneCall

LEMMA CrashKeeps ==
  ASSUME StoreInv, Crash
  PROVE  StoreInv'
<1>1. TypeOK'
  BY IdleType DEF Crash, StoreInv, TypeOK
<1>2. ASSUME NEW c \in Calls PROVE CallOK(c)'
  <2>1. call'[c] = Idle /\ \A k \in Keys : holder'[k] = Nobody
    BY DEF Crash
  <2>2. \A k \in Keys : holder'[k] # c
    BY <2>1, CallsAssumption
  <2>3. QED
    BY <2>1, <2>2 DEF Idle, CallOK, Shape, Current, Locks, Evaluating, Pending
<1>3. QED
  BY <1>1, <1>2 DEF StoreInv

LEMMA InitHolds ==
  ASSUME Init
  PROVE  StoreInv
<1>1. TypeOK
  BY IdleType DEF Init, TypeOK, NoRow, OldRow
<1>2. ASSUME NEW c \in Calls PROVE CallOK(c)
  BY CallsAssumption, IdleOK DEF Init
<1>3. QED
  BY <1>1, <1>2 DEF StoreInv

LEMMA BeginKeeps ==
  ASSUME StoreInv, NEW c \in Calls, NEW r \in Requests, NEW k \in Keys,
         Begin(c, r, k)
  PROVE  StoreInv'
<1> DEFINE t == tickets + 1
           q == [Idle EXCEPT !.at = "evaluating", !.mode = r.mode, !.via = r.via,
                             !.keys = {k}, !.units = r.units,
                             !.ticket = t]
<1>1. /\ call[c].at = "idle" /\ UNCHANGED <<row, holder>>
      /\ call' = [call EXCEPT ![c] = q]
      /\ raced' = [raced EXCEPT ![c] = {}] /\ tickets' = t
  BY DEF Begin, At
<1>2. /\ t \in Nat /\ t \in 1..MaxTickets
  BY TicketsAssumption DEF StoreInv, TypeOK, Begin
<1> HIDE DEF t
<1>3. /\ q \in CallType /\ q.at = "evaluating" /\ q.mode = r.mode
      /\ q.via = r.via /\ q.keys = {k} /\ q.ticket = t
      /\ q.units = r.units /\ q.did = "none" /\ q.result = "none"
  <2>1. r \in Request
    BY RequestsAssumption
  <2>2. QED
    BY <1>2, <2>1 DEF Request, Idle, CallType, Places, NoRow
<1>4. r.mode \in {"fill", "reeval"} /\ r.via \in {"bridge", "direct"}
  BY RequestsAssumption DEF Request
<1> HIDE DEF q
<1>5. \A j \in Keys : holder[j] # c
  BY <1>1 DEF StoreInv, CallOK, Locks
<1>6. Frame(c)
  BY <1>1 DEF Frame, StoreInv, TypeOK
<1>7. TypeOK'
  BY <1>1, <1>2, <1>3 DEF StoreInv, TypeOK
<1>8. call'[c] = q
  BY <1>1 DEF StoreInv, TypeOK
<1>9. CallOK(c)'
  BY <1>1, <1>2, <1>3, <1>4, <1>5, <1>8 DEF CallOK, Shape, Current, Locks,
     Evaluating, Pending
<1>10. QED
  BY <1>6, <1>7, <1>9, OneCall

LEMMA BeginResetKeeps ==
  ASSUME StoreInv, NEW c \in Calls, NEW K \in Groups, BeginReset(c, K)
  PROVE  StoreInv'
<1> DEFINE t == tickets + 1
           seen == [k \in Keys |-> IF k \in K THEN row[k] ELSE NoRow]
           todo == {k \in K : row[k] # NoRow}
           q == [Idle EXCEPT !.at = "resetting", !.mode = "reset", !.keys = K,
                             !.seen = seen, !.ticket = t, !.todo = todo]
<1>1. /\ call[c].at = "idle" /\ UNCHANGED <<row, holder>>
      /\ call' = [call EXCEPT ![c] = q]
      /\ raced' = [raced EXCEPT ![c] = {}] /\ tickets' = t
  BY DEF BeginReset, At
<1>2. /\ t \in Nat /\ t \in 1..MaxTickets
  BY TicketsAssumption DEF StoreInv, TypeOK, BeginReset
<1>3. K \in SUBSET Keys /\ todo \in SUBSET Keys /\ todo \subseteq K
  BY GroupsAssumption
<1>4. /\ seen \in [Keys -> Nat] /\ \A k \in K : seen[k] = row[k]
      /\ \A k \in K \ todo : seen[k] = NoRow
  BY <1>3 DEF StoreInv, TypeOK, NoRow
<1> HIDE DEF seen, todo, t
<1>5. /\ q \in CallType /\ q.at = "resetting" /\ q.mode = "reset"
      /\ q.keys = K /\ q.ticket = t /\ q.todo = todo /\ q.seen = seen
      /\ q.units = "none" /\ q.did = "none" /\ q.result = "none"
  BY <1>2, <1>3, <1>4 DEF Idle, CallType, Places, NoRow
<1> HIDE DEF q
<1>6. \A j \in Keys : holder[j] # c
  BY <1>1 DEF StoreInv, CallOK, Locks
<1>7. Frame(c)
  BY <1>1 DEF Frame, StoreInv, TypeOK
<1>8. TypeOK'
  BY <1>1, <1>2, <1>5 DEF StoreInv, TypeOK
<1>9. call'[c] = q
  BY <1>1 DEF StoreInv, TypeOK
<1>10. CallOK(c)'
  BY <1>1, <1>2, <1>3, <1>4, <1>5, <1>6, <1>9 DEF CallOK, Shape, Current, Locks,
     Evaluating, Pending
<1>11. QED
  BY <1>7, <1>8, <1>10, OneCall

LEMMA ResetRowKeeps ==
  ASSUME StoreInv, NEW c \in Calls, ResetRow(c)
  PROVE  StoreInv'
<1>1. call[c].at = "resetting" /\ UNCHANGED <<row, tickets, raced>>
  BY DEF ResetRow, At
<1>2. PICK k \in call[c].todo :
        /\ holder[k] = Nobody
        /\ call' = [call EXCEPT ![c].todo = call[c].todo \ {k}]
        /\ \/ row[k] = call[c].seen[k] /\ holder' = [holder EXCEPT ![k] = c]
           \/ row[k] # call[c].seen[k] /\ UNCHANGED holder
  BY DEF ResetRow
<1> DEFINE todo == call[c].todo \ {k}
<1>3. k \in Keys /\ todo \in SUBSET Keys /\ k \in call[c].keys
  BY <1>1 DEF StoreInv, TypeOK, CallType, CallOK, Shape
<1>4. call[c] \in CallType
  BY DEF StoreInv, TypeOK
<1>5. todo \subseteq call[c].todo /\ \A j \in call[c].todo \ todo : j = k
  OBVIOUS
<1>6. call' = [call EXCEPT ![c].todo = todo]
  BY <1>2
<1> HIDE DEF todo
<1>7. /\ SameArgs(c) /\ call'[c].at = "resetting" /\ call'[c].did = call[c].did
      /\ call'[c].result = call[c].result /\ call'[c].seen = call[c].seen
      /\ call'[c].todo = todo
  BY <1>1, <1>3, <1>4, <1>6 DEF StoreInv, TypeOK, SameArgs, CallType
<1>8. Frame(c)
  BY <1>1, <1>2, <1>3, <1>7 DEF Frame, SameArgs, StoreInv, TypeOK
<1>9. TypeOK'
  BY <1>1, <1>2, <1>3, <1>7 DEF StoreInv, TypeOK, SameArgs
<1>10. Shape(c)' /\ Current(c)'
  BY <1>1, <1>5, <1>7 DEF StoreInv, CallOK, Shape, Current, SameArgs,
     Evaluating, Pending
<1>11. row[k] = call[c].seen[k] \/ k \in raced[c]
  BY <1>1, <1>3 DEF StoreInv, CallOK, Current
<1>12. /\ \A j \in Keys \ {k} : holder'[j] = holder[j]
       /\ holder'[k] = c \/ (k \in raced[c] /\ holder'[k] = holder[k])
  BY <1>2, <1>3, <1>11 DEF StoreInv, TypeOK
<1>13. k \notin todo
  BY DEF todo
<1>14. call[c].keys \subseteq Keys
  BY <1>4 DEF CallType
<1>15. Locks(c)'
  BY <1>1, <1>2, <1>3, <1>5, <1>7, <1>12, <1>13, <1>14, CallsAssumption
     DEF StoreInv, CallOK, Locks, SameArgs
<1>16. QED
  BY <1>8, <1>9, <1>10, <1>15, OneCall DEF CallOK

LEMMA CommitResetKeeps ==
  ASSUME StoreInv, NEW c \in Calls, CommitReset(c)
  PROVE  StoreInv'
<1> DEFINE K == {k \in Keys : holder[k] = c}
<1>1. call[c].at = "resetting" /\ UNCHANGED tickets
  BY DEF CommitReset, At
<1>2. row' = [k \in Keys |-> IF k \in K THEN NoRow ELSE row[k]]
  BY DEF CommitReset
<1>3. /\ holder' \in [Keys -> Calls \union {Nobody}]
      /\ \A k \in Keys : holder'[k] = IF holder[k] = c THEN Nobody ELSE holder[k]
  BY ReleasedType DEF CommitReset, StoreInv
<1>4. /\ raced' \in [Calls -> SUBSET Keys] /\ raced'[c] = raced[c]
      /\ \A d \in Calls : raced[d] \subseteq raced'[d]
      /\ \A d \in Calls \ {c} : ~At(d, "idle") =>
           \A k \in K : k \in call[d].keys => k \in raced'[d]
  <2>1. Changed(K, c)
    BY DEF CommitReset
  <2>2. QED
    BY <2>1, ChangedOthers DEF StoreInv
<1>5. /\ SameArgs(c) /\ call'[c].at = "answered" /\ call'[c].did = "wrote"
      /\ call'[c].result = "done"
  <2>1. "wrote" \in Dids /\ "done" \in Results
    BY DEF Dids, Results
  <2>2. QED
    BY <2>1, AnswersType DEF CommitReset, StoreInv, TypeOK
<1>6. Frame(c)
  BY <1>1, <1>2, <1>3, <1>4, <1>5 DEF Frame, SameArgs
<1>7. row' \in [Keys -> Nat]
  BY <1>2 DEF StoreInv, TypeOK, NoRow
<1>8. TypeOK'
  BY <1>1, <1>3, <1>4, <1>5, <1>7 DEF StoreInv, TypeOK, SameArgs
<1>9. Shape(c)' /\ Current(c)'
  BY <1>1, <1>5 DEF StoreInv, CallOK, Shape, Current, SameArgs, Evaluating, Pending
<1>10. Locks(c)'
  BY <1>3, <1>5, CallsAssumption DEF Locks
<1>11. QED
  BY <1>6, <1>8, <1>9, <1>10, OneCall DEF CallOK

------------------------------------------------------------------------------
(* The theorems. *)

LEMMA NextKeeps ==
  ASSUME StoreInv, [Next]_vars
  PROVE  StoreInv'
<1>1. CASE UNCHANGED vars
  <2>1. TypeOK'
    BY <1>1 DEF vars, StoreInv, TypeOK
  <2>2. ASSUME NEW c \in Calls PROVE CallOK(c)'
    BY <1>1 DEF vars, StoreInv, CallOK, Shape, Current, Locks
  <2>3. QED
    BY <2>1, <2>2 DEF StoreInv
<1>2. CASE Crash
  BY <1>2, CrashKeeps
<1>3. ASSUME NEW c \in Calls, Arrive(c) PROVE StoreInv'
  BY <1>3, BeginKeeps, BeginResetKeeps DEF Arrive
<1>4. ASSUME NEW c \in Calls, Step(c) PROVE StoreInv'
  BY <1>4, ReadCoordinateKeeps, DeleteExistingKeeps, CreateRowKeeps, CommitKeeps,
     ReadBackByIdKeeps, ReadBackByCoordinateKeeps, ReturnKeeps, ResetRowKeeps,
     CommitResetKeeps DEF Step
<1>5. ASSUME NEW c \in Calls, GiveUp(c) \/ Abort(c) PROVE StoreInv'
  BY <1>5, GiveUpKeeps, AbortKeeps
<1>6. QED
  BY <1>1, <1>2, <1>3, <1>4, <1>5 DEF Next

LEMMA StoreInvInvariant == Spec => []StoreInv
  BY InitHolds, NextKeeps, PTL DEF Spec

\* Every variable keeps its type.
THEOREM TypeOKInvariant == Spec => []TypeOK
<1>1. StoreInv => TypeOK
  BY DEF StoreInv
<1>2. QED
  BY <1>1, StoreInvInvariant, PTL

\* A read-back comes up empty only for a call whose coordinate another call
\* changed, or whose results name a source twice.
THEOREM ReadBackFailsOnlyAfterRaceInvariant == Spec => []ReadBackFailsOnlyAfterRace
<1>1. StoreInv => ReadBackFailsOnlyAfterRace
  BY DEF StoreInv, CallOK, Current, ReadBackFailsOnlyAfterRace
<1>2. QED
  BY <1>1, StoreInvInvariant, PTL

\* No evaluating call ever leaves a coordinate that has a row without one:
\* replacing a row is indivisible for every reader.
THEOREM RowsSurviveEvaluationTheorem == Spec => RowsSurviveEvaluation
<1> DEFINE Survives ==
      \A k \in Keys : row[k] # NoRow /\ row'[k] = NoRow
            => \E c \in Calls : At(c, "resetting") /\ k \in call[c].keys
<1>1. ASSUME StoreInv, [Next]_vars PROVE [Survives]_vars
  <2>1. SUFFICES ASSUME NEW k \in Keys, row[k] # NoRow, row'[k] = NoRow
                 PROVE  \E c \in Calls : At(c, "resetting") /\ k \in call[c].keys
    OBVIOUS
  <2>2. PICK c \in Calls : Commit(c) \/ CommitReset(c)
    BY <1>1, <2>1 DEF Next, Arrive, Step, Begin, BeginReset, ReadCoordinate,
       DeleteExisting, CreateRow, ReadBackById, ReadBackByCoordinate, Return,
       ResetRow, GiveUp, Abort, Crash, vars
  <2>3. CASE Commit(c)
    <3>1. call[c].ticket \in 1..MaxTickets
      BY <1>1, <2>3 DEF StoreInv, CallOK, Shape, Commit, At
    <3>2. row'[k] \in {call[c].ticket, row[k]}
      BY <2>3 DEF Commit
    <3>3. QED
      BY <2>1, <3>1, <3>2, TicketsAssumption DEF NoRow
  <2>4. CASE CommitReset(c)
    <3>1. At(c, "resetting") /\ holder[k] = c
      BY <2>1, <2>4 DEF CommitReset
    <3>2. k \in call[c].keys
      BY <1>1, <3>1 DEF StoreInv, CallOK, Locks
    <3>3. QED
      BY <3>1, <3>2
  <2>5. QED
    BY <2>2, <2>3, <2>4
<1>2. QED
  BY <1>1, StoreInvInvariant, PTL DEF Spec, RowsSurviveEvaluation

------------------------------------------------------------------------------
(***************************************************************************)
(* AssessmentStore implements CoordinateMap, for any number of calls and   *)
(* coordinates.  A commit is the abstract write, whatever statements came  *)
(* before it; a conflict is the abstract refusal; the read-backs and the   *)
(* statements inside a transaction change nothing that CoordinateMap sees. *)
(***************************************************************************)

\* The abstract tasks.
Tasks == [c \in Calls |-> TaskOf(c)]

LEMMA TaskFields ==
  ASSUME NEW c \in Calls
  PROVE  /\ Tasks[c].mode = call[c].mode /\ Tasks[c].keys = call[c].keys
         /\ Tasks[c].id = call[c].ticket
         /\ Tasks[c].distinct = (call[c].units # "dup")
         /\ Tasks[c].fate = IF call[c].at = "idle" THEN "none"
                            ELSE IF call[c].did = "none" THEN "open"
                            ELSE call[c].did
  BY DEF Tasks, TaskOf, At

\* A step that decides nothing leaves the task as it is.
LEMMA SameTasks ==
  ASSUME NEW c \in Calls, SameArgs(c), call[c].at # "idle", call'[c].at # "idle",
         call'[c].did = call[c].did
  PROVE  Tasks' = Tasks
<1>1. ASSUME NEW d \in Calls PROVE TaskOf(d)' = TaskOf(d)
  BY DEF SameArgs, TaskOf, At
<1>2. QED
  BY <1>1 DEF Tasks

\* A step that decides the call's fate seals it.
LEMMA SealsTask ==
  ASSUME NEW c \in Calls, NEW fate, SameArgs(c), call[c].at # "idle",
         call'[c].at # "idle", call'[c].did = fate, fate # "none"
  PROVE  Map!Seal(c, fate)
<1>1. TaskOf(c)' = [TaskOf(c) EXCEPT !.fate = fate]
  BY DEF SameArgs, TaskOf, At
<1>2. ASSUME NEW d \in Calls \ {c} PROVE TaskOf(d)' = TaskOf(d)
  BY DEF SameArgs, TaskOf, At
<1>3. Tasks' = [Tasks EXCEPT ![c] = [Tasks[c] EXCEPT !.fate = fate]]
  BY <1>1, <1>2 DEF Tasks
<1>4. QED
  BY <1>3 DEF Map!Seal, Tasks

LEMMA OpenTask ==
  ASSUME TypeOK, NEW c \in Calls
  PROVE  Map!Open(c) <=> call[c].at # "idle" /\ call[c].did = "none"
<1>1. Map!Open(c) <=> Tasks[c].fate = "open"
  BY DEF Map!Open, Tasks
<1>2. QED
  BY <1>1, TaskFields DEF TypeOK, CallType

------------------------------------------------------------------------------
(* The steps that change what CoordinateMap sees. *)

LEMMA BeginStarts ==
  ASSUME StoreInv, NEW c \in Calls, NEW r \in Requests, NEW k \in Keys,
         Begin(c, r, k)
  PROVE  Map!Start(c)
<1>1. /\ call[c].at = "idle" /\ raced' = [raced EXCEPT ![c] = {}]
      /\ UNCHANGED row
  BY DEF Begin, At
<1>2. tickets + 1 \in 1..MaxTickets
  BY TicketsAssumption DEF StoreInv, TypeOK, Begin
<1>3. r.mode \in {"fill", "reeval", "reset"} /\ (r.units # "dup") \in BOOLEAN
  BY RequestsAssumption DEF Request
<1>4. Tasks[c].fate = "none"
  BY <1>1, TaskFields
<1> DEFINE t == [mode |-> r.mode, keys |-> {k}, id |-> tickets + 1,
                 distinct |-> r.units # "dup", fate |-> "open"]
<1>5. TaskOf(c)' = t
  BY DEF Begin, TaskOf, At, Idle, StoreInv, TypeOK
<1>6. ASSUME NEW d \in Calls \ {c} PROVE TaskOf(d)' = TaskOf(d)
  BY DEF Begin, TaskOf, At
<1>7. Tasks' = [Tasks EXCEPT ![c] = t]
  BY <1>5, <1>6 DEF Tasks
<1>8. {k} \in Groups \union {{j} : j \in Keys}
  OBVIOUS
<1>9. \E mode \in {"fill", "reeval", "reset"}, K \in Groups \union {{j} : j \in Keys},
        id \in 1..MaxTickets, distinct \in BOOLEAN :
          Tasks' = [Tasks EXCEPT ![c] = [mode |-> mode, keys |-> K, id |-> id,
                                         distinct |-> distinct, fate |-> "open"]]
  <2> DEFINE K == {k}
             id == tickets + 1
             distinct == r.units # "dup"
  <2>1. /\ K \in Groups \union {{j} : j \in Keys} /\ id \in 1..MaxTickets
        /\ distinct \in BOOLEAN /\ r.mode \in {"fill", "reeval", "reset"}
        /\ Tasks' = [Tasks EXCEPT ![c] = [mode |-> r.mode, keys |-> K, id |-> id,
                                         distinct |-> distinct, fate |-> "open"]]
    BY <1>2, <1>3, <1>7, <1>8
  <2> HIDE DEF K, id, distinct
  <2>2. QED
    BY <2>1, Zenon
<1>10. QED
  BY <1>1, <1>4, <1>9 DEF Map!Start, Tasks

LEMMA BeginResetStarts ==
  ASSUME StoreInv, NEW c \in Calls, NEW K \in Groups, BeginReset(c, K)
  PROVE  Map!Start(c)
<1>1. /\ call[c].at = "idle" /\ raced' = [raced EXCEPT ![c] = {}]
      /\ UNCHANGED row
  BY DEF BeginReset, At
<1>2. tickets + 1 \in 1..MaxTickets
  BY TicketsAssumption DEF StoreInv, TypeOK, BeginReset
<1>3. Tasks[c].fate = "none"
  BY <1>1, TaskFields
<1> DEFINE t == [mode |-> "reset", keys |-> K, id |-> tickets + 1,
                 distinct |-> TRUE, fate |-> "open"]
<1>4. TaskOf(c)' = t
  BY DEF BeginReset, TaskOf, At, Idle, StoreInv, TypeOK
<1>5. ASSUME NEW d \in Calls \ {c} PROVE TaskOf(d)' = TaskOf(d)
  BY DEF BeginReset, TaskOf, At
<1>6. Tasks' = [Tasks EXCEPT ![c] = t]
  BY <1>4, <1>5 DEF Tasks
<1>7. QED
  BY <1>1, <1>2, <1>3, <1>6 DEF Map!Start, Tasks

LEMMA ReturnCloses ==
  ASSUME StoreInv, NEW c \in Calls, Return(c)
  PROVE  Map!Close(c)
<1>1. /\ call[c].at = "answered" /\ raced' = [raced EXCEPT ![c] = {}]
      /\ call[c].did # "none" /\ UNCHANGED row
  BY DEF Return, At, StoreInv, CallOK, Shape
<1>2. Tasks[c].fate # "none" /\ ~Map!Open(c)
  BY <1>1, TaskFields, OpenTask DEF StoreInv
<1>3. TaskOf(c)' = Map!NoTask
  BY DEF Return, StoreInv, TypeOK, TaskOf, At, Idle, Map!NoTask
<1>4. ASSUME NEW d \in Calls \ {c} PROVE TaskOf(d)' = TaskOf(d)
  BY DEF Return, TaskOf, At
<1>5. Tasks' = [Tasks EXCEPT ![c] = Map!NoTask]
  BY <1>3, <1>4 DEF Tasks
<1>6. QED
  BY <1>1, <1>2, <1>5 DEF Map!Close, Tasks

LEMMA CrashCrashes ==
  ASSUME Crash
  PROVE  Map!Crash
<1>1. ASSUME NEW d \in Calls PROVE TaskOf(d)' = Map!NoTask
  BY DEF Crash, TaskOf, At, Idle, Map!NoTask
<1>2. Tasks' = [d \in Calls |-> Map!NoTask]
  BY <1>1 DEF Tasks
<1>3. QED
  BY <1>2 DEF Crash, Map!Crash, Tasks

LEMMA GiveUpFails ==
  ASSUME StoreInv, NEW c \in Calls, GiveUp(c) \/ Abort(c)
  PROVE  Map!Fail(c)
<1>1. /\ call[c].at \in Pending /\ UNCHANGED <<row, raced>>
      /\ Answers(c, "failed", "failed")
  BY DEF GiveUp, Abort, At, Pending
<1>2. call[c].at # "idle" /\ call[c].did = "none"
  BY <1>1 DEF StoreInv, CallOK, Shape, Pending
<1>3. "failed" \in Dids /\ "failed" \in Results
  BY DEF Dids, Results
<1>4. SameArgs(c) /\ call'[c].at = "answered" /\ call'[c].did = "failed"
  BY <1>1, <1>3, AnswersType DEF StoreInv, TypeOK
<1>5. Map!Seal(c, "failed")
  BY <1>2, <1>4, SealsTask
<1>6. Map!Open(c)
  BY <1>2, OpenTask DEF StoreInv
<1>7. QED
  BY <1>1, <1>5, <1>6 DEF Map!Fail

\* A conflict that persist() reports is a refusal the map allows.
LEMMA ConflictRefuses ==
  ASSUME StoreInv, NEW c \in Calls, call[c].at \in {"deleting", "inserting"},
         Conflicts(c), UNCHANGED <<row, raced>>, StoreInv'
  PROVE  Map!Refuse(c)
<1>1. call[c].at # "idle" /\ call[c].did = "none"
  BY DEF StoreInv, CallOK, Shape, Pending
<1>2. /\ SameArgs(c) /\ call'[c].did = "refused" /\ call'[c].at # "idle"
  BY ConflictsType DEF StoreInv, TypeOK
<1>3. Map!Seal(c, "refused")
  BY <1>1, <1>2, SealsTask
<1>4. Map!Open(c)
  BY <1>1, OpenTask DEF StoreInv
<1>5. raced[c] # {} \/ ~Tasks[c].distinct
  BY <1>2, TaskFields DEF StoreInv, CallOK, Current, SameArgs
<1>6. QED
  BY <1>3, <1>4, <1>5 DEF Map!Refuse, Tasks

LEMMA ReadCoordinateKeepsOrStutters ==
  ASSUME StoreInv, NEW c \in Calls, ReadCoordinate(c)
  PROVE  Map!Keep(c) \/ UNCHANGED Map!mapVars
<1> USE ReadCoordinateRecord
<1>1. call[c].at = "evaluating" /\ UNCHANGED <<row, raced>>
  BY DEF ReadCoordinate, At
<1>2. call[c].did = "none"
  BY <1>1 DEF StoreInv, CallOK, Shape, Pending
<1>3. PICK j \in Keys : call[c].keys = {j}
  BY <1>1 DEF StoreInv, CallOK, Shape, Evaluating
<1>4. CASE /\ call'[c].did = "kept" /\ row[j] # NoRow /\ call[c].mode = "fill"
           /\ call'[c].at # "idle"
  <2>1. Map!Seal(c, "kept")
    BY <1>1, <1>4, SealsTask
  <2>2. Map!Open(c)
    BY <1>1, <1>2, OpenTask DEF StoreInv
  <2>3. Tasks[c].mode = "fill" /\ \E k \in Tasks[c].keys : row[k] # NoRow
    BY <1>3, <1>4, TaskFields
  <2>4. QED
    BY <1>1, <2>1, <2>2, <2>3 DEF Map!Keep, Tasks
<1>5. CASE call'[c].did = call[c].did /\ call'[c].at # "idle"
  BY <1>1, <1>5, SameTasks DEF Map!mapVars, Tasks
<1>6. KeyOf(c) = j
  BY <1>3, KeyOfSingleton
<1>7. QED
  BY <1>4, <1>5, <1>6

LEMMA GoesStutters ==
  ASSUME StoreInv, NEW c \in Calls, NEW at \in Places \ {"idle"}, Goes(c, at),
         call[c].at # "idle", UNCHANGED <<row, raced>>
  PROVE  UNCHANGED Map!mapVars
<1>1. SameArgs(c) /\ call'[c].at # "idle" /\ call'[c].did = call[c].did
  BY GoesType DEF StoreInv, TypeOK
<1>2. QED
  BY <1>1, SameTasks DEF Map!mapVars, Tasks

LEMMA DeleteExistingStuttersOrRefuses ==
  ASSUME StoreInv, NEW c \in Calls, DeleteExisting(c)
  PROVE  Map!Refuse(c) \/ UNCHANGED Map!mapVars
<1>1. call[c].at = "deleting" /\ UNCHANGED <<row, raced>>
  BY DEF DeleteExisting, At
<1>2. CASE Goes(c, "inserting")
  <2>1. "inserting" \in Places \ {"idle"}
    BY DEF Places
  <2>2. QED
    BY <1>1, <1>2, <2>1, GoesStutters
<1>3. CASE Conflicts(c)
  BY <1>1, <1>3, ConflictRefuses, DeleteExistingKeeps
<1>4. QED
  BY <1>2, <1>3 DEF DeleteExisting

LEMMA CreateRowStuttersOrRefuses ==
  ASSUME StoreInv, NEW c \in Calls, CreateRow(c)
  PROVE  Map!Refuse(c) \/ UNCHANGED Map!mapVars
<1>1. call[c].at = "inserting" /\ UNCHANGED <<row, raced>>
  BY DEF CreateRow, At
<1>2. CASE Goes(c, "committing")
  <2>1. "committing" \in Places \ {"idle"}
    BY DEF Places
  <2>2. QED
    BY <1>1, <1>2, <2>1, GoesStutters
<1>3. CASE Conflicts(c)
  BY <1>1, <1>3, ConflictRefuses, CreateRowKeeps
<1>4. QED
  BY <1>2, <1>3 DEF CreateRow

LEMMA ReadBackStutters ==
  ASSUME StoreInv, NEW c \in Calls, ReadBackById(c) \/ ReadBackByCoordinate(c)
  PROVE  UNCHANGED Map!mapVars
<1>1. call[c].at \in {"readBack", "readKey"} /\ UNCHANGED <<row, raced>>
  BY DEF ReadBackById, ReadBackByCoordinate, At
<1>2. call[c].did \in Dids
  BY DEF StoreInv, TypeOK, CallType, Dids
<1>3. PICK result \in Results : Answers(c, call[c].did, result)
  BY DEF ReadBackById, ReadBackByCoordinate, Results
<1>4. SameArgs(c) /\ call'[c].at = "answered" /\ call'[c].did = call[c].did
  BY <1>2, <1>3, AnswersType DEF StoreInv, TypeOK
<1>5. QED
  BY <1>1, <1>4, SameTasks DEF Map!mapVars, Tasks

LEMMA ResetRowStutters ==
  ASSUME StoreInv, NEW c \in Calls, ResetRow(c)
  PROVE  UNCHANGED Map!mapVars
<1>1. call[c].at = "resetting" /\ UNCHANGED <<row, raced>>
  BY DEF ResetRow, At
<1>2. PICK k : call' = [call EXCEPT ![c].todo = call[c].todo \ {k}]
  BY DEF ResetRow
<1>3. ASSUME NEW d \in Calls PROVE TaskOf(d)' = TaskOf(d)
  BY <1>2 DEF TaskOf, At, StoreInv, TypeOK, CallType
<1>4. Tasks' = Tasks
  BY <1>3 DEF Tasks
<1>5. QED
  BY <1>1, <1>4 DEF Map!mapVars, Tasks

\* What the history records is what the map records.
LEMMA ChangedIsChanged ==
  ASSUME TypeOK, NEW c \in Calls, NEW K \in SUBSET Keys, Changed(K, c)
  PROVE  Map!Changed(K, c)
<1>1. ASSUME NEW d \in Calls
      PROVE  /\ Tasks[d].keys = call[d].keys
             /\ ~At(d, "idle") <=> Tasks[d].fate # "none"
  BY TaskFields DEF TypeOK, CallType, At
<1>2. raced' = [d \in Calls |-> IF d # c /\ Tasks[d].fate # "none"
                                THEN raced[d] \union (K \cap Tasks[d].keys)
                                ELSE raced[d]]
  BY <1>1 DEF Changed
<1>3. QED
  BY <1>2 DEF Map!Changed, Tasks

LEMMA CommitWrites ==
  ASSUME StoreInv, NEW c \in Calls, Commit(c)
  PROVE  Map!Write(c)
<1>1. call[c].at = "committing" /\ call[c].did = "none"
  BY DEF Commit, At, StoreInv, CallOK, Shape, Pending
<1>2. PICK j \in Keys : call[c].keys = {j}
  BY <1>1 DEF StoreInv, CallOK, Shape, Evaluating
<1>3. {k \in Keys : holder[k] = c} = {j}
  BY <1>1, <1>2 DEF StoreInv, CallOK, Locks
<1>4. row' = [row EXCEPT ![j] = call[c].ticket]
  BY <1>3 DEF Commit, StoreInv, TypeOK
<1>5. Map!Changed({j}, c)
  <2>1. Changed({j}, c)
    BY <1>3 DEF Commit
  <2>2. QED
    BY <2>1, ChangedIsChanged DEF StoreInv
<1>6. /\ call[c].units # "dup" /\ call[c].mode \in {"fill", "reeval"}
      /\ call[c].mode = "fill" => row[j] = NoRow
  BY <1>1, <1>2 DEF StoreInv, CallOK, Shape, Locks, Evaluating
<1>7. Map!Seal(c, "wrote")
  <2>1. "wrote" \in Dids /\ "created" \in Results /\ "readBack" \in Places
    BY DEF Dids, Results, Places
  <2>2. SameArgs(c) /\ call'[c].did = "wrote" /\ call'[c].at # "idle"
    BY <2>1, GoesDidType, AnswersType DEF Commit, StoreInv, TypeOK
  <2>3. QED
    BY <1>1, <2>2, SealsTask
<1>8. Map!Open(c)
  BY <1>1, OpenTask DEF StoreInv
<1>9. /\ Tasks[c].distinct /\ j \in Tasks[c].keys
      /\ Tasks[c].mode = call[c].mode /\ Tasks[c].id = call[c].ticket
  BY <1>2, <1>6, TaskFields
<1>10. QED
  BY <1>4, <1>5, <1>6, <1>7, <1>8, <1>9 DEF Map!Write, Tasks

LEMMA CommitResetClears ==
  ASSUME StoreInv, NEW c \in Calls, CommitReset(c)
  PROVE  Map!Clear(c)
<1> DEFINE K == {k \in Keys : holder[k] = c}
<1>1. /\ call[c].at = "resetting" /\ call[c].did = "none" /\ call[c].todo = {}
      /\ call[c].mode = "reset" /\ call[c].keys \subseteq Keys
  BY DEF CommitReset, At, StoreInv, TypeOK, CallType, CallOK, Shape, Pending
<1>2. K \in SUBSET call[c].keys
  BY <1>1 DEF StoreInv, CallOK, Locks
<1>3. \A k \in call[c].keys \ K : row[k] = NoRow \/ k \in raced[c]
  <2>1. SUFFICES ASSUME NEW k \in call[c].keys, holder[k] # c
                 PROVE  row[k] = NoRow \/ k \in raced[c]
    BY <1>1
  <2>2. call[c].seen[k] = NoRow \/ k \in raced[c]
    BY <1>1, <2>1 DEF StoreInv, CallOK, Locks
  <2>3. row[k] = call[c].seen[k] \/ k \in raced[c]
    BY <1>1, <2>1 DEF StoreInv, CallOK, Current
  <2>4. QED
    BY <2>2, <2>3
<1>4. row' = [k \in Keys |-> IF k \in K THEN NoRow ELSE row[k]]
  BY DEF CommitReset
<1>5. Map!Changed(K, c)
  <2>1. Changed(K, c)
    BY DEF CommitReset
  <2>2. QED
    BY <2>1, ChangedIsChanged DEF StoreInv
<1>6. Map!Seal(c, "wrote")
  <2>1. "wrote" \in Dids /\ "done" \in Results
    BY DEF Dids, Results
  <2>2. SameArgs(c) /\ call'[c].did = "wrote" /\ call'[c].at # "idle"
    BY <2>1, AnswersType DEF CommitReset, StoreInv, TypeOK
  <2>3. QED
    BY <1>1, <2>2, SealsTask
<1>7. Map!Open(c)
  BY <1>1, OpenTask DEF StoreInv
<1>8. Tasks[c].keys = call[c].keys /\ Tasks[c].mode = "reset"
  BY <1>1, TaskFields
<1> HIDE DEF K
<1>9. QED
  BY <1>2, <1>3, <1>4, <1>5, <1>6, <1>7, <1>8 DEF Map!Clear, Tasks

------------------------------------------------------------------------------
(* The theorem. *)

LEMMA InitMaps ==
  ASSUME Init
  PROVE  Map!MapInit
<1>1. row \in [Keys -> (1..MaxTickets) \union {NoRow}]
  BY TicketsAssumption DEF Init, NoRow, OldRow
<1>2. ASSUME NEW c \in Calls PROVE TaskOf(c) = Map!NoTask
  BY DEF Init, TaskOf, At, Idle, Map!NoTask
<1>3. Tasks = [c \in Calls |-> Map!NoTask]
  BY <1>2 DEF Tasks
<1>4. QED
  BY <1>1, <1>3 DEF Init, Map!MapInit, Tasks

LEMMA NextMaps ==
  ASSUME StoreInv, [Next]_vars
  PROVE  [Map!MapNext]_Map!mapVars
<1>1. CASE UNCHANGED vars
  <2>1. ASSUME NEW c \in Calls PROVE TaskOf(c)' = TaskOf(c)
    BY <1>1 DEF vars, TaskOf, At
  <2>2. Tasks' = Tasks
    BY <2>1 DEF Tasks
  <2>3. QED
    BY <1>1, <2>2 DEF vars, Map!mapVars, Tasks
<1>2. CASE Crash
  BY <1>2, CrashCrashes DEF Map!MapNext
<1>3. ASSUME NEW c \in Calls, Arrive(c) PROVE Map!MapNext
  BY <1>3, BeginStarts, BeginResetStarts DEF Arrive, Map!MapNext
<1>4. ASSUME NEW c \in Calls, GiveUp(c) \/ Abort(c) PROVE Map!MapNext
  BY <1>4, GiveUpFails DEF Map!MapNext
<1>5. ASSUME NEW c \in Calls, Step(c) PROVE Map!MapNext \/ UNCHANGED Map!mapVars
  <2>1. \/ Map!Keep(c) \/ Map!Refuse(c) \/ Map!Write(c) \/ Map!Clear(c)
        \/ Map!Close(c) \/ UNCHANGED Map!mapVars
    BY <1>5, ReadCoordinateKeepsOrStutters, DeleteExistingStuttersOrRefuses,
       CreateRowStuttersOrRefuses, CommitWrites, ReadBackStutters, ReturnCloses,
       ResetRowStutters, CommitResetClears DEF Step
  <2>2. QED
    BY <2>1 DEF Map!MapNext
<1>6. QED
  BY <1>1, <1>2, <1>3, <1>4, <1>5 DEF Next

\* Every behaviour of the store is one of CoordinateMap: each writing call
\* takes effect at one instant, whatever it overlaps with.
THEOREM StoreImplementsMap == Spec => ImplementsMap
<1>1. QED
  BY InitMaps, NextMaps, StoreInvInvariant, PTL
     DEF Spec, ImplementsMap, Map!MapSpec
==============================================================================
