----------------------------- MODULE LlmProviders ----------------------------
(***************************************************************************)
(* LLM provider configurations, the default slot, the slots per difficulty *)
(* and the evaluations that call a provider through them (src/src/llm).    *)
(*                                                                         *)
(* Each statement of a handler is a step.  Both slots refer to their       *)
(* configuration with onDelete: Restrict.                                  *)
(***************************************************************************)
EXTENDS Integers, FiniteSets

CONSTANTS
    Callers,        \* requests and evaluations in flight
    Ids,            \* configurations, each created at most once
    ModelIds,       \* names of models; a generated id is none of them
    Difficulties,   \* easy, medium and hard
    MaxMoves        \* bound: slots set

VARIABLES
    config,     \* id -> "unborn", "gone" or the configuration's modelId
    slot,       \* the default provider's id, "none" before the first
    mapping,    \* difficulty -> id, "none" while unassigned, "absent" before the seed
    caller,     \* request -> its locals and program counter
    moves       \* writes of slots so far

vars == <<config, slot, mapping, caller, moves>>

Idle == [at |-> "idle", kind |-> "none", id |-> "none", slot |-> "none",
         todo |-> {}, began |-> 0]

At(c, place) == caller[c].at = place
Stored == {i \in Ids : config[i] \in ModelIds}
Referenced == {slot} \cup {mapping[d] : d \in Difficulties}

Goes(c, place) == caller' = [caller EXCEPT ![c].at = place]
Answers(c) == caller' = [caller EXCEPT ![c] = Idle]
Finds(c, id) == caller' = [caller EXCEPT ![c].at = "config", ![c].id = id]
Begins(c, call) ==
    /\ At(c, "idle")
    /\ caller' = [caller EXCEPT ![c] = [call EXCEPT !.began = moves]]

------------------------------------------------------------------------------
(* Configurations. *)

\* POST configurations: one statement decides.
Create(i, m) ==
    /\ config[i] = "unborn"
    /\ config' = [config EXCEPT ![i] = m]
    /\ UNCHANGED <<slot, mapping, caller, moves>>

\* PATCH may change the model.
Update(i, m) ==
    /\ i \in Stored
    /\ config' = [config EXCEPT ![i] = m]
    /\ UNCHANGED <<slot, mapping, caller, moves>>

\* DELETE answers 409 while a slot refers to the configuration (P2003).
Delete(i) ==
    /\ i \in Stored \ Referenced
    /\ config' = [config EXCEPT ![i] = "gone"]
    /\ UNCHANGED <<slot, mapping, caller, moves>>

\* PUT default: one upsert, refused when there is no such configuration; the
\* row is then read for the answer.
SetDefault(c, i) ==
    /\ moves < MaxMoves
    /\ i \in Stored
    /\ Begins(c, [Idle EXCEPT !.at = "readback", !.kind = "setDefault", !.id = i])
    /\ slot' = i
    /\ moves' = moves + 1
    /\ UNCHANGED <<config, mapping>>

\* The row is answered, or 404 if it has gone meanwhile.
ReadBack(c) ==
    /\ At(c, "readback")
    /\ Answers(c)
    /\ UNCHANGED <<config, slot, mapping, moves>>

------------------------------------------------------------------------------
(* Slots per difficulty. *)

\* PATCH mapping looks the configuration up, then updates the slot.
Assign(c, d, i) ==
    /\ i \in Stored
    /\ Begins(c, [Idle EXCEPT !.at = "assign", !.kind = "assign", !.id = i, !.slot = d])
    /\ UNCHANGED <<config, slot, mapping, moves>>

\* Mutant of UpdateMapping: the row is believed to be there still.
UpdateMapping_Unchecked(c) ==
    /\ At(c, "assign")
    /\ moves < MaxMoves
    /\ mapping[caller[c].slot] # "absent"
    /\ mapping' = [mapping EXCEPT ![caller[c].slot] = caller[c].id]
    /\ moves' = moves + 1
    /\ Answers(c)
    /\ UNCHANGED <<config, slot>>

\* The update needs the slot's row (P2025) and, by the reference, the
\* configuration (P2003): without them the request fails, CallFails.
UpdateMapping(c) ==
    /\ caller[c].id \in Stored
    /\ UpdateMapping_Unchecked(c)

\* POST seed reads the rows and creates those that were missing.
Seed(c) ==
    /\ Begins(c, [Idle EXCEPT !.at = "seed", !.kind = "seed",
                     !.todo = {d \in Difficulties : mapping[d] = "absent"}])
    /\ UNCHANGED <<config, slot, mapping, moves>>

\* A row that another seed has created meanwhile is left alone (P2002).
SeedSlot(c) ==
    \E d \in caller[c].todo :
        /\ At(c, "seed")
        /\ mapping' = [mapping EXCEPT ![d] = IF @ = "absent" THEN "none" ELSE @]
        /\ caller' = [caller EXCEPT ![c].todo = @ \ {d}]
        /\ UNCHANGED <<config, slot, moves>>

Seeded(c) ==
    /\ At(c, "seed") /\ caller[c].todo = {}
    /\ Answers(c)
    /\ UNCHANGED <<config, slot, mapping, moves>>

------------------------------------------------------------------------------
(* Evaluations. *)

\* An evaluation asks for the default provider: the tick and the fill runs
\* for its modelId, the refresh of recent days for its id.
Evaluate(c, kind) ==
    /\ Begins(c, [Idle EXCEPT !.at = "default", !.kind = kind])
    /\ UNCHANGED <<config, slot, mapping, moves>>

\* What the resolver hands on for a row it has found.
Resolved(c, i) == Finds(c, IF caller[c].kind = "tick" THEN config[i] ELSE i)

\* resolveDefaultRow: the slot, or without one the only configuration there
\* is; none, or several, is an error.
FindSlot(c) ==
    /\ At(c, "default")
    /\ caller' = [caller EXCEPT ![c].at = IF slot = "none" THEN "only" ELSE "row", ![c].id = slot]
    /\ UNCHANGED <<config, slot, mapping, moves>>

FindRow(c) ==
    /\ At(c, "row") /\ caller[c].id \in Stored
    /\ Resolved(c, caller[c].id)
    /\ UNCHANGED <<config, slot, mapping, moves>>

FindOnly(c) ==
    /\ At(c, "only")
    /\ \E i \in Ids : Stored = {i} /\ Resolved(c, i)
    /\ UNCHANGED <<config, slot, mapping, moves>>

\* resolveModel: the slot of the unit's difficulty, then its configuration.
Route(c, d) ==
    /\ mapping[d] \notin {"absent", "none"}
    /\ Begins(c, [Idle EXCEPT !.at = "mapped", !.kind = "routed", !.id = mapping[d]])
    /\ UNCHANGED <<config, slot, mapping, moves>>

FindMapped(c) ==
    /\ At(c, "mapped") /\ caller[c].id \in Stored
    /\ Finds(c, caller[c].id)
    /\ UNCHANGED <<config, slot, mapping, moves>>

\* generate finds the configuration by id and calls its provider; a run
\* calls it for one unit after another.
Generate(c) ==
    /\ At(c, "config") /\ caller[c].id \in Stored
    /\ \/ Goes(c, "config") \/ Answers(c)
    /\ UNCHANGED <<config, slot, mapping, moves>>

\* What was looked up is not there.
NotFound(c) ==
    /\ \/ At(c, "assign") /\ (caller[c].id \notin Stored \/ mapping[caller[c].slot] = "absent")
       \/ caller[c].at \in {"row", "mapped", "config"} /\ caller[c].id \notin Stored
       \/ At(c, "only") /\ Cardinality(Stored) # 1
    /\ Answers(c)
    /\ UNCHANGED <<config, slot, mapping, moves>>

\* A statement fails or the process dies.
CallFails(c) ==
    /\ ~At(c, "idle")
    /\ Answers(c)
    /\ UNCHANGED <<config, slot, mapping, moves>>

Init ==
    /\ config = [i \in Ids |-> "unborn"]
    /\ slot = "none"
    /\ mapping = [d \in Difficulties |-> "absent"]
    /\ caller = [c \in Callers |-> Idle]
    /\ moves = 0

Next ==
    \/ \E i \in Ids, m \in ModelIds : Create(i, m) \/ Update(i, m)
    \/ \E i \in Ids : Delete(i)
    \/ \E c \in Callers :
          \/ \E i \in Ids : SetDefault(c, i) \/ \E d \in Difficulties : Assign(c, d, i)
          \/ \E d \in Difficulties : Route(c, d)
          \/ Evaluate(c, "tick") \/ Evaluate(c, "refresh")
          \/ ReadBack(c) \/ UpdateMapping(c) \/ Seed(c) \/ SeedSlot(c) \/ Seeded(c)
          \/ FindSlot(c) \/ FindRow(c) \/ FindOnly(c) \/ FindMapped(c) \/ Generate(c)
          \/ NotFound(c) \/ CallFails(c)

Spec == Init /\ [][Next]_vars

------------------------------------------------------------------------------
(* Properties. *)

\* The types of the variables.
TypeOK ==
    /\ config \in [Ids -> ModelIds \cup {"unborn", "gone"}]
    /\ slot \in Ids \cup {"none"}
    /\ mapping \in [Difficulties -> Ids \cup {"none", "absent"}]
    /\ moves \in 0..MaxMoves
    /\ \A c \in Callers :
          /\ caller[c].at \in {"idle", "readback", "assign", "seed", "default", "row", "only",
                               "mapped", "config"}
          /\ caller[c].id \in Ids \cup ModelIds \cup {"none"}
          /\ caller[c].todo \subseteq Difficulties

\* The next statement of c finds no configuration.
Misses(c) == caller[c].at \in {"row", "mapped", "config"} /\ caller[c].id \notin Stored

\* Both references hold, so an evaluation loses the provider it was routed to
\* only to a slot that was moved after it began, and a refresh besides when
\* there is no default (llm-http-gateway.service.ts:119); a default that was
\* set is read back unless it was moved (llm-provider-config.service.ts:344).
ServedUnlessMoved ==
    \A c \in Callers :
        /\ Misses(c) /\ caller[c].kind = "routed" => moves > caller[c].began
        /\ Misses(c) /\ caller[c].kind = "refresh" => moves > caller[c].began \/ slot = "none"
        /\ At(c, "readback") /\ caller[c].id \notin Stored => moves > caller[c].began + 1

\* A seed leaves every slot with a row, and takes no provider from a slot that
\* was assigned before or while it ran (difficulty-mapping.service.ts:216).
SeedsKeepAssignments ==
    /\ \A d \in Difficulties : mapping[d] \in Ids => mapping'[d] \in Ids
    /\ \A c \in Callers : Seeded(c) => \A d \in Difficulties : mapping[d] # "absent"

\* An evaluation that has resolved the default provider finds it: "the
\* LlmProviderConfig.modelId to use" (llm-gateway.interface.ts:48).  The tick
\* hands the gateway a modelId, and the gateway looks for an id
\* (evaluation-tick-runner.service.ts:88, llm-http-gateway.service.ts:119).
TickFindsProvider ==
    \A c \in Callers :
        At(c, "config") /\ caller[c].kind = "tick" =>
            moves > caller[c].began \/ slot = "none" \/ caller[c].id \in Stored
==============================================================================
