------------------------------ MODULE KVStore ------------------------------
(***************************************************************************)
(* What the storage engine promises its callers (spec section 4.5 and 8): *)
(* insert assigns the next id and, when it succeeds, makes the value      *)
(* readable under that id; a failed insert still consumes its id; get of  *)
(* an id returns exactly the value inserted under it, or not-found for an *)
(* id no successful insert returned.  Operations are atomic here: this is *)
(* the specification the locked, multi-step engine of Storage.tla is      *)
(* checked against.                                                        *)
(***************************************************************************)
EXTENDS Naturals

CONSTANTS
    Values,     \* values that can be inserted (request bodies)
    Readers,    \* threads issuing get
    MaxIds,     \* ids 0..MaxIds-1 can be assigned
    NotFound    \* the result of get for an id holding no value

VARIABLES
    store,      \* id -> value, or NotFound
    nextId,     \* the id the next insert is given
    result      \* reader -> value its last get returned

vars == <<store, nextId, result>>

Ids == 0..MaxIds

Init ==
    /\ store = [i \in Ids |-> NotFound]
    /\ nextId = 0
    /\ result = [r \in Readers |-> NotFound]

\* A successful insert: the value becomes readable under the next id.
Insert(v) ==
    /\ nextId < MaxIds
    /\ store' = [store EXCEPT ![nextId] = v]
    /\ nextId' = nextId + 1
    /\ UNCHANGED result

\* A failed insert: the id is used up, nothing becomes readable.
InsertFails ==
    /\ nextId < MaxIds
    /\ nextId' = nextId + 1
    /\ UNCHANGED <<store, result>>

Get(r, id) ==
    /\ result' = [result EXCEPT ![r] = store[id]]
    /\ UNCHANGED <<store, nextId>>

Next ==
    \/ \E v \in Values : Insert(v)
    \/ InsertFails
    \/ \E r \in Readers, id \in Ids : Get(r, id)

Spec == Init /\ [][Next]_vars

=============================================================================
