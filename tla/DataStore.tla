------------------------------ MODULE DataStore ------------------------------
(***************************************************************************)
(* What the list of circuits (graphs, tensors, tableaux, devices) is to a  *)
(* user: every datum that a command makes is under an id; a command that   *)
(* keeps a result never overwrites another datum, and the kept one has the *)
(* focus; data go only when the user replaces or deletes them.             *)
(***************************************************************************)
EXTENDS Naturals

VARIABLES list,      \* id |-> datum
          focusedId, \* the id that commands without an id work on
          made,      \* how many data were made; the latest one is the number itself
          request    \* what the user asked for last

storeVars == <<list, focusedId, made, request>>

StoreInit == list = <<>> /\ focusedId = 0 /\ made = 0 /\ request = "none"

Make == made' = made + 1
Put(id, datum) == [i \in DOMAIN list \cup {id} |-> IF i = id THEN datum ELSE list[i]]

Keep == /\ request' = "keep"
        /\ Make
        /\ focusedId' \notin DOMAIN list
        /\ list' = Put(focusedId', made')

Replace(id) == /\ request' = "replace"
               /\ Make
               /\ list' = Put(id, made')
               /\ focusedId' \in {focusedId, id}

\* The focus may only move to 0.
Delete(id) == /\ request' = "delete"
              /\ list' = [other \in DOMAIN list \ {id} |-> list[other]]
              /\ focusedId' = focusedId \/ (focusedId = id /\ focusedId' = 0)
              /\ UNCHANGED made

DeleteAll == /\ request' = "delete"
             /\ list' = <<>>
             /\ focusedId' = 0
             /\ UNCHANGED made

Focus == /\ request' = "focus"
         /\ focusedId' \in DOMAIN list
         /\ UNCHANGED <<list, made>>

\* A command that fails, or has nothing to work on
Refuse == UNCHANGED <<list, focusedId, made>>

StoreNext == \/ Keep
             \/ \E id \in DOMAIN list' : Replace(id)
             \/ \E id \in DOMAIN list : Delete(id)
             \/ DeleteAll
             \/ Focus
             \/ Refuse

StoreSpec == StoreInit /\ [][StoreNext]_storeVars
=============================================================================
