----------------------------- MODULE DataManager -----------------------------
(***************************************************************************)
(* util/data_structure_manager.hpp and the commands that every manager has *)
(* (util/data_structure_manager_common_cmd.hpp): the list of the circuits, *)
(* ZX graphs, tensors, tableaux or devices of a session, one of which has  *)
(* the focus.  Commands of the subsystems read, convert, translate and     *)
(* optimize through it (cmd/qcir_cmd.cpp, cmd/conversion_cmd.cpp,          *)
(* cmd/qcir/optimizer_cmd.cpp, ...).                                       *)
(*                                                                         *)
(* A datum is the number of the construction or the edit it comes from.    *)
(* A command is one step: commands of one session do not run concurrently. *)
(***************************************************************************)
EXTENDS Naturals

CONSTANTS MaxId,   \* bounds: the largest id that is given,
          MaxMade  \* and how many data are made

ASSUME ManagerAssumption == MaxId \in Nat /\ MaxMade \in Nat

VARIABLES list,      \* _list
          nextId,    \* _next_id
          focusedId, \* _focused_id
          running,   \* no exception has left a command thread, no null was followed
          made,      \* history: how many data were made,
          request    \*    and what the user asked for last

managerVars == <<list, nextId, focusedId, running, made, request>>

Ids == 0 .. MaxId

ManagerInit == /\ list = <<>>
               /\ nextId = 0
               /\ focusedId = 0
               /\ running = TRUE
               /\ made = 0
               /\ request = "none"

-----------------------------------------------------------------------------
(* The operations of a manager                                             *)

Empty == list = <<>>
IsId(id) == id \in DOMAIN list

\* get() answers with a datum; otherwise it is a null pointer (the list is
\* empty) or throws (_list.at).
HasFocus == IsId(focusedId)

\* A new datum
Make == made < MaxMade /\ made' = made + 1

Raise(id) == IF id >= nextId THEN id + 1 ELSE nextId

\* What the list becomes: insert_or_assign, and emplace
Assigned(id, datum) == [i \in DOMAIN list \cup {id} |-> IF i = id THEN datum ELSE list[i]]
Emplaced(id, datum) == IF IsId(id) THEN list ELSE Assigned(id, datum)

\* add, with emplace, which keeps what is at the id already
Add(id) == /\ Make
           /\ id \in Ids
           /\ list' = Emplaced(id, made')
           /\ focusedId' = id
           /\ nextId' = Raise(id)

\* set_by_id, with insert_or_assign, and set
SetById(id) == /\ Make
               /\ list' = Assigned(id, made')
               /\ UNCHANGED <<nextId, focusedId>>

\* checkout on a list l: an id that is not there is an error message
Checkout(l, id) == IF id \in DOMAIN l THEN id ELSE focusedId

\* Where the focus goes when id is removed and l is left
FocusWithout(id, l) == IF l # <<>> /\ focusedId = id THEN Checkout(l, 0) ELSE focusedId

\* remove
Remove(id) ==
    /\ IF IsId(id)
       THEN /\ list' = [other \in DOMAIN list \ {id} |-> list[other]]
            /\ focusedId' = FocusWithout(id, list')
       ELSE UNCHANGED <<list, focusedId>>
    /\ UNCHANGED <<nextId, made>>

\* clear
Clear == list' = <<>> /\ nextId' = 0 /\ focusedId' = 0 /\ UNCHANGED made

\* copy, of the datum with the focus
\* (mutant: _next_id is not looked at)
CopyUncounted(id) == /\ Make
                     /\ list' = Assigned(id, made')
                     /\ focusedId' = id
                     /\ UNCHANGED nextId
Copy(id) == /\ Make
            /\ list' = Assigned(id, made')
            /\ focusedId' = id
            /\ nextId' = Raise(id)

-----------------------------------------------------------------------------
(* The commands                                                            *)

Asked(what) == request' = what /\ UNCHANGED running

\* An error message, or nothing to do
Refuse == Asked("nothing") /\ UNCHANGED <<list, nextId, focusedId, made>>

\* A command that follows get() although there is no datum with the focus:
\* the process ends.
Abort == /\ running' = FALSE
         /\ request' = "nothing"
         /\ UNCHANGED <<list, nextId, focusedId, made>>

\* new [id] [--replace]; no id given is the id _next_id
NewCmd(id, replace) ==
    \/ ~IsId(id) /\ Add(id) /\ Asked("keep")
    \/ IsId(id) /\ replace /\ SetById(id) /\ Asked("replace")
    \/ IsId(id) /\ ~replace /\ Refuse

\* delete id, delete (the one with the focus), delete --all
DeleteCmd ==
    \/ Empty /\ Refuse
    \/ \E id \in DOMAIN list : Remove(id) /\ Asked("delete")
    \/ ~Empty /\ Remove(focusedId) /\ Asked("delete")
    \/ ~Empty /\ Clear /\ Asked("delete")

\* checkout id: only an id of the list is accepted
CheckoutCmd(id) ==
    \/ /\ IsId(id)
       /\ focusedId' = Checkout(list, id)
       /\ UNCHANGED <<list, nextId, made>>
       /\ Asked("focus")
    \/ ~IsId(id) /\ Refuse

\* copy [id] [--replace]
CopyCmd(id, replace) ==
    \/ /\ Empty \/ (IsId(id) /\ ~replace)
       /\ Refuse
    \/ /\ ~Empty
       /\ IsId(id) => replace
       /\ \/ ~HasFocus /\ Abort
          \/ HasFocus /\ Copy(id) /\ Asked(IF IsId(id) THEN "replace" ELSE "keep")

\* read file [--replace], of circuits, graphs, tensors and devices
\* (mutant: an empty list is not treated apart)
ReadCmdAnywhere(replace) ==
    \/ ~replace /\ Add(nextId) /\ Asked("keep")
    \/ replace /\ SetById(focusedId) /\ Asked("replace")
ReadCmd(replace) ==
    \/ (Empty \/ ~replace) /\ Add(nextId) /\ Asked("keep")
    \/ ~Empty /\ replace /\ SetById(focusedId) /\ Asked("replace")
    \/ Refuse

\* A conversion from another manager, the mapper, the oracle synthesis: what
\* they return is added; they may fail.
ResultArrives == \/ Add(nextId) /\ Asked("keep")
                 \/ Refuse

\* A command that works on the datum with the focus: it edits it in place, or
\* sets the result in its place, or adds it (--copy), or fails.
WorkOnFocused(copy) ==
    \/ Empty /\ Refuse
    \/ ~Empty /\ ~HasFocus /\ Abort
    \/ /\ HasFocus
       /\ \/ copy /\ Add(nextId) /\ Asked("keep")
          \/ ~copy /\ SetById(focusedId) /\ Asked("replace")
          \/ Refuse

\* qcir translate, which does not look whether the list is empty
TranslateCmd == \/ ~HasFocus /\ Abort
                \/ HasFocus /\ SetById(focusedId) /\ Asked("replace")
                \/ HasFocus /\ Refuse

ManagerNext ==
    \/ /\ running
       /\ \/ \E id \in Ids, replace \in BOOLEAN : NewCmd(id, replace) \/ CopyCmd(id, replace)
          \/ DeleteCmd
          \/ \E id \in Ids : CheckoutCmd(id)
          \/ \E replace \in BOOLEAN : ReadCmd(replace)
          \/ ResultArrives
          \/ \E copy \in BOOLEAN : WorkOnFocused(copy)
          \/ TranslateCmd
    \/ ~running /\ UNCHANGED managerVars

ManagerSpec == ManagerInit /\ [][ManagerNext]_managerVars

-----------------------------------------------------------------------------
\* The list is a map from ids to data that were made, no two of them the same.
ManagerTypeOK ==
    /\ DOMAIN list \subseteq Ids
    /\ \A id \in DOMAIN list : list[id] \in 1 .. made
    /\ \A i, j \in DOMAIN list : list[i] = list[j] => i = j
    /\ made \in Nat
    /\ nextId \in Nat
    /\ focusedId \in Ids
    /\ focusedId < nextId \/ (focusedId = 0 /\ Empty)
    /\ running \in BOOLEAN

\* The id that the next result gets is above every id of the list, whichever
\* ids the user gave, copied to, replaced and deleted: add would silently drop
\* the result otherwise.
NextIdFresh == \A id \in DOMAIN list : id < nextId

\* The inductive invariant.
ManagerInv == ManagerTypeOK /\ NextIdFresh

\* The manager is a store of data to its user.
Store == INSTANCE DataStore
KeepsEveryResult == Store!StoreSpec
=============================================================================
