-------------------------- MODULE DataManagerProofs --------------------------
(***************************************************************************)
(* DataManager, proved for every bound: its inductive invariant, and that  *)
(* it implements DataStore.                                                *)
(***************************************************************************)
EXTENDS DataManager, TLAPS

\* A refusal, an abort or a stutter changes nothing that the invariant is about.
LEMMA StaysTheSame ==
    ASSUME ManagerInv, UNCHANGED <<list, nextId, focusedId, made>>, running' \in BOOLEAN
    PROVE  ManagerInv'
  BY DEF ManagerInv, ManagerTypeOK, NextIdFresh, Empty

\* _next_id is raised beyond an id that is given.
LEMMA RaisedBeyond ==
    ASSUME NEW id \in Ids, nextId \in Nat
    PROVE  Raise(id) \in Nat /\ id < Raise(id) /\ nextId <= Raise(id)
  BY ManagerAssumption DEF Raise, Ids

\* A new datum under an id of the range leaves the list a map from ids to data that were
\* made, no two the same.
LEMMA ListWithNew ==
    ASSUME ManagerTypeOK, NEW id \in Ids, made' = made + 1, list' = Assigned(id, made')
    PROVE  /\ DOMAIN list' = DOMAIN list \cup {id}
           /\ DOMAIN list' \subseteq Ids
           /\ made' \in Nat
           /\ \A i \in DOMAIN list' : list'[i] \in 1 .. made'
           /\ \A i, j \in DOMAIN list' : list'[i] = list'[j] => i = j
  <1>1. /\ DOMAIN list' = DOMAIN list \cup {id}
        /\ list'[id] = made'
        /\ \A j \in DOMAIN list \ {id} : list'[j] = list[j]
    BY DEF Assigned
  <1>2. made \in Nat /\ \A j \in DOMAIN list : list[j] \in 1 .. made
    BY DEF ManagerTypeOK
  <1>3. made' \in Nat /\ \A j \in DOMAIN list : list[j] \in 1 .. made' /\ list[j] # made'
    BY <1>2
  <1>4. made' \in 1 .. made'
    BY <1>2
  <1>5. \A i \in DOMAIN list' : list'[i] \in 1 .. made'
    BY <1>1, <1>3, <1>4
  <1>6. \A i, j \in DOMAIN list' : list'[i] = list'[j] => i = j
    BY <1>1, <1>3 DEF ManagerTypeOK
  <1> QED
    BY <1>1, <1>3, <1>5, <1>6 DEF ManagerTypeOK

-----------------------------------------------------------------------------
(* The operations of a manager preserve the invariant.                     *)

\* A datum that is added or copied has the focus, and _next_id is beyond it.
LEMMA GivenAnId ==
    ASSUME ManagerInv, NEW id \in Ids, Make, list' = Assigned(id, made'),
           focusedId' = id, nextId' = Raise(id), UNCHANGED running
    PROVE  ManagerInv'
  <1>1. nextId' \in Nat /\ id < nextId' /\ nextId <= nextId'
    BY RaisedBeyond DEF ManagerInv, ManagerTypeOK
  <1>2. /\ DOMAIN list' = DOMAIN list \cup {id}
        /\ DOMAIN list' \subseteq Ids
        /\ made' \in Nat
        /\ \A i \in DOMAIN list' : list'[i] \in 1 .. made'
        /\ \A i, j \in DOMAIN list' : list'[i] = list'[j] => i = j
    BY ListWithNew DEF Make, ManagerInv
  <1>3. ManagerTypeOK'
    BY <1>1, <1>2 DEF ManagerInv, ManagerTypeOK
  <1>4. NextIdFresh'
    <2> SUFFICES ASSUME NEW i \in DOMAIN list' PROVE i < nextId'
      BY DEF NextIdFresh
    <2>1. CASE i = id
      BY <1>1, <2>1
    <2>2. CASE i \in DOMAIN list
      <3>1. i \in Nat /\ i < nextId /\ nextId \in Nat
        BY <2>2, ManagerAssumption DEF ManagerInv, ManagerTypeOK, NextIdFresh, Ids
      <3> QED
        BY <3>1, <1>1
    <2> QED
      BY <1>2, <2>1, <2>2
  <1> QED
    BY <1>3, <1>4 DEF ManagerInv

LEMMA AddPreserves ==
    ASSUME ManagerInv, NEW id, ~IsId(id), Add(id), UNCHANGED running
    PROVE  ManagerInv'
  BY GivenAnId DEF Add, Emplaced

LEMMA CopyPreserves ==
    ASSUME ManagerInv, NEW id \in Ids, Copy(id), UNCHANGED running
    PROVE  ManagerInv'
  BY GivenAnId DEF Copy

\* The list is not empty: the focus is below the next id, on a datum or not.
LEMMA FocusBelowNext ==
    ASSUME ManagerInv, ~Empty
    PROVE  focusedId \in Ids /\ focusedId < nextId
  BY DEF ManagerInv, ManagerTypeOK

LEMMA SetByIdPreserves ==
    ASSUME ManagerInv, NEW id \in Ids, id < nextId, focusedId < nextId,
           SetById(id), UNCHANGED running
    PROVE  ManagerInv'
  <1>1. /\ DOMAIN list' = DOMAIN list \cup {id}
        /\ DOMAIN list' \subseteq Ids
        /\ made' \in Nat
        /\ \A i \in DOMAIN list' : list'[i] \in 1 .. made'
        /\ \A i, j \in DOMAIN list' : list'[i] = list'[j] => i = j
    BY ListWithNew DEF SetById, Make, ManagerInv
  <1>2. ManagerTypeOK'
    BY <1>1 DEF SetById, ManagerInv, ManagerTypeOK
  <1>3. NextIdFresh'
    BY <1>1 DEF SetById, ManagerInv, NextIdFresh
  <1> QED
    BY <1>2, <1>3 DEF ManagerInv

LEMMA RemovePreserves ==
    ASSUME ManagerInv, NEW id, Remove(id), UNCHANGED running
    PROVE  ManagerInv'
  <1>1. CASE ~IsId(id)
    BY <1>1, StaysTheSame DEF Remove, ManagerInv, ManagerTypeOK
  <1>2. CASE IsId(id)
    <2>1. /\ list' = [other \in DOMAIN list \ {id} |-> list[other]]
          /\ DOMAIN list' = DOMAIN list \ {id}
      BY <1>2 DEF Remove
    <2>2. focusedId' = focusedId \/ focusedId' = 0
      BY <1>2 DEF Remove, FocusWithout, Checkout
    <2>3. focusedId < nextId /\ 0 < nextId /\ nextId' = nextId
      BY <1>2, ManagerAssumption
         DEF Remove, IsId, ManagerInv, ManagerTypeOK, NextIdFresh, Ids
    <2>4. focusedId' \in Ids /\ focusedId' < nextId'
      BY <2>2, <2>3, ManagerAssumption DEF ManagerInv, ManagerTypeOK, Ids
    <2>5. /\ \A i \in DOMAIN list' : list'[i] \in 1 .. made'
          /\ \A i, j \in DOMAIN list' : list'[i] = list'[j] => i = j
      BY <2>1 DEF Remove, ManagerInv, ManagerTypeOK
    <2> QED
      BY <2>1, <2>3, <2>4, <2>5 DEF Remove, ManagerInv, ManagerTypeOK, NextIdFresh
  <1> QED
    BY <1>1, <1>2

LEMMA ClearPreserves ==
    ASSUME ManagerInv, Clear, UNCHANGED running
    PROVE  ManagerInv'
  <1>1. DOMAIN list' = {}
    BY DEF Clear
  <1> QED
    BY <1>1, ManagerAssumption DEF Clear, ManagerInv, ManagerTypeOK, NextIdFresh, Empty, Ids

LEMMA CheckoutPreserves ==
    ASSUME ManagerInv, NEW id, IsId(id), focusedId' = Checkout(list, id),
           UNCHANGED <<list, nextId, made, running>>
    PROVE  ManagerInv'
  BY DEF Checkout, IsId, ManagerInv, ManagerTypeOK, NextIdFresh, Empty

\* The next id is not in the list, so what is added is kept.
LEMMA NextIdFree ==
    ASSUME ManagerInv PROVE ~IsId(nextId)
  BY ManagerAssumption DEF ManagerInv, ManagerTypeOK, NextIdFresh, IsId, Ids
\* An id of the list is in the range and below the next one.
LEMMA IdsBelowNext ==
    ASSUME ManagerInv, NEW id, IsId(id)
    PROVE  /\ id \in Ids
           /\ id < nextId
           /\ focusedId < nextId
  BY ManagerAssumption DEF ManagerInv, ManagerTypeOK, NextIdFresh, IsId, Ids

-----------------------------------------------------------------------------
(* The commands                                                            *)

LEMMA NewPreserves ==
    ASSUME ManagerInv, NEW id \in Ids, NEW replace \in BOOLEAN, NewCmd(id, replace)
    PROVE  ManagerInv'
  <1>1. CASE ~IsId(id) /\ Add(id) /\ Asked("keep")
    BY <1>1, AddPreserves DEF Asked
  <1>2. CASE IsId(id) /\ replace /\ SetById(id) /\ Asked("replace")
    BY <1>2, IdsBelowNext, SetByIdPreserves DEF Asked
  <1>3. CASE IsId(id) /\ ~replace /\ Refuse
    BY <1>3, StaysTheSame DEF Refuse, Asked, ManagerInv, ManagerTypeOK
  <1> QED
    BY <1>1, <1>2, <1>3 DEF NewCmd

LEMMA CopyCmdPreserves ==
    ASSUME ManagerInv, NEW id \in Ids, NEW replace \in BOOLEAN, CopyCmd(id, replace)
    PROVE  ManagerInv'
  <1>1. CASE Refuse
    BY <1>1, StaysTheSame DEF Refuse, Asked, ManagerInv, ManagerTypeOK
  <1>2. CASE Abort
    BY <1>2, StaysTheSame DEF Abort
  <1>3. CASE Copy(id) /\ UNCHANGED running
    BY <1>3, CopyPreserves
  <1> QED
    BY <1>1, <1>2, <1>3 DEF CopyCmd, Asked

LEMMA DeletePreserves ==
    ASSUME ManagerInv, DeleteCmd
    PROVE  ManagerInv'
  <1>1. CASE Refuse
    BY <1>1, StaysTheSame DEF Refuse, Asked, ManagerInv, ManagerTypeOK
  <1>2. CASE \E id \in DOMAIN list : Remove(id) /\ Asked("delete")
    BY <1>2, RemovePreserves DEF Asked
  <1>3. CASE Remove(focusedId) /\ Asked("delete")
    BY <1>3, RemovePreserves DEF Asked
  <1>4. CASE Clear /\ Asked("delete")
    BY <1>4, ClearPreserves DEF Asked
  <1> QED
    BY <1>1, <1>2, <1>3, <1>4 DEF DeleteCmd

LEMMA CheckoutCmdPreserves ==
    ASSUME ManagerInv, NEW id \in Ids, CheckoutCmd(id)
    PROVE  ManagerInv'
  <1>1. CASE Refuse
    BY <1>1, StaysTheSame DEF Refuse, Asked, ManagerInv, ManagerTypeOK
  <1>2. CASE /\ IsId(id)
             /\ focusedId' = Checkout(list, id)
             /\ UNCHANGED <<list, nextId, made>>
             /\ Asked("focus")
    BY <1>2, CheckoutPreserves DEF Asked
  <1> QED
    BY <1>1, <1>2 DEF CheckoutCmd

\* What every command that makes or sets a result comes to.
LEMMA ResultPreserves ==
    ASSUME ManagerInv, UNCHANGED running,
           Add(nextId) \/ (~Empty /\ SetById(focusedId))
    PROVE  ManagerInv'
  <1>1. CASE Add(nextId)
    BY <1>1, AddPreserves, NextIdFree
  <1>2. CASE ~Empty /\ SetById(focusedId)
    BY <1>2, FocusBelowNext, SetByIdPreserves
  <1> QED
    BY <1>1, <1>2

\* The datum with the focus is in a list that is not empty.
LEMMA FocusedIsThere ==
    ASSUME ManagerInv, HasFocus PROVE ~Empty
  <1>1. focusedId \in DOMAIN list
    BY DEF HasFocus, IsId
  <1>2. DOMAIN <<>> = {}
    OBVIOUS
  <1> QED
    BY <1>1, <1>2 DEF Empty

LEMMA WorkPreserves ==
    ASSUME ManagerInv,
           \/ \E replace \in BOOLEAN : ReadCmd(replace)
           \/ ResultArrives
           \/ \E copy \in BOOLEAN : WorkOnFocused(copy)
           \/ TranslateCmd
    PROVE  ManagerInv'
  <1>1. CASE Refuse
    BY <1>1, StaysTheSame DEF Refuse, Asked, ManagerInv, ManagerTypeOK
  <1>2. CASE Abort
    BY <1>2, StaysTheSame DEF Abort
  <1>3. CASE /\ UNCHANGED running
             /\ Add(nextId) \/ (~Empty /\ SetById(focusedId))
    BY <1>3, ResultPreserves
  <1> QED
    BY <1>1, <1>2, <1>3, FocusedIsThere
       DEF ReadCmd, ResultArrives, WorkOnFocused, TranslateCmd, Asked

-----------------------------------------------------------------------------
\* The inductive invariant of a manager: whatever the commands, every id of the list is
\* in the range and below _next_id, the data are those that were made, each once, and
\* the focus is below _next_id unless nothing was ever added or all was cleared.
THEOREM ManagerInvHolds == ManagerSpec => []ManagerInv
  <1>1. ManagerInit => ManagerInv
    <2>1. DOMAIN <<>> = {}
      OBVIOUS
    <2> QED
      BY <2>1, ManagerAssumption
         DEF ManagerInit, ManagerInv, ManagerTypeOK, NextIdFresh, Ids, Empty
  <1>2. ManagerInv /\ [ManagerNext]_managerVars => ManagerInv'
    <2> SUFFICES ASSUME ManagerInv, [ManagerNext]_managerVars PROVE ManagerInv'
      OBVIOUS
    <2>1. CASE \E id \in Ids, replace \in BOOLEAN : NewCmd(id, replace) \/ CopyCmd(id, replace)
      BY <2>1, NewPreserves, CopyCmdPreserves
    <2>2. CASE DeleteCmd
      BY <2>2, DeletePreserves
    <2>3. CASE \E id \in Ids : CheckoutCmd(id)
      BY <2>3, CheckoutCmdPreserves
    <2>4. CASE \/ \E replace \in BOOLEAN : ReadCmd(replace)
               \/ ResultArrives
               \/ \E copy \in BOOLEAN : WorkOnFocused(copy)
               \/ TranslateCmd
      BY <2>4, WorkPreserves
    <2>5. CASE UNCHANGED managerVars
      BY <2>5, StaysTheSame DEF managerVars, ManagerInv, ManagerTypeOK
    <2> QED
      BY <2>1, <2>2, <2>3, <2>4, <2>5 DEF ManagerNext
  <1> QED
    BY <1>1, <1>2, PTL DEF ManagerSpec

-----------------------------------------------------------------------------
(* To its user a manager is a store.                                       *)

LEMMA NothingStored ==
    ASSUME UNCHANGED <<list, focusedId, made>> PROVE Store!StoreNext
  BY DEF Store!StoreNext, Store!Refuse

\* A datum that is added or copied to an id that is free is kept.
LEMMA ResultKept ==
    ASSUME NEW id, ~IsId(id), Make, list' = Assigned(id, made'), focusedId' = id,
           Asked("keep")
    PROVE  Store!StoreNext
  BY DEF Store!StoreNext, Store!Keep, Store!Make, Store!Put, Assigned, Make, IsId, Asked

LEMMA AddedIsKept ==
    ASSUME NEW id, ~IsId(id), Add(id), Asked("keep")
    PROVE  Store!StoreNext
  BY ResultKept DEF Add, Emplaced

\* A datum that is set or copied over another replaces that one.
LEMMA ResultReplaced ==
    ASSUME NEW id, Make, list' = Assigned(id, made'), focusedId' \in {focusedId, id},
           Asked("replace")
    PROVE  Store!StoreNext
  <1>1. id \in DOMAIN list'
    BY DEF Assigned
  <1>2. Store!Replace(id)
    BY DEF Store!Replace, Store!Make, Store!Put, Assigned, Make, Asked
  <1> QED
    BY <1>1, <1>2 DEF Store!StoreNext

LEMMA RemovedIsDeleted ==
    ASSUME NEW id, Remove(id), Asked("delete")
    PROVE  Store!StoreNext
  <1>1. CASE ~IsId(id)
    BY <1>1, NothingStored DEF Remove
  <1>2. CASE IsId(id)
    <2>1. focusedId' = focusedId \/ (focusedId = id /\ focusedId' = 0)
      BY <1>2 DEF Remove, FocusWithout, Checkout
    <2>2. Store!Delete(id)
      BY <1>2, <2>1 DEF Store!Delete, Remove, Asked
    <2> QED
      BY <1>2, <2>2 DEF Store!StoreNext, IsId
  <1> QED
    BY <1>1, <1>2

LEMMA CommandIsStored ==
    ASSUME ManagerInv, ManagerNext
    PROVE  Store!StoreNext
  <1>1. CASE Refuse \/ Abort \/ UNCHANGED managerVars
    BY <1>1, NothingStored DEF Refuse, Abort, managerVars
  <1>2. CASE Add(nextId) /\ Asked("keep")
    BY <1>2, AddedIsKept, NextIdFree
  <1>3. CASE \E id \in Ids : ~IsId(id) /\ Add(id) /\ Asked("keep")
    BY <1>3, AddedIsKept
  <1>4. CASE \E id : SetById(id) /\ Asked("replace")
    BY <1>4, ResultReplaced DEF SetById
  <1>5. CASE \E id \in Ids : Copy(id) /\ Asked(IF IsId(id) THEN "replace" ELSE "keep")
    <2> PICK id \in Ids : Copy(id) /\ Asked(IF IsId(id) THEN "replace" ELSE "keep")
      BY <1>5
    <2>1. CASE IsId(id)
      BY <2>1, ResultReplaced DEF Copy
    <2>2. CASE ~IsId(id)
      BY <2>2, ResultKept DEF Copy
    <2> QED
      BY <2>1, <2>2
  <1>6. CASE \E id : Remove(id) /\ Asked("delete")
    BY <1>6, RemovedIsDeleted
  <1>7. CASE Clear /\ Asked("delete")
    BY <1>7 DEF Clear, Asked, Store!StoreNext, Store!DeleteAll
  <1>8. CASE \E id \in Ids : /\ IsId(id)
                           /\ focusedId' = Checkout(list, id)
                           /\ UNCHANGED <<list, nextId, made>>
                           /\ Asked("focus")
    BY <1>8 DEF Checkout, IsId, Asked, Store!StoreNext, Store!Focus
  <1>9. CASE \E id \in Ids, replace \in BOOLEAN : NewCmd(id, replace)
    BY <1>9, <1>1, <1>3, <1>4 DEF NewCmd
  <1>10. CASE \E id \in Ids, replace \in BOOLEAN : CopyCmd(id, replace)
    BY <1>10, <1>1, <1>5 DEF CopyCmd
  <1>11. CASE DeleteCmd
    BY <1>11, <1>1, <1>6, <1>7 DEF DeleteCmd
  <1>12. CASE \E id \in Ids : CheckoutCmd(id)
    BY <1>12, <1>1, <1>8 DEF CheckoutCmd
  <1>13. CASE \/ \E replace \in BOOLEAN : ReadCmd(replace)
              \/ ResultArrives
              \/ \E copy \in BOOLEAN : WorkOnFocused(copy)
              \/ TranslateCmd
    BY <1>13, <1>1, <1>2, <1>4 DEF ReadCmd, ResultArrives, WorkOnFocused, TranslateCmd
  <1> QED
    BY <1>1, <1>9, <1>10, <1>11, <1>12, <1>13 DEF ManagerNext

\* A manager implements the store: a result that a command keeps is under an id that was
\* free and has the focus, and a datum goes only when the user replaces or deletes it.
THEOREM ManagerIsAStore == ManagerSpec => KeepsEveryResult
  <1>1. ManagerInit => Store!StoreInit
    BY DEF ManagerInit, Store!StoreInit
  <1>2. ManagerInv /\ [ManagerNext]_managerVars => [Store!StoreNext]_(Store!storeVars)
    BY CommandIsStored DEF managerVars, Store!storeVars
  <1> QED
    BY <1>1, <1>2, ManagerInvHolds, PTL DEF ManagerSpec, KeepsEveryResult, Store!StoreSpec
=============================================================================
