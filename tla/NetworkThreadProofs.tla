------------------------ MODULE NetworkThreadProofs ------------------------
(***************************************************************************)
(* The books on transfers agree, no dead handle is used and the exit is    *)
(* clean, for any interfaces and any supply of handles.  Inv is inductive: *)
(* what a step does to one handle does not touch the others, because each  *)
(* handle is the current one of the interface that curl names as its owner.*)
(***************************************************************************)
EXTENDS NetworkThread, TLAPS

(* Inv holds when the thread starts.                                       *)
LEMMA InitInv == Init => Inv
BY HandlesExist DEF Init, Inv, TypeOK, Places, Ended, FreesLiveHandles,
   OwnerIsRight, HandlesHaveOwners, WholeInLoop, Looping

(* Nothing is transferred before the loop, and the loop is entered with    *)
(* every interface constructed.                                            *)
LEMMA StartInv ==
    ASSUME Inv,
           \/ multiInit \/ multiInitFails
           \/ \E i \in Interfaces : construct(i) \/ constructFails(i)
           \/ enterLoop
    PROVE  Inv'
<1> USE HandlesExist DEF Inv, TypeOK, Places, Ended, FreesLiveHandles,
        OwnerIsRight, HandlesHaveOwners, WholeInLoop, Looping, handles
<1>1. CASE multiInit
  <2>1. alive = {}
    BY <1>1 DEF multiInit
  <2> QED
    BY <1>1, <2>1 DEF multiInit
<1>2. CASE multiInitFails
  BY <1>2 DEF multiInitFails
<1>3. ASSUME NEW i \in Interfaces, construct(i)
      PROVE  Inv'
  BY <1>3 DEF construct
<1>4. ASSUME NEW i \in Interfaces, constructFails(i)
      PROVE  Inv'
  BY <1>4 DEF constructFails
<1>5. CASE enterLoop
  BY <1>5 DEF enterLoop
<1> QED
  BY <1>1, <1>2, <1>3, <1>4, <1>5

-----------------------------------------------------------------------------
(* The loop.                                                               *)

(* A round without requests or finished transfers leaves the books alone,  *)
(* and so does the decision to leave the loop.                             *)
LEMMA RoundInv ==
    ASSUME Inv,
           \/ checkShutdown
           \/ \E ended \in SUBSET multi, offline \in BOOLEAN : perform(ended, offline)
           \/ \E i \in Interfaces : pollNothing(i)
           \/ pollEnds
           \/ \E h \in Handles : readDenied(h)
           \/ wait \/ waitFails
    PROVE  Inv'
<1> USE DEF Inv, TypeOK, Places, Ended, FreesLiveHandles, OwnerIsRight,
        HandlesHaveOwners, WholeInLoop, Looping, StartCleanup, handles
<1>1. CASE checkShutdown
  BY <1>1 DEF checkShutdown
<1>2. ASSUME NEW ended \in SUBSET multi, NEW offline \in BOOLEAN,
             perform(ended, offline)
      PROVE  Inv'
  BY <1>2 DEF perform
<1>3. ASSUME NEW i \in Interfaces, pollNothing(i)
      PROVE  Inv'
  BY <1>3 DEF pollNothing
<1>4. CASE pollEnds
  BY <1>4 DEF pollEnds
<1>5. ASSUME NEW h \in Handles, readDenied(h)
      PROVE  Inv'
  BY <1>5 DEF readDenied
<1>6. CASE wait \/ waitFails
  BY <1>6 DEF wait, waitFails
<1> QED
  BY <1>1, <1>2, <1>3, <1>4, <1>5, <1>6

(* The new handle is nobody's: every current handle is allocated.          *)
LEMMA NewHandleIsFresh ==
    ASSUME Inv, Looping, NEW h \in Handles \ alloc
    PROVE  \A i \in Interfaces : current[i] # h
BY HandlesExist DEF Inv, FreesLiveHandles

(* A transfer begins: the owner, current and active agree on the new       *)
(* handle.  One that cannot be added is cleaned up with the rest.          *)
LEMMA RequestInv ==
    ASSUME Inv, NEW i \in Interfaces, NEW h \in Handles,
           pollRequest(i, h) \/ pollRequestFails(i, h)
    PROVE  Inv'
<1> USE HandlesExist DEF Inv, TypeOK, Places, Ended, FreesLiveHandles, OwnerIsRight,
        HandlesHaveOwners, WholeInLoop, Looping, StartCleanup, handles, MayRequest
<1>1. \A j \in Interfaces : current[j] # h
  BY NewHandleIsFresh DEF pollRequest, pollRequestFails
<1>2. CASE pollRequest(i, h)
  BY <1>1, <1>2 DEF pollRequest
<1>3. CASE pollRequestFails(i, h)
  BY <1>1, <1>3 DEF pollRequestFails
<1> QED
  BY <1>2, <1>3

(* poll() of the stream frees its own handle and no other.                 *)
LEMMA KillInv ==
    ASSUME Inv, pollKill
    PROVE  Inv'
BY HandlesExist DEF Inv, TypeOK, Places, Ended, FreesLiveHandles, OwnerIsRight,
   HandlesHaveOwners, WholeInLoop, Looping, pollKill, removeAndFreeHandle

(* A finished transfer is taken off the books of the interface that curl   *)
(* names, which is the one that has it.                                    *)
LEMMA FinishInv ==
    ASSUME Inv, NEW h \in Handles, readDone(h) \/ readDoneFails(h)
    PROVE  Inv'
<1> USE HandlesExist DEF Inv, TypeOK, Places, Ended, FreesLiveHandles, OwnerIsRight,
        HandlesHaveOwners, WholeInLoop, Looping, StartCleanup, handles, finish,
        removeAndFreeHandle
<1>1. owner[h] \in Interfaces /\ current[owner[h]] = h
  BY DEF readDone, readDoneFails
<1>2. CASE readDone(h)
  BY <1>1, <1>2 DEF readDone
<1>3. CASE readDoneFails(h)
  BY <1>1, <1>3 DEF readDoneFails
<1> QED
  BY <1>2, <1>3

-----------------------------------------------------------------------------
(* The cleanup.                                                            *)

(* Cleaning one interface up frees no handle of another.                   *)
LEMMA CleanupInv ==
    ASSUME Inv, NEW i \in Interfaces, cleanup(i)
    PROVE  Inv'
<1> USE HandlesExist DEF Inv, TypeOK, Places, Ended, FreesLiveHandles, OwnerIsRight,
        HandlesHaveOwners, WholeInLoop, Looping, handles, removeAndFreeHandle
<1>1. CASE current[i] = NULL
  BY <1>1 DEF cleanup
<1>2. CASE current[i] # NULL
  BY <1>2 DEF cleanup
<1> QED
  BY <1>1, <1>2

(* The thread ends, or LDClientClose goes on: no handle changes.           *)
LEMMA ExitInv ==
    ASSUME Inv,
           \/ \E i \in Interfaces : cleanupFails(i)
           \/ exit \/ signalShutdown \/ joinAndFree
    PROVE  Inv'
<1> USE DEF Inv, TypeOK, Places, Ended, FreesLiveHandles, OwnerIsRight,
        HandlesHaveOwners, WholeInLoop, Looping, handles
<1>1. ASSUME NEW i \in Interfaces, cleanupFails(i)
      PROVE  Inv'
  BY <1>1 DEF cleanupFails
<1>2. CASE exit
  BY <1>2 DEF exit
<1>3. CASE signalShutdown
  BY <1>3 DEF signalShutdown
<1>4. CASE joinAndFree
  BY <1>4 DEF joinAndFree
<1> QED
  BY <1>1, <1>2, <1>3, <1>4

-----------------------------------------------------------------------------

(* Every step of the thread, or of LDClientClose, preserves Inv.           *)
LEMMA NextInv == Inv /\ [Next]_vars => Inv'
<1> SUFFICES ASSUME Inv, [Next]_vars
             PROVE  Inv'
  OBVIOUS
<1>1. CASE Thread
  BY <1>1, StartInv, RoundInv, RequestInv, KillInv, FinishInv, CleanupInv,
     ExitInv DEF Thread
<1>2. CASE signalShutdown \/ joinAndFree
  BY <1>2, ExitInv
<1>3. CASE UNCHANGED vars
  BY <1>3 DEF vars, handles, Inv, TypeOK, FreesLiveHandles, OwnerIsRight,
     HandlesHaveOwners, WholeInLoop, Looping
<1> QED
  BY <1>1, <1>2, <1>3 DEF Next

(* The inductive invariant holds throughout.                               *)
THEOREM InvHolds == Spec => []Inv
BY InitInv, NextInv, PTL DEF Spec

(* What an interface, the thread and curl note about a transfer agrees all *)
(* through the loop of LDi_networkthread.                                  *)
THEOREM BooksAlwaysAgree == Spec => []BooksAgree
<1>1. Inv => BooksAgree
  BY HandlesExist DEF Inv, BooksAgree, FreesLiveHandles, OwnerIsRight,
     HandlesHaveOwners, WholeInLoop, Looping
<1> QED
  BY <1>1, InvHolds, PTL

(* LDi_removeAndFreeHandle is never given a handle that is freed already.  *)
THEOREM HandlesAlive == Spec => []FreesLiveHandles
<1>1. Inv => FreesLiveHandles
  BY DEF Inv
<1> QED
  BY <1>1, InvHolds, PTL

(* The thread leaves no interface and no handle behind, however it leaves  *)
(* its loop; one of its early returns leaves no transfer.                  *)
THEOREM ExitsCleanly == Spec => []CleanExit
<1>1. Inv => CleanExit
  BY DEF Inv, CleanExit, HandlesHaveOwners, WholeInLoop, Looping, TypeOK
<1> QED
  BY <1>1, InvHolds, PTL

=============================================================================
