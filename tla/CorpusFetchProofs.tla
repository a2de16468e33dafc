--------------------------- MODULE CorpusFetchProofs ---------------------------
(***************************************************************************)
(* Whatever fails and whenever it is killed, a generator run that exits 0  *)
(* leaves the pinned corpus, and a failed run never leaves a part of one   *)
(* that a later run accepts.                                               *)
(***************************************************************************)
EXTENDS CorpusFetch, TLAPS

\* The steps after the wipe, during which there is no marker.
Unmarked == Steps \ {"remove"}

\* The strengthening: a marker on disk names the commit of the files beside it,
\* and no marker exists while the files change.
MarkerNamesFiles == marker \in Commits /\ files > 0 => commit = marker

Progress ==
    /\ pc \in Unmarked => marker = "none"
    /\ pc = "remove" => ~alreadyFetched
    /\ pc \in {"verify", "mark"} => files = AllFiles
    /\ pc = "mark" => commit = pinned
    /\ pc # "idle" => exit = "running"

IInv == TypeOK /\ MarkerNamesFiles /\ Progress /\ OkMeansPinned /\ FailureNotAccepted

\* Nothing is on disk before the first run.
LEMMA InitIInv == Init => IInv
  BY CorpusAssumption
  DEF Init, IInv, TypeOK, MarkerNamesFiles, Progress, OkMeansPinned, FailureNotAccepted, Unmarked, Steps

\* Every step of a run, every failure and every outside change keeps IInv.
LEMMA NextIInv == IInv /\ [Next]_vars => IInv'
<1> SUFFICES ASSUME IInv, [Next]_vars PROVE IInv'
  OBVIOUS
<1> USE CorpusAssumption DEF IInv, TypeOK, MarkerNamesFiles, Progress, OkMeansPinned,
      FailureNotAccepted, alreadyFetched, Unmarked, Steps, Ends, Fault, disk, world
<1>1. CASE Skip
  BY <1>1 DEF Skip
<1>2. CASE Begin
  BY <1>2 DEF Begin
<1>3. CASE RemoveAll
  BY <1>3 DEF RemoveAll
<1>4. CASE SetUp
  BY <1>4 DEF SetUp, Following
<1>5. CASE AddRemote
  BY <1>5 DEF AddRemote, Following
<1>6. CASE Fetch
  BY <1>6 DEF Fetch
<1>7. CASE Checkout
  BY <1>7 DEF Checkout
<1>8. CASE Verify
  BY <1>8 DEF Verify
<1>9. CASE WriteMarker
  BY <1>9 DEF WriteMarker
<1>10. CASE GitMissing
  BY <1>10 DEF GitMissing
<1>11. CASE Dies
  BY <1>11 DEF Dies
<1>12. CASE RemoveAllFails
  BY <1>12 DEF RemoveAllFails
<1>13. CASE CheckoutFails
  BY <1>13 DEF CheckoutFails
<1>14. CASE WriteMarkerFails
  BY <1>14 DEF WriteMarkerFails
<1>15. CASE Advance
  BY <1>15 DEF Advance
<1>16. CASE Bump
  BY <1>16 DEF Bump
<1>17. CASE Prune
  BY <1>17 DEF Prune
<1>18. CASE UNCHANGED vars
  BY <1>18 DEF vars
<1>19. QED
  BY <1>1, <1>2, <1>3, <1>4, <1>5, <1>6, <1>7, <1>8, <1>9, <1>10, <1>11, <1>12, <1>13, <1>14,
     <1>15, <1>16, <1>17, <1>18 DEF Next, Run, Fails, Outside

\* The inductive invariant holds in every reachable state.
THEOREM IInvHolds == Spec => []IInv
  BY InitIInv, NextIInv, PTL DEF Spec

\* Exit 0 always means that the pinned commit is on disk with its marker.
THEOREM OkMeansPinnedHolds == Spec => []OkMeansPinned
<1>1. IInv => OkMeansPinned
  BY DEF IInv
<1>2. QED
  BY <1>1, IInvHolds, PTL

\* A run that failed half-way is never taken for a success.
THEOREM FailureNotAcceptedHolds == Spec => []FailureNotAccepted
<1>1. IInv => FailureNotAccepted
  BY DEF IInv
<1>2. QED
  BY <1>1, IInvHolds, PTL
===============================================================================
