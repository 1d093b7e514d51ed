------------------------- MODULE MacGameSwapProofs -------------------------
(***************************************************************************)
(* What holds of MacGameSwap for every number of releases and of faults:   *)
(* its type invariant, that a game is kept and its record is not ahead of  *)
(* it, and what holds of the outer signature and of the pair that is       *)
(* launched, after updates that were cut off and undos that failed too.    *)
(***************************************************************************)
EXTENDS MacGameSwap, TLAPS

(* Where the game is, at each step: in its place, or behind it. *)
InPlace == {"idle", "clean", "extract", "moveOut", "content"}

GameInv ==
    ~unrestored =>
        /\ at \in InPlace => Whole(game)
        /\ at = "moveIn" => game = Absent
        /\ at \in {"moveIn", "seal"} => had /\ Whole(backup)
        /\ at = "closed" => Whole(game) \/ (game = Absent /\ Whole(backup))

(* What the version on the disk is behind, at each step. *)
RecordInv ==
    /\ undo <= record
    /\ at \in Steps => record <= target
    /\ ~unrestored /\ at = "seal" => record <= backup
    /\ RecordNotAhead

(* What the outer signature covers, at each step. *)
SealInv ==
    /\ at \in {"tidy", "store", "content"} => sealed = game
    /\ ~unrestored /\ ~unrecorded =>
          /\ at \in InPlace => sealed = game
          /\ at \in {"moveIn", "seal"} => sealed = backup
          /\ at = "closed" => sealed = (IF Whole(game) THEN game ELSE backup)

(* What the record is about, at each step of an update that was not cut    *)
(* off.                                                                    *)
PairInv ==
    /\ at = "content" => record = game /\ undo = Absent
    /\ ~unrestored /\ ~unrecorded =>
          /\ undo = Absent
          /\ at \in InPlace => record = game
          /\ at \in {"moveIn", "seal"} => record = backup
          /\ at = "closed" => record = (IF Whole(game) THEN game ELSE backup)

(* Nothing on the disk is older than what is stored about it, whatever has *)
(* failed.                                                                 *)
NewerInv ==
    /\ Whole(game) => Known <= game
    /\ Whole(backup) => Known <= backup
    /\ at \in {"store", "content"} => backup = Absent

(* An update is of a later release than what is stored, and stays on offer *)
(* until it is stored; what is stored as the last release is there, signed.*)
OfferInv ==
    /\ undo # Absent => undo < record
    /\ record <= published /\ target <= published
    /\ at \in Steps \ {"content"} => Known < target
    /\ at \in {"idle", "closed"} =>
           Known < published \/ (undo = Absent /\ game = record /\ sealed = game)

IInv == TypeOK /\ GameInv /\ RecordInv /\ SealInv /\ PairInv /\ NewerInv /\ OfferInv

-----------------------------------------------------------------------------
LEMMA InitInv == Init => IInv
<1> SUFFICES ASSUME Init PROVE IInv
  OBVIOUS
<1> USE ReleasesArePositive
<1>1. BundlesOK /\ player \in [game : Bundles, content : 0 .. LastRelease]
  BY DEF Init, BundlesOK, Bundles, Absent, Partial
<1>2. TypeOK
  <2>1. published \in Releases /\ record \in Releases /\ content \in Releases /\ target \in Releases
    BY DEF Init, Releases
  <2>2. undo \in 0 .. LastRelease /\ faults \in Nat
    BY DEF Init, Absent
  <2> QED
    BY <1>1, <2>1, <2>2 DEF Init, TypeOK, Steps, Swapped
<1>3. GameInv /\ SealInv /\ PairInv /\ NewerInv /\ OfferInv
  BY DEF Init, GameInv, SealInv, PairInv, NewerInv, OfferInv, Known, InPlace, Steps, Whole,
     Releases, Absent
<1>4. RecordInv
  BY DEF Init, RecordInv, RecordNotAhead, Steps, Whole, Releases, Absent
<1> QED
  BY <1>2, <1>3, <1>4 DEF IInv

(* Every step keeps the types, and the bundle a step is about to use. *)
LEMMA StepKeepsType == TypeOK /\ [Next]_vars => TypeOK'
<1> SUFFICES ASSUME TypeOK, [Next]_vars PROVE TypeOK'
  OBVIOUS
<1> USE ReleasesArePositive, FaultsAreNatural
<1>1. CASE Open
  <2>1. at = "closed" /\ at' = "idle"
    BY <1>1 DEF Open, Goto
  <2>2. BundlesOK'
    BY <1>1 DEF Open, RecoverBundle, TypeOK, BundlesOK, Bundles, Absent, Partial
  <2>3. record' \in Releases /\ undo' \in 0 .. LastRelease
    BY <1>1 DEF Open, RecoverRecord, TypeOK, Absent, Releases
  <2> QED
    BY <1>1, <2>1, <2>2, <2>3 DEF Open, NoFault, operation, past, TypeOK, Steps, Swapped
<1>2. CASE OpenUnrecovered
  <2>1. at = "closed" /\ at' = "idle" /\ faults' \in Nat
    BY <1>2 DEF OpenUnrecovered, Goto, Fault, TypeOK
  <2>2. backup' \in Bundles
    BY <1>2 DEF OpenUnrecovered, Remains, TypeOK, BundlesOK, Bundles, Absent, Partial
  <2>3. record' \in Releases /\ undo' \in 0 .. LastRelease
    BY <1>2 DEF OpenUnrecovered, RecoverRecord, TypeOK, Absent, Releases
  <2> QED
    BY <1>2, <2>1, <2>2, <2>3 DEF OpenUnrecovered, operation, TypeOK, BundlesOK, Steps, Swapped
<1>3. CASE Launch
  BY <1>3 DEF Launch, RecoverRecord, bundles, operation, past, Goto, TypeOK, BundlesOK,
     Steps, Swapped, Bundles, Releases, Absent, Partial
<1>4. CASE Quit
  BY <1>4 DEF Quit, Goto, bundles, versions, operation, past, TypeOK, BundlesOK, Steps,
     Swapped, Bundles, Releases, Absent, Partial
<1>5. CASE Start
  BY <1>5 DEF Start, Goto, bundles, versions, past, TypeOK, BundlesOK, Steps, Swapped,
     Bundles, Releases, Absent, Partial
<1>6. CASE Clean
  BY <1>6 DEF Clean, Goto, versions, operation, past, TypeOK, BundlesOK, Steps,
     Swapped, Bundles, Releases, Absent, Partial
<1>7. CASE Extract
  BY <1>7 DEF Extract, Goto, versions, operation, past, TypeOK, BundlesOK, Steps,
     Swapped, Bundles, Releases, Absent, Partial
<1>8. CASE MoveOut
  BY <1>8 DEF MoveOut, Goto, versions, past, TypeOK, BundlesOK, Steps, Swapped,
     Bundles, Releases, Absent, Partial
<1>9. CASE MoveIn
  BY <1>9 DEF MoveIn, Goto, versions, operation, past, TypeOK, BundlesOK, Steps,
     Swapped, Bundles, Releases, Absent, Partial
<1>10. CASE Seal
  BY <1>10 DEF Seal, Goto, versions, operation, past, TypeOK, BundlesOK, Steps,
     Swapped, Bundles, Releases, Absent, Partial
<1>11. CASE Tidy
  BY <1>11 DEF Tidy, Goto, versions, operation, past, TypeOK, BundlesOK, Steps,
     Swapped, Bundles, Releases, Absent, Partial
<1>12. CASE Store
  <2>1. record' \in Releases /\ undo' \in 0 .. LastRelease
    BY <1>12 DEF Store, TypeOK, Releases, Absent
  <2> QED
    BY <1>12, <2>1 DEF Store, Goto, bundles, operation, TypeOK, BundlesOK, Steps, Swapped
<1>13. CASE UpdateContent
  BY <1>13 DEF UpdateContent, Goto, bundles, operation, past, TypeOK, BundlesOK, Steps,
     Swapped, Bundles, Releases, Absent, Partial
<1>14. CASE Kill
  BY <1>14 DEF Kill, StoreIsCutOff, RecoverRecord, Fault, Goto, Remains, operation,
     TypeOK, BundlesOK, Steps, Swapped, Bundles, Releases, Absent, Partial
<1>15. CASE Publish
  BY <1>15 DEF Publish, bundles, versions, operation, past, TypeOK, BundlesOK, Steps,
     Swapped, Bundles, Releases, Absent, Partial
<1>16. CASE Fails
  <2>1. CASE CleanFails
    BY <2>1 DEF CleanFails, Fault, Goto, Remains, versions, operation, past, TypeOK,
       BundlesOK, Steps, Swapped, Bundles, Releases, Absent, Partial
  <2>2. CASE ExtractFails
    BY <2>2 DEF ExtractFails, Fault, Goto, versions, operation, past, TypeOK,
       BundlesOK, Steps, Swapped, Bundles, Releases, Absent, Partial
  <2>3. CASE MoveOutFails
    BY <2>3 DEF MoveOutFails, Fault, Goto, bundles, versions, operation, past,
       TypeOK, BundlesOK, Steps, Swapped, Bundles, Releases, Absent, Partial
  <2>4. CASE MoveInFails
    <3>1. BundlesOK'
      <4>1. game' \in Bundles /\ backup' \in Bundles
        BY <2>4 DEF MoveInFails, TypeOK, BundlesOK, Bundles, Absent, Partial
      <4> QED
        BY <2>4, <4>1 DEF MoveInFails, TypeOK, BundlesOK
    <3>2. faults' \in Nat
      BY <2>4 DEF MoveInFails, Fault, TypeOK
    <3>3. unrestored' \in BOOLEAN
      BY <2>4, Zenon DEF MoveInFails, TypeOK
    <3> QED
      BY <2>4, <3>1, <3>2, <3>3 DEF MoveInFails, Goto, versions, operation, TypeOK, Steps, Swapped
  <2>5. CASE SealFails
    <3>1. game' \in Bundles /\ backup' \in Bundles
      BY <2>5 DEF SealFails, TypeOK, BundlesOK, Bundles, Absent, Partial
    <3>3. sealed' \in Bundles
      BY <2>5, <3>1 DEF SealFails, TypeOK, BundlesOK, Bundles, Absent, Partial
    <3>2. faults' \in Nat
      BY <2>5 DEF SealFails, Fault, TypeOK
    <3>4. unrestored' \in BOOLEAN
      BY <2>5, Zenon DEF SealFails, TypeOK
    <3> QED
      BY <2>5, <3>1, <3>2, <3>3, <3>4 DEF SealFails, Goto, versions, operation, TypeOK, BundlesOK, Steps,
         Swapped
  <2>6. CASE TidyFails
    BY <2>6 DEF TidyFails, Fault, Goto, Remains, versions, operation, TypeOK,
       BundlesOK, Steps, Swapped, Bundles, Releases, Absent, Partial
  <2>7. CASE StoreFails
    BY <2>7 DEF StoreFails, StoreIsCutOff, RecoverRecord, Fault, Goto, bundles,
       operation, TypeOK, BundlesOK, Steps, Swapped, Bundles, Releases, Absent,
       Partial
  <2>8. CASE ContentFails
    BY <2>8 DEF ContentFails, Fault, Goto, bundles, versions, operation, past,
       TypeOK, BundlesOK, Steps, Swapped, Bundles, Releases, Absent, Partial
  <2> QED
    BY <1>16, <2>1, <2>2, <2>3, <2>4, <2>5, <2>6, <2>7, <2>8 DEF Fails
<1>17. CASE UNCHANGED vars
  BY <1>17 DEF vars, bundles, versions, operation, past, TypeOK, BundlesOK, Steps,
     Swapped, Bundles, Releases, Absent, Partial
<1> QED
  BY <1>1, <1>2, <1>3, <1>4, <1>5, <1>6, <1>7, <1>8, <1>9, <1>10, <1>11, <1>12, <1>13,
     <1>14, <1>15, <1>16, <1>17 DEF Next

(* Every step keeps the game where GameInv has it. *)
LEMMA StepKeepsGame == TypeOK /\ GameInv /\ [Next]_vars => GameInv'
<1> SUFFICES ASSUME TypeOK, GameInv, [Next]_vars PROVE GameInv'
  OBVIOUS
<1> USE ReleasesArePositive
<1>1. CASE Open
  <2> USE <1>1 DEF Open, RecoverBundle, Goto, past
  <2>1. CASE backup # Absent /\ game = Absent
    BY <2>1 DEF GameInv, InPlace, Whole, Releases, Absent, TypeOK, BundlesOK, Bundles, Partial
  <2>2. CASE ~(backup # Absent /\ game = Absent)
    BY <2>2 DEF GameInv, InPlace, Whole, Releases, Absent, TypeOK, BundlesOK, Bundles, Partial
  <2> QED
    BY <2>1, <2>2
<1>2. CASE OpenUnrecovered
  BY <1>2 DEF OpenUnrecovered, RecoverRecord, Remains, Fault, Goto, TypeOK, BundlesOK,
     GameInv, InPlace, Steps, Swapped, Bundles, Releases, Absent, Partial, Whole
<1>3. CASE Launch
  BY <1>3 DEF Launch, RecoverRecord, bundles, operation, past, Goto, TypeOK, BundlesOK,
     GameInv, InPlace, Steps, Swapped, Bundles, Releases, Absent, Partial, Whole
<1>4. CASE Quit
  BY <1>4 DEF Quit, Goto, bundles, versions, operation, past, TypeOK, BundlesOK,
     GameInv, InPlace, Steps, Swapped, Bundles, Releases, Absent, Partial, Whole
<1>5. CASE Start
  BY <1>5 DEF Start, Goto, bundles, versions, past, TypeOK, BundlesOK, GameInv,
     InPlace, Steps, Swapped, Bundles, Releases, Absent, Partial, Whole
<1>6. CASE Clean
  BY <1>6 DEF Clean, Goto, versions, operation, past, TypeOK, BundlesOK, GameInv,
     InPlace, Steps, Swapped, Bundles, Releases, Absent, Partial, Whole
<1>7. CASE Extract
  BY <1>7 DEF Extract, Goto, versions, operation, past, TypeOK, BundlesOK, GameInv,
     InPlace, Steps, Swapped, Bundles, Releases, Absent, Partial, Whole
<1>8. CASE MoveOut
  <2>1. ~unrestored => Whole(game)
    BY <1>8 DEF MoveOut, GameInv, InPlace
  <2>2. CASE game # Absent
    BY <1>8, <2>1, <2>2 DEF MoveOut, Goto, past, GameInv, InPlace, Whole, Absent
  <2>3. CASE game = Absent
    BY <1>8, <2>1, <2>3 DEF MoveOut, Goto, past, GameInv, Whole, Releases, Absent
  <2> QED
    BY <2>2, <2>3
<1>9. CASE MoveIn
  BY <1>9 DEF MoveIn, Goto, versions, operation, past, TypeOK, BundlesOK, GameInv,
     InPlace, Steps, Swapped, Bundles, Releases, Absent, Partial, Whole
<1>10. CASE Seal
  BY <1>10 DEF Seal, Goto, versions, operation, past, TypeOK, BundlesOK, GameInv,
     InPlace, Steps, Swapped, Bundles, Releases, Absent, Partial, Whole
<1>11. CASE Tidy
  BY <1>11 DEF Tidy, Goto, versions, operation, past, TypeOK, BundlesOK, GameInv,
     InPlace, Steps, Swapped, Bundles, Releases, Absent, Partial, Whole
<1>12. CASE Store
  BY <1>12 DEF Store, Goto, bundles, operation, TypeOK, BundlesOK, GameInv, InPlace,
     Steps, Swapped, Bundles, Releases, Absent, Partial, Whole
<1>13. CASE UpdateContent
  BY <1>13 DEF UpdateContent, Goto, bundles, operation, past, TypeOK, BundlesOK,
     GameInv, InPlace, Steps, Swapped, Bundles, Releases, Absent, Partial, Whole
<1>14. CASE Kill
  BY <1>14 DEF Kill, StoreIsCutOff, RecoverRecord, Fault, Goto, Remains, operation,
     TypeOK, BundlesOK, GameInv, InPlace, Steps, Swapped, Bundles, Releases, Absent,
     Partial, Whole
<1>15. CASE Publish
  BY <1>15 DEF Publish, bundles, versions, operation, past, TypeOK, BundlesOK, GameInv,
     InPlace, Steps, Swapped, Bundles, Releases, Absent, Partial, Whole
<1>16. CASE Fails
  <2>1. CASE CleanFails
    BY <2>1 DEF CleanFails, Fault, Goto, Remains, versions, operation, past, TypeOK,
       BundlesOK, GameInv, InPlace, Steps, Swapped, Bundles, Releases, Absent,
       Partial, Whole
  <2>2. CASE ExtractFails
    BY <2>2 DEF ExtractFails, Fault, Goto, versions, operation, past, TypeOK,
       BundlesOK, GameInv, InPlace, Steps, Swapped, Bundles, Releases, Absent,
       Partial, Whole
  <2>3. CASE MoveOutFails
    BY <2>3 DEF MoveOutFails, Fault, Goto, bundles, versions, operation, past,
       TypeOK, BundlesOK, GameInv, InPlace, Steps, Swapped, Bundles, Releases,
       Absent, Partial, Whole
  <2>4. CASE MoveInFails
    BY <2>4 DEF MoveInFails, Fault, Goto, versions, operation, TypeOK, BundlesOK,
       GameInv, InPlace, Steps, Swapped, Bundles, Releases, Absent, Partial, Whole
  <2>5. CASE SealFails
    BY <2>5 DEF SealFails, Fault, Goto, versions, operation, TypeOK, BundlesOK,
       GameInv, InPlace, Steps, Swapped, Bundles, Releases, Absent, Partial, Whole
  <2>6. CASE TidyFails
    BY <2>6 DEF TidyFails, Fault, Goto, Remains, versions, operation, TypeOK,
       BundlesOK, GameInv, InPlace, Steps, Swapped, Bundles, Releases, Absent,
       Partial, Whole
  <2>7. CASE StoreFails
    BY <2>7 DEF StoreFails, StoreIsCutOff, RecoverRecord, Fault, Goto, bundles,
       operation, TypeOK, BundlesOK, GameInv, InPlace, Steps, Swapped, Bundles,
       Releases, Absent, Partial, Whole
  <2>8. CASE ContentFails
    BY <2>8 DEF ContentFails, Fault, Goto, bundles, versions, operation, past,
       TypeOK, BundlesOK, GameInv, InPlace, Steps, Swapped, Bundles, Releases,
       Absent, Partial, Whole
  <2> QED
    BY <1>16, <2>1, <2>2, <2>3, <2>4, <2>5, <2>6, <2>7, <2>8 DEF Fails
<1>17. CASE UNCHANGED vars
  BY <1>17 DEF vars, bundles, versions, operation, past, TypeOK, BundlesOK, GameInv,
     InPlace, Steps, Swapped, Bundles, Releases, Absent, Partial, Whole
<1> QED
  BY <1>1, <1>2, <1>3, <1>4, <1>5, <1>6, <1>7, <1>8, <1>9, <1>10, <1>11, <1>12, <1>13,
     <1>14, <1>15, <1>16, <1>17 DEF Next

(* Every step keeps the record behind it. *)
LEMMA StepKeepsRecord == TypeOK /\ GameInv /\ RecordInv /\ [Next]_vars => RecordInv'
<1> SUFFICES ASSUME TypeOK, GameInv, RecordInv, [Next]_vars PROVE RecordInv'
  OBVIOUS
<1> USE ReleasesArePositive
<1>1. CASE Open
  <2> USE <1>1 DEF Open, RecoverBundle, Goto, past
  <2>1. CASE backup # Absent /\ game = Absent
    BY <2>1 DEF GameInv, RecordInv, RecordNotAhead, RecoverRecord, InPlace, Steps, Whole,
       Releases, Absent, TypeOK, BundlesOK, Bundles, Partial
  <2>2. CASE ~(backup # Absent /\ game = Absent)
    BY <2>2 DEF GameInv, RecordInv, RecordNotAhead, RecoverRecord, InPlace, Steps, Whole,
       Releases, Absent, TypeOK, BundlesOK, Bundles, Partial
  <2> QED
    BY <2>1, <2>2
<1>2. CASE OpenUnrecovered
  BY <1>2 DEF OpenUnrecovered, RecoverRecord, Remains, Fault, Goto, TypeOK, BundlesOK,
     GameInv, RecordInv, RecordNotAhead, InPlace, Steps, Swapped, Bundles, Releases,
     Absent, Partial, Whole
<1>3. CASE Launch
  BY <1>3 DEF Launch, RecoverRecord, bundles, operation, past, Goto, TypeOK, BundlesOK,
     GameInv, RecordInv, RecordNotAhead, InPlace, Steps, Swapped, Bundles, Releases,
     Absent, Partial, Whole
<1>4. CASE Quit
  BY <1>4 DEF Quit, Goto, bundles, versions, operation, past, TypeOK, BundlesOK,
     GameInv, RecordInv, RecordNotAhead, InPlace, Steps, Swapped, Bundles, Releases,
     Absent, Partial, Whole
<1>5. CASE Start
  BY <1>5 DEF Start, Goto, bundles, versions, past, TypeOK, BundlesOK, GameInv,
     RecordInv, RecordNotAhead, InPlace, Steps, Swapped, Bundles, Releases, Absent,
     Partial, Whole
<1>6. CASE Clean
  BY <1>6 DEF Clean, Goto, versions, operation, past, TypeOK, BundlesOK, GameInv,
     RecordInv, RecordNotAhead, InPlace, Steps, Swapped, Bundles, Releases, Absent,
     Partial, Whole
<1>7. CASE Extract
  BY <1>7 DEF Extract, Goto, versions, operation, past, TypeOK, BundlesOK, GameInv,
     RecordInv, RecordNotAhead, InPlace, Steps, Swapped, Bundles, Releases, Absent,
     Partial, Whole
<1>8. CASE MoveOut
  BY <1>8 DEF MoveOut, Goto, versions, past, TypeOK, BundlesOK, GameInv, RecordInv,
     RecordNotAhead, InPlace, Steps, Swapped, Bundles, Releases, Absent, Partial, Whole
<1>9. CASE MoveIn
  BY <1>9 DEF MoveIn, Goto, versions, operation, past, TypeOK, BundlesOK, GameInv,
     RecordInv, RecordNotAhead, InPlace, Steps, Swapped, Bundles, Releases, Absent,
     Partial, Whole
<1>10. CASE Seal
  BY <1>10 DEF Seal, Goto, versions, operation, past, TypeOK, BundlesOK, GameInv,
     RecordInv, RecordNotAhead, InPlace, Steps, Swapped, Bundles, Releases, Absent,
     Partial, Whole
<1>11. CASE Tidy
  BY <1>11 DEF Tidy, Goto, versions, operation, past, TypeOK, BundlesOK, GameInv,
     RecordInv, RecordNotAhead, InPlace, Steps, Swapped, Bundles, Releases, Absent,
     Partial, Whole
<1>12. CASE Store
  BY <1>12 DEF Store, Goto, bundles, operation, TypeOK, BundlesOK, GameInv, RecordInv,
     RecordNotAhead, InPlace, Steps, Swapped, Bundles, Releases, Absent, Partial, Whole
<1>13. CASE UpdateContent
  BY <1>13 DEF UpdateContent, Goto, bundles, operation, past, TypeOK, BundlesOK,
     GameInv, RecordInv, RecordNotAhead, InPlace, Steps, Swapped, Bundles, Releases,
     Absent, Partial, Whole
<1>14. CASE Kill
  BY <1>14 DEF Kill, StoreIsCutOff, RecoverRecord, Fault, Goto, Remains, operation,
     TypeOK, BundlesOK, GameInv, RecordInv, RecordNotAhead, InPlace, Steps, Swapped,
     Bundles, Releases, Absent, Partial, Whole
<1>15. CASE Publish
  BY <1>15 DEF Publish, bundles, versions, operation, past, TypeOK, BundlesOK, GameInv,
     RecordInv, RecordNotAhead, InPlace, Steps, Swapped, Bundles, Releases, Absent,
     Partial, Whole
<1>16. CASE Fails
  <2>1. CASE CleanFails
    BY <2>1 DEF CleanFails, Fault, Goto, Remains, versions, operation, past, TypeOK,
       BundlesOK, GameInv, RecordInv, RecordNotAhead, InPlace, Steps, Swapped,
       Bundles, Releases, Absent, Partial, Whole
  <2>2. CASE ExtractFails
    BY <2>2 DEF ExtractFails, Fault, Goto, versions, operation, past, TypeOK,
       BundlesOK, GameInv, RecordInv, RecordNotAhead, InPlace, Steps, Swapped,
       Bundles, Releases, Absent, Partial, Whole
  <2>3. CASE MoveOutFails
    BY <2>3 DEF MoveOutFails, Fault, Goto, bundles, versions, operation, past,
       TypeOK, BundlesOK, GameInv, RecordInv, RecordNotAhead, InPlace, Steps,
       Swapped, Bundles, Releases, Absent, Partial, Whole
  <2>4. CASE MoveInFails
    BY <2>4 DEF MoveInFails, Fault, Goto, versions, operation, TypeOK, BundlesOK,
       GameInv, RecordInv, RecordNotAhead, InPlace, Steps, Swapped, Bundles,
       Releases, Absent, Partial, Whole
  <2>5. CASE SealFails
    BY <2>5 DEF SealFails, Fault, Goto, versions, operation, TypeOK, BundlesOK,
       GameInv, RecordInv, RecordNotAhead, InPlace, Steps, Swapped, Bundles,
       Releases, Absent, Partial, Whole
  <2>6. CASE TidyFails
    BY <2>6 DEF TidyFails, Fault, Goto, Remains, versions, operation, TypeOK,
       BundlesOK, GameInv, RecordInv, RecordNotAhead, InPlace, Steps, Swapped,
       Bundles, Releases, Absent, Partial, Whole
  <2>7. CASE StoreFails
    BY <2>7 DEF StoreFails, StoreIsCutOff, RecoverRecord, Fault, Goto, bundles,
       operation, TypeOK, BundlesOK, GameInv, RecordInv, RecordNotAhead, InPlace,
       Steps, Swapped, Bundles, Releases, Absent, Partial, Whole
  <2>8. CASE ContentFails
    BY <2>8 DEF ContentFails, Fault, Goto, bundles, versions, operation, past,
       TypeOK, BundlesOK, GameInv, RecordInv, RecordNotAhead, InPlace, Steps,
       Swapped, Bundles, Releases, Absent, Partial, Whole
  <2> QED
    BY <1>16, <2>1, <2>2, <2>3, <2>4, <2>5, <2>6, <2>7, <2>8 DEF Fails
<1>17. CASE UNCHANGED vars
  BY <1>17 DEF vars, bundles, versions, operation, past, TypeOK, BundlesOK, GameInv,
     RecordInv, RecordNotAhead, InPlace, Steps, Swapped, Bundles, Releases, Absent,
     Partial, Whole
<1> QED
  BY <1>1, <1>2, <1>3, <1>4, <1>5, <1>6, <1>7, <1>8, <1>9, <1>10, <1>11, <1>12, <1>13,
     <1>14, <1>15, <1>16, <1>17 DEF Next

(* Every step keeps the signature on it. *)
LEMMA StepKeepsSeal == TypeOK /\ GameInv /\ SealInv /\ [Next]_vars => SealInv'
<1> SUFFICES ASSUME TypeOK, GameInv, SealInv, [Next]_vars PROVE SealInv'
  OBVIOUS
<1> USE ReleasesArePositive
<1>1. CASE Open
  <2> USE <1>1 DEF Open, RecoverBundle, Goto, past
  <2>1. CASE backup # Absent /\ game = Absent
    BY <2>1 DEF GameInv, SealInv, InPlace, Whole, Releases, Absent, TypeOK, BundlesOK, Bundles, Partial
  <2>2. CASE ~(backup # Absent /\ game = Absent)
    BY <2>2 DEF GameInv, SealInv, InPlace, Whole, Releases, Absent, TypeOK, BundlesOK, Bundles, Partial
  <2> QED
    BY <2>1, <2>2
<1>2. CASE OpenUnrecovered
  BY <1>2 DEF OpenUnrecovered, RecoverRecord, Remains, Fault, Goto, TypeOK, BundlesOK,
     GameInv, SealInv, InPlace, Steps, Swapped, Bundles, Releases, Absent, Partial,
     Whole
<1>3. CASE Launch
  BY <1>3 DEF Launch, RecoverRecord, bundles, operation, past, Goto, TypeOK, BundlesOK,
     GameInv, SealInv, InPlace, Steps, Swapped, Bundles, Releases, Absent, Partial,
     Whole
<1>4. CASE Quit
  BY <1>4 DEF Quit, Goto, bundles, versions, operation, past, TypeOK, BundlesOK,
     GameInv, SealInv, InPlace, Steps, Swapped, Bundles, Releases, Absent, Partial,
     Whole
<1>5. CASE Start
  BY <1>5 DEF Start, Goto, bundles, versions, past, TypeOK, BundlesOK, GameInv,
     SealInv, InPlace, Steps, Swapped, Bundles, Releases, Absent, Partial, Whole
<1>6. CASE Clean
  BY <1>6 DEF Clean, Goto, versions, operation, past, TypeOK, BundlesOK, GameInv,
     SealInv, InPlace, Steps, Swapped, Bundles, Releases, Absent, Partial, Whole
<1>7. CASE Extract
  BY <1>7 DEF Extract, Goto, versions, operation, past, TypeOK, BundlesOK, GameInv,
     SealInv, InPlace, Steps, Swapped, Bundles, Releases, Absent, Partial, Whole
<1>8. CASE MoveOut
  BY <1>8 DEF MoveOut, Goto, versions, past, TypeOK, BundlesOK, GameInv, SealInv,
     InPlace, Steps, Swapped, Bundles, Releases, Absent, Partial, Whole
<1>9. CASE MoveIn
  BY <1>9 DEF MoveIn, Goto, versions, operation, past, TypeOK, BundlesOK, GameInv,
     SealInv, InPlace, Steps, Swapped, Bundles, Releases, Absent, Partial, Whole
<1>10. CASE Seal
  BY <1>10 DEF Seal, Goto, versions, operation, past, TypeOK, BundlesOK, GameInv,
     SealInv, InPlace, Steps, Swapped, Bundles, Releases, Absent, Partial, Whole
<1>11. CASE Tidy
  BY <1>11 DEF Tidy, Goto, versions, operation, past, TypeOK, BundlesOK, GameInv,
     SealInv, InPlace, Steps, Swapped, Bundles, Releases, Absent, Partial, Whole
<1>12. CASE Store
  BY <1>12 DEF Store, Goto, bundles, operation, TypeOK, BundlesOK, GameInv, SealInv,
     InPlace, Steps, Swapped, Bundles, Releases, Absent, Partial, Whole
<1>13. CASE UpdateContent
  BY <1>13 DEF UpdateContent, Goto, bundles, operation, past, TypeOK, BundlesOK,
     GameInv, SealInv, InPlace, Steps, Swapped, Bundles, Releases, Absent, Partial,
     Whole
<1>14. CASE Kill
  BY <1>14 DEF Kill, StoreIsCutOff, RecoverRecord, Fault, Goto, Remains, operation,
     TypeOK, BundlesOK, GameInv, SealInv, InPlace, Steps, Swapped, Bundles, Releases,
     Absent, Partial, Whole
<1>15. CASE Publish
  BY <1>15 DEF Publish, bundles, versions, operation, past, TypeOK, BundlesOK, GameInv,
     SealInv, InPlace, Steps, Swapped, Bundles, Releases, Absent, Partial, Whole
<1>16. CASE Fails
  <2>1. CASE CleanFails
    BY <2>1 DEF CleanFails, Fault, Goto, Remains, versions, operation, past, TypeOK,
       BundlesOK, GameInv, SealInv, InPlace, Steps, Swapped, Bundles, Releases,
       Absent, Partial, Whole
  <2>2. CASE ExtractFails
    BY <2>2 DEF ExtractFails, Fault, Goto, versions, operation, past, TypeOK,
       BundlesOK, GameInv, SealInv, InPlace, Steps, Swapped, Bundles, Releases,
       Absent, Partial, Whole
  <2>3. CASE MoveOutFails
    BY <2>3 DEF MoveOutFails, Fault, Goto, bundles, versions, operation, past,
       TypeOK, BundlesOK, GameInv, SealInv, InPlace, Steps, Swapped, Bundles,
       Releases, Absent, Partial, Whole
  <2>4. CASE MoveInFails
    BY <2>4 DEF MoveInFails, Fault, Goto, versions, operation, TypeOK, BundlesOK,
       GameInv, SealInv, InPlace, Steps, Swapped, Bundles, Releases, Absent, Partial,
       Whole
  <2>5. CASE SealFails
    BY <2>5 DEF SealFails, Fault, Goto, versions, operation, TypeOK, BundlesOK,
       GameInv, SealInv, InPlace, Steps, Swapped, Bundles, Releases, Absent, Partial,
       Whole
  <2>6. CASE TidyFails
    BY <2>6 DEF TidyFails, Fault, Goto, Remains, versions, operation, TypeOK,
       BundlesOK, GameInv, SealInv, InPlace, Steps, Swapped, Bundles, Releases,
       Absent, Partial, Whole
  <2>7. CASE StoreFails
    BY <2>7 DEF StoreFails, StoreIsCutOff, RecoverRecord, Fault, Goto, bundles,
       operation, TypeOK, BundlesOK, GameInv, SealInv, InPlace, Steps, Swapped,
       Bundles, Releases, Absent, Partial, Whole
  <2>8. CASE ContentFails
    BY <2>8 DEF ContentFails, Fault, Goto, bundles, versions, operation, past,
       TypeOK, BundlesOK, GameInv, SealInv, InPlace, Steps, Swapped, Bundles,
       Releases, Absent, Partial, Whole
  <2> QED
    BY <1>16, <2>1, <2>2, <2>3, <2>4, <2>5, <2>6, <2>7, <2>8 DEF Fails
<1>17. CASE UNCHANGED vars
  BY <1>17 DEF vars, bundles, versions, operation, past, TypeOK, BundlesOK, GameInv,
     SealInv, InPlace, Steps, Swapped, Bundles, Releases, Absent, Partial, Whole
<1> QED
  BY <1>1, <1>2, <1>3, <1>4, <1>5, <1>6, <1>7, <1>8, <1>9, <1>10, <1>11, <1>12, <1>13,
     <1>14, <1>15, <1>16, <1>17 DEF Next

(* Every step keeps the record equal to it. *)
LEMMA StepKeepsPair == TypeOK /\ GameInv /\ PairInv /\ [Next]_vars => PairInv'
<1> SUFFICES ASSUME TypeOK, GameInv, PairInv, [Next]_vars PROVE PairInv'
  OBVIOUS
<1> USE ReleasesArePositive
<1>1. CASE Open
  <2> USE <1>1 DEF Open, RecoverBundle, RecoverRecord, Goto, past
  <2>1. CASE backup # Absent /\ game = Absent
    BY <2>1 DEF GameInv, PairInv, InPlace, Whole, Releases, Absent, TypeOK, BundlesOK, Bundles, Partial
  <2>2. CASE ~(backup # Absent /\ game = Absent)
    BY <2>2 DEF GameInv, PairInv, InPlace, Whole, Releases, Absent, TypeOK, BundlesOK, Bundles, Partial
  <2> QED
    BY <2>1, <2>2
<1>2. CASE OpenUnrecovered
  BY <1>2 DEF OpenUnrecovered, RecoverRecord, Remains, Fault, Goto, TypeOK, BundlesOK,
     GameInv, PairInv, InPlace, Steps, Swapped, Bundles, Releases, Absent, Partial,
     Whole
<1>3. CASE Launch
  BY <1>3 DEF Launch, RecoverRecord, bundles, operation, past, Goto, TypeOK, BundlesOK,
     GameInv, PairInv, InPlace, Steps, Swapped, Bundles, Releases, Absent, Partial,
     Whole
<1>4. CASE Quit
  BY <1>4 DEF Quit, Goto, bundles, versions, operation, past, TypeOK, BundlesOK,
     GameInv, PairInv, InPlace, Steps, Swapped, Bundles, Releases, Absent, Partial,
     Whole
<1>5. CASE Start
  BY <1>5 DEF Start, Goto, bundles, versions, past, TypeOK, BundlesOK, GameInv,
     PairInv, InPlace, Steps, Swapped, Bundles, Releases, Absent, Partial, Whole
<1>6. CASE Clean
  BY <1>6 DEF Clean, Goto, versions, operation, past, TypeOK, BundlesOK, GameInv,
     PairInv, InPlace, Steps, Swapped, Bundles, Releases, Absent, Partial, Whole
<1>7. CASE Extract
  BY <1>7 DEF Extract, Goto, versions, operation, past, TypeOK, BundlesOK, GameInv,
     PairInv, InPlace, Steps, Swapped, Bundles, Releases, Absent, Partial, Whole
<1>8. CASE MoveOut
  BY <1>8 DEF MoveOut, Goto, versions, past, TypeOK, BundlesOK, GameInv, PairInv,
     InPlace, Steps, Swapped, Bundles, Releases, Absent, Partial, Whole
<1>9. CASE MoveIn
  BY <1>9 DEF MoveIn, Goto, versions, operation, past, TypeOK, BundlesOK, GameInv,
     PairInv, InPlace, Steps, Swapped, Bundles, Releases, Absent, Partial, Whole
<1>10. CASE Seal
  BY <1>10 DEF Seal, Goto, versions, operation, past, TypeOK, BundlesOK, GameInv,
     PairInv, InPlace, Steps, Swapped, Bundles, Releases, Absent, Partial, Whole
<1>11. CASE Tidy
  BY <1>11 DEF Tidy, Goto, versions, operation, past, TypeOK, BundlesOK, GameInv,
     PairInv, InPlace, Steps, Swapped, Bundles, Releases, Absent, Partial, Whole
<1>12. CASE Store
  BY <1>12 DEF Store, Goto, bundles, operation, TypeOK, BundlesOK, GameInv, PairInv,
     InPlace, Steps, Swapped, Bundles, Releases, Absent, Partial, Whole
<1>13. CASE UpdateContent
  BY <1>13 DEF UpdateContent, Goto, bundles, operation, past, TypeOK, BundlesOK,
     GameInv, PairInv, InPlace, Steps, Swapped, Bundles, Releases, Absent, Partial,
     Whole
<1>14. CASE Kill
  <2>1. CASE at \in Swapped
    BY <1>14, <2>1 DEF Kill, Goto, PairInv
  <2>2. CASE at \notin Swapped
    <3>1. UNCHANGED <<record, undo, game, unrestored>> /\ unrecorded' = unrecorded
      BY <1>14, <2>2, Zenon DEF Kill, Swapped, TypeOK
    <3>2. at \notin {"tidy", "store", "seal"} => backup' = backup \/ at = "clean"
      BY <1>14 DEF Kill
    <3> QED
      BY <1>14, <2>2, <3>1, <3>2 DEF Kill, Goto, TypeOK, BundlesOK, GameInv, PairInv, InPlace, Steps,
         Swapped, Bundles, Releases, Absent, Partial, Whole
  <2> QED
    BY <2>1, <2>2
<1>15. CASE Publish
  BY <1>15 DEF Publish, bundles, versions, operation, past, TypeOK, BundlesOK, GameInv,
     PairInv, InPlace, Steps, Swapped, Bundles, Releases, Absent, Partial, Whole
<1>16. CASE Fails
  <2>1. CASE CleanFails
    BY <2>1 DEF CleanFails, Fault, Goto, Remains, versions, operation, past, TypeOK,
       BundlesOK, GameInv, PairInv, InPlace, Steps, Swapped, Bundles, Releases,
       Absent, Partial, Whole
  <2>2. CASE ExtractFails
    BY <2>2 DEF ExtractFails, Fault, Goto, versions, operation, past, TypeOK,
       BundlesOK, GameInv, PairInv, InPlace, Steps, Swapped, Bundles, Releases,
       Absent, Partial, Whole
  <2>3. CASE MoveOutFails
    BY <2>3 DEF MoveOutFails, Fault, Goto, bundles, versions, operation, past,
       TypeOK, BundlesOK, GameInv, PairInv, InPlace, Steps, Swapped, Bundles,
       Releases, Absent, Partial, Whole
  <2>4. CASE MoveInFails
    BY <2>4 DEF MoveInFails, Fault, Goto, versions, operation, TypeOK, BundlesOK,
       GameInv, PairInv, InPlace, Steps, Swapped, Bundles, Releases, Absent, Partial,
       Whole
  <2>5. CASE SealFails
    BY <2>5 DEF SealFails, Fault, Goto, versions, operation, TypeOK, BundlesOK,
       GameInv, PairInv, InPlace, Steps, Swapped, Bundles, Releases, Absent, Partial,
       Whole
  <2>6. CASE TidyFails
    BY <2>6 DEF TidyFails, Fault, Goto, Remains, versions, operation, TypeOK,
       BundlesOK, GameInv, PairInv, InPlace, Steps, Swapped, Bundles, Releases,
       Absent, Partial, Whole
  <2>7. CASE StoreFails
    BY <2>7 DEF StoreFails, StoreIsCutOff, RecoverRecord, Fault, Goto, bundles,
       operation, TypeOK, BundlesOK, GameInv, PairInv, InPlace, Steps, Swapped,
       Bundles, Releases, Absent, Partial, Whole
  <2>8. CASE ContentFails
    BY <2>8 DEF ContentFails, Fault, Goto, bundles, versions, operation, past,
       TypeOK, BundlesOK, GameInv, PairInv, InPlace, Steps, Swapped, Bundles,
       Releases, Absent, Partial, Whole
  <2> QED
    BY <1>16, <2>1, <2>2, <2>3, <2>4, <2>5, <2>6, <2>7, <2>8 DEF Fails
<1>17. CASE UNCHANGED vars
  BY <1>17 DEF vars, bundles, versions, operation, past, TypeOK, BundlesOK, GameInv,
     PairInv, InPlace, Steps, Swapped, Bundles, Releases, Absent, Partial, Whole
<1> QED
  BY <1>1, <1>2, <1>3, <1>4, <1>5, <1>6, <1>7, <1>8, <1>9, <1>10, <1>11, <1>12, <1>13,
     <1>14, <1>15, <1>16, <1>17 DEF Next

(* Every step keeps what is on the disk as new as what is stored. *)
LEMMA StepKeepsNewer == TypeOK /\ NewerInv /\ OfferInv /\ [Next]_vars => NewerInv'
<1> SUFFICES ASSUME TypeOK, NewerInv, OfferInv, [Next]_vars PROVE NewerInv'
  OBVIOUS
<1> USE ReleasesArePositive
<1>1. CASE Open
  <2> USE <1>1 DEF Open, RecoverBundle, RecoverRecord, Goto, past
  <2>1. CASE backup # Absent /\ game = Absent
    BY <2>1 DEF NewerInv, Known, Whole, Releases, Absent, TypeOK, BundlesOK, Bundles,
       Partial
  <2>2. CASE ~(backup # Absent /\ game = Absent)
    BY <2>2 DEF NewerInv, Known, Whole, Releases, Absent, TypeOK, BundlesOK, Bundles,
       Partial
  <2> QED
    BY <2>1, <2>2
<1>2. CASE OpenUnrecovered
  BY <1>2 DEF OpenUnrecovered, RecoverRecord, Remains, Fault, Goto, TypeOK, BundlesOK,
     NewerInv, Known, Steps, Swapped, Bundles, Releases, Absent, Partial, Whole
<1>3. CASE Launch
  BY <1>3 DEF Launch, RecoverRecord, bundles, operation, past, Goto, TypeOK, BundlesOK,
     NewerInv, Known, Steps, Swapped, Bundles, Releases, Absent, Partial, Whole
<1>4. CASE Quit
  BY <1>4 DEF Quit, Goto, bundles, versions, operation, past, TypeOK, BundlesOK, NewerInv,
     Known, Steps, Swapped, Bundles, Releases, Absent, Partial, Whole
<1>5. CASE Start
  BY <1>5 DEF Start, Goto, bundles, versions, past, TypeOK, BundlesOK, NewerInv, Known,
     Steps, Swapped, Bundles, Releases, Absent, Partial, Whole
<1>6. CASE Clean
  BY <1>6 DEF Clean, Goto, versions, operation, past, TypeOK, BundlesOK, NewerInv, Known,
     Steps, Swapped, Bundles, Releases, Absent, Partial, Whole
<1>7. CASE Extract
  BY <1>7 DEF Extract, Goto, versions, operation, past, TypeOK, BundlesOK, NewerInv, Known,
     Steps, Swapped, Bundles, Releases, Absent, Partial, Whole
<1>8. CASE MoveOut
  BY <1>8 DEF MoveOut, Goto, versions, past, TypeOK, BundlesOK, NewerInv, Known, Steps,
     Swapped, Bundles, Releases, Absent, Partial, Whole
<1>9. CASE MoveIn
  BY <1>9 DEF MoveIn, OfferInv, Goto, versions, operation, past, TypeOK, BundlesOK,
     NewerInv, Known, Steps, Swapped, Bundles, Releases, Absent, Partial, Whole
<1>10. CASE Seal
  BY <1>10 DEF Seal, Goto, versions, operation, past, TypeOK, BundlesOK, NewerInv, Known,
     Steps, Swapped, Bundles, Releases, Absent, Partial, Whole
<1>11. CASE Tidy
  BY <1>11 DEF Tidy, Goto, versions, operation, past, TypeOK, BundlesOK, NewerInv, Known,
     Steps, Swapped, Bundles, Releases, Absent, Partial, Whole
<1>12. CASE Store
  BY <1>12 DEF Store, Goto, bundles, operation, TypeOK, BundlesOK, NewerInv, Known, Steps,
     Swapped, Bundles, Releases, Absent, Partial, Whole
<1>13. CASE UpdateContent
  BY <1>13 DEF UpdateContent, Goto, bundles, operation, past, TypeOK, BundlesOK, NewerInv,
     Known, Steps, Swapped, Bundles, Releases, Absent, Partial, Whole
<1>14. CASE Kill
  BY <1>14 DEF Kill, StoreIsCutOff, RecoverRecord, Fault, Goto, Remains, operation, TypeOK,
     BundlesOK, NewerInv, Known, Steps, Swapped, Bundles, Releases, Absent, Partial, Whole
<1>15. CASE Publish
  BY <1>15 DEF Publish, bundles, versions, operation, past, TypeOK, BundlesOK, NewerInv,
     Known, Steps, Swapped, Bundles, Releases, Absent, Partial, Whole
<1>16. CASE Fails
  <2>1. CASE CleanFails
    BY <2>1 DEF CleanFails, Fault, Goto, Remains, versions, operation, past, TypeOK,
       BundlesOK, NewerInv, Known, Steps, Swapped, Bundles, Releases, Absent, Partial, Whole
  <2>2. CASE ExtractFails
    BY <2>2 DEF ExtractFails, Fault, Goto, versions, operation, past, TypeOK, BundlesOK,
       NewerInv, Known, Steps, Swapped, Bundles, Releases, Absent, Partial, Whole
  <2>3. CASE MoveOutFails
    BY <2>3 DEF MoveOutFails, Fault, Goto, bundles, versions, operation, past, TypeOK,
       BundlesOK, NewerInv, Known, Steps, Swapped, Bundles, Releases, Absent, Partial, Whole
  <2>4. CASE MoveInFails
    BY <2>4 DEF MoveInFails, Fault, Goto, versions, operation, TypeOK, BundlesOK, NewerInv,
       Known, Steps, Swapped, Bundles, Releases, Absent, Partial, Whole
  <2>5. CASE SealFails
    BY <2>5 DEF SealFails, Fault, Goto, versions, operation, TypeOK, BundlesOK, NewerInv,
       Known, Steps, Swapped, Bundles, Releases, Absent, Partial, Whole
  <2>6. CASE TidyFails
    BY <2>6 DEF TidyFails, Fault, Goto, Remains, versions, operation, TypeOK, BundlesOK,
       NewerInv, Known, Steps, Swapped, Bundles, Releases, Absent, Partial, Whole
  <2>7. CASE StoreFails
    BY <2>7 DEF StoreFails, StoreIsCutOff, RecoverRecord, Fault, Goto, bundles, operation,
       TypeOK, BundlesOK, NewerInv, Known, Steps, Swapped, Bundles, Releases, Absent,
       Partial, Whole
  <2>8. CASE ContentFails
    BY <2>8 DEF ContentFails, Fault, Goto, bundles, versions, operation, past, TypeOK,
       BundlesOK, NewerInv, Known, Steps, Swapped, Bundles, Releases, Absent, Partial, Whole
  <2> QED
    BY <1>16, <2>1, <2>2, <2>3, <2>4, <2>5, <2>6, <2>7, <2>8 DEF Fails
<1>17. CASE UNCHANGED vars
  BY <1>17 DEF vars, bundles, versions, operation, past, TypeOK, BundlesOK, NewerInv, Known,
     Steps, Swapped, Bundles, Releases, Absent, Partial, Whole
<1> QED
  BY <1>1, <1>2, <1>3, <1>4, <1>5, <1>6, <1>7, <1>8, <1>9, <1>10, <1>11, <1>12, <1>13,
     <1>14, <1>15, <1>16, <1>17 DEF Next

(* Every step keeps an update that was cut off on offer. *)
LEMMA StepKeepsOffer == TypeOK /\ SealInv /\ PairInv /\ OfferInv /\ [Next]_vars => OfferInv'
<1> SUFFICES ASSUME TypeOK, SealInv, PairInv, OfferInv, [Next]_vars PROVE OfferInv'
  OBVIOUS
<1> USE ReleasesArePositive
<1>1. CASE Open
  <2> USE <1>1 DEF Open, RecoverBundle, RecoverRecord, Goto, operation, past
  <2>1. CASE backup # Absent /\ game = Absent
    BY <2>1 DEF SealInv, PairInv, OfferInv, Known, Steps, Whole, Releases, Absent, TypeOK,
       BundlesOK, Bundles, Partial
  <2>2. CASE ~(backup # Absent /\ game = Absent)
    BY <2>2 DEF SealInv, PairInv, OfferInv, Known, Steps, Whole, Releases, Absent, TypeOK,
       BundlesOK, Bundles, Partial
  <2> QED
    BY <2>1, <2>2
<1>2. CASE OpenUnrecovered
  BY <1>2 DEF OpenUnrecovered, RecoverRecord, operation, Remains, Fault, Goto, TypeOK,
     BundlesOK, SealInv, PairInv, OfferInv, Known, Steps, Swapped, Bundles, Releases,
     Absent, Partial, Whole
<1>3. CASE Launch
  BY <1>3 DEF Launch, RecoverRecord, bundles, operation, past, Goto, TypeOK, BundlesOK,
     SealInv, PairInv, OfferInv, Known, Steps, Swapped, Bundles, Releases, Absent, Partial,
     Whole
<1>4. CASE Quit
  BY <1>4 DEF Quit, Goto, bundles, versions, operation, past, TypeOK, BundlesOK, SealInv,
     PairInv, OfferInv, Known, Steps, Swapped, Bundles, Releases, Absent, Partial, Whole
<1>5. CASE Start
  BY <1>5 DEF Start, Goto, bundles, versions, past, TypeOK, BundlesOK, SealInv, PairInv,
     OfferInv, Known, Steps, Swapped, Bundles, Releases, Absent, Partial, Whole
<1>6. CASE Clean
  BY <1>6 DEF Clean, Goto, versions, operation, past, TypeOK, BundlesOK, SealInv, PairInv,
     OfferInv, Known, Steps, Swapped, Bundles, Releases, Absent, Partial, Whole
<1>7. CASE Extract
  BY <1>7 DEF Extract, Goto, versions, operation, past, TypeOK, BundlesOK, SealInv, PairInv,
     OfferInv, Known, Steps, Swapped, Bundles, Releases, Absent, Partial, Whole
<1>8. CASE MoveOut
  BY <1>8 DEF MoveOut, Goto, versions, past, TypeOK, BundlesOK, SealInv, PairInv, OfferInv,
     Known, Steps, Swapped, Bundles, Releases, Absent, Partial, Whole
<1>9. CASE MoveIn
  BY <1>9 DEF MoveIn, Goto, versions, operation, past, TypeOK, BundlesOK, SealInv, PairInv,
     OfferInv, Known, Steps, Swapped, Bundles, Releases, Absent, Partial, Whole
<1>10. CASE Seal
  BY <1>10 DEF Seal, Goto, versions, operation, past, TypeOK, BundlesOK, SealInv, PairInv,
     OfferInv, Known, Steps, Swapped, Bundles, Releases, Absent, Partial, Whole
<1>11. CASE Tidy
  BY <1>11 DEF Tidy, Goto, versions, operation, past, TypeOK, BundlesOK, SealInv, PairInv,
     OfferInv, Known, Steps, Swapped, Bundles, Releases, Absent, Partial, Whole
<1>12. CASE Store
  BY <1>12 DEF Store, Goto, bundles, operation, TypeOK, BundlesOK, SealInv, PairInv,
     OfferInv, Known, Steps, Swapped, Bundles, Releases, Absent, Partial, Whole
<1>13. CASE UpdateContent
  BY <1>13 DEF UpdateContent, Goto, bundles, operation, past, TypeOK, BundlesOK, SealInv,
     PairInv, OfferInv, Known, Steps, Swapped, Bundles, Releases, Absent, Partial, Whole
<1>14. CASE Kill
  BY <1>14 DEF Kill, StoreIsCutOff, RecoverRecord, Fault, Goto, Remains, operation, TypeOK,
     BundlesOK, SealInv, PairInv, OfferInv, Known, Steps, Swapped, Bundles, Releases,
     Absent, Partial, Whole
<1>15. CASE Publish
  BY <1>15 DEF Publish, bundles, versions, operation, past, TypeOK, BundlesOK, SealInv,
     PairInv, OfferInv, Known, Steps, Swapped, Bundles, Releases, Absent, Partial, Whole
<1>16. CASE Fails
  <2>1. CASE CleanFails
    BY <2>1 DEF CleanFails, Fault, Goto, Remains, versions, operation, past, TypeOK,
       BundlesOK, SealInv, PairInv, OfferInv, Known, Steps, Swapped, Bundles, Releases,
       Absent, Partial, Whole
  <2>2. CASE ExtractFails
    BY <2>2 DEF ExtractFails, Fault, Goto, versions, operation, past, TypeOK, BundlesOK,
       SealInv, PairInv, OfferInv, Known, Steps, Swapped, Bundles, Releases, Absent,
       Partial, Whole
  <2>3. CASE MoveOutFails
    BY <2>3 DEF MoveOutFails, Fault, Goto, bundles, versions, operation, past, TypeOK,
       BundlesOK, SealInv, PairInv, OfferInv, Known, Steps, Swapped, Bundles, Releases,
       Absent, Partial, Whole
  <2>4. CASE MoveInFails
    BY <2>4 DEF MoveInFails, Fault, Goto, versions, operation, TypeOK, BundlesOK, SealInv,
       PairInv, OfferInv, Known, Steps, Swapped, Bundles, Releases, Absent, Partial, Whole
  <2>5. CASE SealFails
    BY <2>5 DEF SealFails, Fault, Goto, versions, operation, TypeOK, BundlesOK, SealInv,
       PairInv, OfferInv, Known, Steps, Swapped, Bundles, Releases, Absent, Partial, Whole
  <2>6. CASE TidyFails
    BY <2>6 DEF TidyFails, Fault, Goto, Remains, versions, operation, TypeOK, BundlesOK,
       SealInv, PairInv, OfferInv, Known, Steps, Swapped, Bundles, Releases, Absent,
       Partial, Whole
  <2>7. CASE StoreFails
    BY <2>7 DEF StoreFails, StoreIsCutOff, RecoverRecord, Fault, Goto, bundles, operation,
       TypeOK, BundlesOK, SealInv, PairInv, OfferInv, Known, Steps, Swapped, Bundles,
       Releases, Absent, Partial, Whole
  <2>8. CASE ContentFails
    BY <2>8 DEF ContentFails, Fault, Goto, bundles, versions, operation, past, TypeOK,
       BundlesOK, SealInv, PairInv, OfferInv, Known, Steps, Swapped, Bundles, Releases,
       Absent, Partial, Whole
  <2> QED
    BY <1>16, <2>1, <2>2, <2>3, <2>4, <2>5, <2>6, <2>7, <2>8 DEF Fails
<1>17. CASE UNCHANGED vars
  BY <1>17 DEF vars, bundles, versions, operation, past, TypeOK, BundlesOK, SealInv,
     PairInv, OfferInv, Known, Steps, Swapped, Bundles, Releases, Absent, Partial, Whole
<1> QED
  BY <1>1, <1>2, <1>3, <1>4, <1>5, <1>6, <1>7, <1>8, <1>9, <1>10, <1>11, <1>12, <1>13,
     <1>14, <1>15, <1>16, <1>17 DEF Next

LEMMA Inductive == Spec => []IInv
<1>1. IInv /\ [Next]_vars => IInv'
  BY StepKeepsType, StepKeepsGame, StepKeepsRecord, StepKeepsSeal, StepKeepsPair,
     StepKeepsNewer, StepKeepsOffer DEF IInv
<1> QED
  BY InitInv, <1>1, PTL DEF Spec

-----------------------------------------------------------------------------
(* The types, and that the bundle that was moved in is the one that was    *)
(* extracted and signed.                                                   *)
THEOREM TypeCorrect == Spec => []TypeOK
<1>1. IInv => TypeOK
  BY DEF IInv
<1> QED
  BY Inductive, <1>1, PTL

(* For every number of releases and failures, a whole game is in place or  *)
(* in the backup unless an undo or a recovery has itself failed, and the   *)
(* record of its version is never ahead of it.                             *)
THEOREM AlwaysAGame == Spec => []GameKept
<1>1. IInv => RecordNotAhead
  BY DEF IInv, RecordInv
<1>2. IInv => GameKept
  BY <1>1 DEF IInv, TypeOK, BundlesOK, GameInv, GameKept, InPlace, Steps, Swapped, Bundles,
     Releases, Absent, Partial, Whole
<1> QED
  BY Inductive, <1>2, PTL

(* A game that can be launched is covered by the outer signature, or an    *)
(* update of it was cut off after its rename, or an undo has failed; then  *)
(* the update that signs it again is on offer.                             *)
THEOREM SealedOrOffered == Spec => []SealCovers
<1>1. IInv => SealCovers
  BY DEF IInv, SealInv, OfferInv, SealCovers, InPlace
<1> QED
  BY Inductive, <1>1, PTL

(* What is launched is one release, or a game that is newer than its       *)
(* Content, or a part of one, left by an update that was cut off or by a   *)
(* failed undo; then the update is on offer.                               *)
THEOREM LaunchIsPairedOrOffered == Spec => LaunchedNotBehind
<1>1. IInv /\ [Next]_vars =>
         [ Launches =>
               \/ IsPaired'
               \/ /\ unrecorded \/ unrestored
                  /\ game > content \/ (unrestored /\ game = Partial)
                  /\ record' < published ]_vars
  <2> SUFFICES ASSUME IInv, [Next]_vars, Launches, ~IsPaired'
               PROVE  /\ unrecorded \/ unrestored
                      /\ game > content \/ (unrestored /\ game = Partial)
                      /\ record' < published
    OBVIOUS
  <2>1. Launch
    BY DEF Launches, Next, Fails, vars, bundles, versions, operation, past, Open,
           OpenUnrecovered, Quit, Start, Clean, Extract, MoveOut, MoveIn, Seal, Tidy, Store,
           UpdateContent, CleanFails, ExtractFails, MoveOutFails, MoveInFails, SealFails,
           TidyFails, StoreFails, ContentFails, Kill, Publish
  <2>2. /\ at = "idle" /\ record' = content /\ record' = Known /\ game # Absent
        /\ player' = [game |-> game, content |-> content]
    BY <2>1 DEF Launch, Launches, RecoverRecord, Known
  <2>3. game # Known
    BY <2>2 DEF IsPaired
  <2>4. unrecorded \/ unrestored
    BY <2>2, <2>3 DEF IInv, PairInv, InPlace, Known
  <2>5. Known < published
    BY <2>2, <2>3 DEF IInv, OfferInv, Known
  <2>6. game = Partial \/ game > Known
    BY <2>2, <2>3 DEF IInv, NewerInv, TypeOK, BundlesOK, Bundles, Whole, Releases, Absent,
                      Partial, Known
  <2>7. game = Partial => unrestored
    BY <2>2 DEF IInv, GameInv, InPlace, Whole, Releases, Partial
  <2> QED
    BY <2>2, <2>4, <2>5, <2>6, <2>7
<1> QED
  BY Inductive, <1>1, PTL DEF Spec, LaunchedNotBehind
=============================================================================
