---------------------------- MODULE AtomicUpdate ----------------------------
(***************************************************************************)
(* What update-core promises its callers, without its mechanism: an apply  *)
(* that was asked for is carried out as a whole, in one step, which        *)
(* answers success, or changes nothing and answers an error; and no crash, *)
(* fault or recovery is ever visible in the installation.                  *)
(* UpdateTransaction implements it.                                        *)
(***************************************************************************)
EXTENDS ManifestPlan

VARIABLES installed,  \* the files of the installation
          request,    \* the apply that is under way
          outcome     \* the answer of the last call

avars == <<installed, request, outcome>>

(* An apply is asked for the plan and the manifest its caller has; of a    *)
(* verified one the caller also wants every file of the manifest in place. *)
Requests == [target : Manifests, changed : SUBSET Paths, removed : SUBSET Paths,
             how : {"checked", "unchecked"}]
NoRequest == [target |-> EmptyManifest, changed |-> {}, removed |-> {}, how |-> "none"]

Init ==
    /\ installed \in Manifests
    /\ request = NoRequest
    /\ outcome = "none"

(* A caller asks for an apply, whose plan writes files of its manifest.    *)
Ask ==
    /\ request = NoRequest
    /\ request' \in Requests
    /\ request'.changed \subseteq Listed(request'.target)
    /\ outcome' = "none"
    /\ UNCHANGED installed

(* The apply succeeds: exactly the plan that was asked for is carried out, *)
(* of which a verified apply only then says so when the files are right.   *)
Publish ==
    /\ request # NoRequest
    /\ installed' = Carried(installed, request.target, request.changed, request.removed)
    /\ IF request.how = "checked"
       THEN outcome' = "verified" /\ VerifyInstall(installed', request.target)
       ELSE outcome' = "ok"
    /\ request' = NoRequest

(* The apply, or a recovery, fails. *)
Fail ==
    /\ outcome' = "error"
    /\ request' = NoRequest
    /\ UNCHANGED installed

(* A recovery begins, or the process that knew of the apply is gone.       *)
Forget ==
    /\ outcome' = "none"
    /\ request' = NoRequest
    /\ UNCHANGED installed

Next == Ask \/ Publish \/ Fail \/ Forget

Spec == Init /\ [][Next]_avars
=============================================================================
