------------------------- MODULE ResumableDownload -------------------------
(***************************************************************************)
(* download_to_path of launcher/src-tauri/src/downloads.rs: one            *)
(* destination, its partial file and the two files that remember the       *)
(* entity tag and the total size, against a server whose file may be       *)
(* replaced at any time.  A byte is represented by the version of the      *)
(* server's file it belongs to.  The process may be killed between any two *)
(* effects on the disk, and the download is called again, as the update    *)
(* engine's blob source (signed: size and hash are known) and the Content  *)
(* archive (unsigned: neither is) do after a failure or a restart.         *)
(***************************************************************************)
EXTENDS Naturals, Sequences

CONSTANTS Versions,    \* versions of the file on the server
          Size,        \* the length of each
          None,        \* an absent file, header or expectation
          MaxAttempts, \* MAX_ATTEMPTS
          MaxCrashes, MaxFaults, MaxChanges \* bounds of a behaviour

ASSUME SizesArePositive == Size \in [Versions -> Nat \ {0}]
ASSUME NoneIsNothingElse == None \notin Versions /\ None \notin Nat
ASSUME BoundsAreNaturals == MaxCrashes \in Nat /\ MaxFaults \in Nat /\ MaxChanges \in Nat
ASSUME AttemptsArePositive == MaxAttempts \in Nat \ {0}

VARIABLES partial, etag, size, \* disk: the .part file and its metadata
          dest,      \* disk: the destination
          expected,  \* the version whose size and hash the caller knows
          tells,     \* whether the server reports the total length
          pc, then,  \* where the call is, and where it goes after a reset
          attempt,   \* attempts made before this one
          known,     \* known_size
          response,  \* the response being handled
          served,    \* the version on the server
          torn,      \* metadata files a kill has left empty
          crashes, faults, changes

disk == <<partial, etag, size, dest>>
setting == <<expected, tells>>
call == <<pc, then, attempt, known, response>>
bounds == <<torn, crashes, faults, changes>>
vars == <<disk, setting, call, served, bounds>>

Whole(v) == [i \in 1 .. Size[v] |-> v]

ExpectedSize == IF expected = None THEN None ELSE Size[expected]

Totals == {Size[v] : v \in Versions} \cup {None}

Responses ==
    [body : Versions, ranged : BOOLEAN, total : Totals, etag : Versions \cup {None}]

ASSUME NoneIsNoResponse == None \notin Responses

TypeOK ==
    /\ partial \in Seq(Versions)
    /\ etag \in Versions \cup {None}
    /\ size \in Totals
    /\ dest \in Seq(Versions) \cup {None}
    /\ expected \in Versions \cup {None} /\ tells \in BOOLEAN
    /\ pc \in {"idle", "check", "request", "headers", "remember size", "remember etag",
               "body", "validate", "validate cut", "reset", "retry", "ok", "failed",
               "forget"}
    /\ then \in {"request", "headers", "retry"}
    /\ attempt \in 0 .. MaxAttempts - 1
    /\ known \in Totals
    /\ response \in Responses \cup {None}
    /\ served \in Versions
    /\ torn \in Nat /\ crashes \in Nat /\ faults \in Nat /\ changes \in Nat

(* A destination may be left of an earlier download, even a damaged one.   *)
Init ==
    /\ partial = <<>> /\ etag = None /\ size = None
    /\ expected \in Versions \cup {None} /\ tells \in BOOLEAN
    /\ dest \in {None} \cup IF expected = None THEN {}
                            ELSE {Whole(v) : v \in Versions}
    /\ pc = "idle" /\ then = "retry"
    /\ attempt = 0 /\ known = None /\ response = None
    /\ served \in Versions
    /\ torn = 0 /\ crashes = 0 /\ faults = 0 /\ changes = 0

-----------------------------------------------------------------------------
(* The call before its first request.                                      *)

Call ==
    /\ pc \in {"idle", "failed"}
    /\ pc' = "check"
    /\ known' = IF expected # None THEN ExpectedSize ELSE size
    /\ attempt' = 0 /\ response' = None
    /\ UNCHANGED <<disk, setting, then, served, bounds>>

(* Faulty: only the size is compared. *)
MatchesSize(content) == expected # None => Len(content) = Size[expected]

(* file_matches_hash *)
MatchesHash(content) == expected # None => content = Whole(expected)

(* file_is_complete *)
IsComplete(content) ==
    /\ content \notin {<<>>, None}
    /\ known # None \/ expected # None
    /\ known # None => Len(content) = known
    /\ MatchesHash(content)

(* promote_if_complete, then the destination as it is, or else removed. *)
Check ==
    /\ pc = "check"
    /\ UNCHANGED <<etag, size, setting, then, attempt, known, response, served, bounds>>
    /\ \/ /\ IsComplete(partial)
          /\ dest' = partial /\ partial' = <<>>
          /\ pc' = "ok"
       \/ /\ ~IsComplete(partial) /\ IsComplete(dest)
          /\ pc' = "ok"
          /\ UNCHANGED <<dest, partial>>
       \/ /\ ~IsComplete(partial) /\ ~IsComplete(dest)
          /\ dest' = None
          /\ pc' = "request"
          /\ UNCHANGED partial

-----------------------------------------------------------------------------
(* reset_partial removes the partial file, its tag and its size, in this   *)
(* order; every caller but one then forgets the size it knew.              *)

StartReset(next) == pc' = "reset" /\ then' = next

Reset ==
    /\ pc = "reset"
    /\ UNCHANGED <<dest, setting, then, attempt, response, served, bounds>>
    /\ \/ /\ partial # <<>>
          /\ partial' = <<>>
          /\ UNCHANGED <<etag, size, pc, known>>
       \/ /\ partial = <<>> /\ etag # None
          /\ etag' = None
          /\ UNCHANGED <<partial, size, pc, known>>
       \/ /\ partial = <<>> /\ etag = None
          /\ size' = None
          /\ known' = ExpectedSize
          /\ pc' = then
          /\ UNCHANGED <<partial, etag>>

(* Faulty: one attempt too many. *)
RetryOnceMore ==
    /\ pc = "retry"
    /\ IF attempt + 1 > MaxAttempts
       THEN pc' = "failed" /\ UNCHANGED attempt
       ELSE pc' = "request" /\ attempt' = attempt + 1
    /\ UNCHANGED <<disk, setting, then, known, response, served, bounds>>

(* Faulty: the attempts are not counted. *)
RetryForEver ==
    /\ pc = "retry"
    /\ pc' = "request"
    /\ UNCHANGED <<disk, setting, then, attempt, known, response, served, bounds>>

(* schedule_retry *)
Retry ==
    /\ pc = "retry"
    /\ IF attempt + 1 >= MaxAttempts
       THEN pc' = "failed" /\ UNCHANGED attempt
       ELSE pc' = "request" /\ attempt' = attempt + 1
    /\ UNCHANGED <<disk, setting, then, known, response, served, bounds>>

-----------------------------------------------------------------------------
(* One attempt.  The server is external: it honours If-Range, gives every  *)
(* version its own entity tag, and may ignore a range.                     *)

Offset == Len(partial)

TooLong == known # None /\ Offset > known

ResetTooLong ==
    /\ pc = "request" /\ TooLong
    /\ StartReset("request")
    /\ UNCHANGED <<disk, setting, attempt, known, response, served, bounds>>

(* The answer to a request with Range: bytes=offset- and If-Range: etag. *)
Answered(ranged) ==
    /\ pc = "request" /\ ~TooLong
    /\ ranged => Offset > 0 /\ Offset < Size[served] /\ etag \in {None, served}
    /\ response' = [body |-> served, ranged |-> ranged, etag |-> served,
                    total |-> IF tells THEN Size[served] ELSE None]
    /\ UNCHANGED <<disk, setting, attempt, known, served, bounds>>

AnsweredInPart ==
    /\ Answered(TRUE)
    /\ pc' = "headers" /\ UNCHANGED then

(* A full answer to a range request: the partial file is discarded. *)
AnsweredInFull ==
    /\ Answered(FALSE)
    /\ IF Offset > 0 THEN StartReset("headers") ELSE pc' = "headers" /\ UNCHANGED then

(* Faulty: a refused range is asked for again. *)
RangeRefusedKeepsPartial ==
    /\ pc = "request" /\ ~TooLong
    /\ Offset >= Size[served] /\ etag \in {None, served}
    /\ pc' = "retry"
    /\ UNCHANGED <<disk, setting, then, attempt, known, response, served, bounds>>

(* 416, when the partial file is as long as the server's, or longer.       *)
RangeRefused ==
    /\ pc = "request" /\ ~TooLong
    /\ Offset >= Size[served] /\ etag \in {None, served}
    /\ StartReset("retry")
    /\ UNCHANGED <<disk, setting, attempt, known, response, served, bounds>>

TotalIsUnknown ==
    response.ranged /\ known = None /\ response.total = None /\ expected = None

(* Faulty: the total is compared with the signed size only. *)
SignedTotalHasChanged ==
    /\ Offset > 0 /\ response.ranged
    /\ expected # None /\ response.total # None /\ known # response.total

TotalHasChanged ==
    /\ Offset > 0 /\ response.ranged
    /\ known # None /\ response.total # None /\ known # response.total

TotalIsUnexpected ==
    expected # None /\ response.total # None /\ response.total # ExpectedSize

RejectHeaders ==
    /\ pc = "headers"
    /\ TotalIsUnknown \/ TotalHasChanged \/ TotalIsUnexpected
    /\ StartReset("retry")
    /\ UNCHANGED <<disk, setting, attempt, known, response, served, bounds>>

AcceptHeaders ==
    /\ pc = "headers"
    /\ ~(TotalIsUnknown \/ TotalHasChanged \/ TotalIsUnexpected)
    /\ pc' = IF response.total = None THEN "remember etag" ELSE "remember size"
    /\ known' = IF response.total = None THEN known ELSE response.total
    /\ UNCHANGED <<disk, setting, then, attempt, response, served, bounds>>

RememberSize ==
    /\ pc = "remember size"
    /\ size' = response.total
    /\ pc' = "remember etag"
    /\ UNCHANGED <<partial, etag, dest, setting, then, attempt, known, response, served, bounds>>

RememberEtag ==
    /\ pc = "remember etag"
    /\ etag' = response.etag
    /\ pc' = "body"
    /\ UNCHANGED <<partial, size, dest, setting, then, attempt, known, response, served, bounds>>

(* transfer_download: one read, and its write to the partial file. *)
Receive ==
    /\ pc = "body" /\ Offset < Size[response.body]
    /\ partial' = Append(partial, response.body)
    /\ UNCHANGED <<etag, size, dest, setting, call, served, bounds>>

EndBody ==
    /\ pc = "body" /\ Offset >= Size[response.body]
    /\ pc' = "validate"
    /\ UNCHANGED <<disk, setting, then, attempt, known, response, served, bounds>>

(* A body whose read failed counts as complete at the known length. *)
CanValidate ==
    \/ pc = "validate" /\ known \in {None, Offset}
    \/ pc = "validate cut" /\ known = Offset

Promote ==
    /\ CanValidate /\ MatchesHash(partial)
    /\ dest' = partial /\ partial' = <<>>
    /\ pc' = "ok"
    /\ UNCHANGED <<etag, size, setting, then, attempt, known, response, served, bounds>>

RejectHash ==
    /\ CanValidate /\ ~MatchesHash(partial)
    /\ StartReset("retry")
    /\ UNCHANGED <<disk, setting, attempt, known, response, served, bounds>>

EndedShort ==
    /\ pc \in {"validate", "validate cut"} /\ ~CanValidate
    /\ pc' = "retry"
    /\ UNCHANGED <<disk, setting, then, attempt, known, response, served, bounds>>

-----------------------------------------------------------------------------
(* Around the call.                                                        *)

(* After an update, or after the archive is extracted or found invalid,    *)
(* the destination goes, and then its metadata.                            *)
Discard ==
    /\ pc = "ok"
    /\ dest' = None
    /\ pc' = "forget" /\ response' = None
    /\ UNCHANGED <<partial, etag, size, setting, then, attempt, known, served, bounds>>

Forget ==
    /\ pc = "forget"
    /\ etag' = None
    /\ IF etag # None
       THEN UNCHANGED <<size, pc>>
       ELSE size' = None /\ pc' = "idle"
    /\ UNCHANGED <<partial, dest, setting, then, attempt, known, response, served, bounds>>

(* The connection fails before or in the body, the server answers with a   *)
(* status that is retried or one that is not, or with a range that was not *)
(* asked for, or a file operation fails.                                   *)
Fault ==
    /\ faults < MaxFaults /\ faults' = faults + 1
    /\ \/ pc = "request" /\ ~TooLong /\ pc' \in {"retry", "failed"} /\ UNCHANGED then
       \/ pc = "request" /\ ~TooLong /\ StartReset("retry")
       \/ pc = "body" /\ pc' = "validate cut" /\ UNCHANGED then
       \/ /\ pc \in {"check", "remember size", "remember etag", "body", "validate", "reset"}
          /\ pc' = "failed" /\ UNCHANGED then
    /\ UNCHANGED <<disk, setting, attempt, known, response, served, torn, crashes, changes>>

(* The process is killed: in fs::write of a metadata file, between the     *)
(* truncation and the write, it leaves the file empty, which reads as      *)
(* absent.                                                                 *)
Kill ==
    /\ pc # "idle"
    /\ crashes < MaxCrashes /\ crashes' = crashes + 1
    /\ pc' = "idle" /\ then' = "retry" /\ attempt' = 0 /\ known' = None /\ response' = None
    /\ UNCHANGED <<partial, dest, setting, served, faults, changes>>

Crash == Kill /\ UNCHANGED <<etag, size, torn>>

TearSize ==
    /\ pc = "remember size" /\ Kill
    /\ size' = None /\ torn' = torn + 1 /\ UNCHANGED etag

TearEtag ==
    /\ pc = "remember etag" /\ Kill
    /\ etag' = None /\ torn' = torn + 1 /\ UNCHANGED size

Publish ==
    /\ changes < MaxChanges /\ changes' = changes + 1
    /\ served' \in Versions \ {served}
    /\ UNCHANGED <<disk, setting, call, torn, crashes, faults>>

-----------------------------------------------------------------------------
Step ==
    \/ Check \/ Reset \/ Retry
    \/ ResetTooLong \/ AnsweredInPart \/ AnsweredInFull \/ RangeRefused
    \/ RejectHeaders \/ AcceptHeaders \/ RememberSize \/ RememberEtag
    \/ Receive \/ EndBody \/ Promote \/ RejectHash \/ EndedShort
    \/ Forget

Next == Call \/ Step \/ Discard \/ Fault \/ Crash \/ TearSize \/ TearEtag \/ Publish

Spec == Init /\ [][Next]_vars

(* The call goes on, and the user retries a failed one. *)
FairSpec == Spec /\ WF_vars(Step) /\ WF_vars(Call)

-----------------------------------------------------------------------------
(* Properties.                                                             *)

(* A signed download that succeeded delivered exactly the bytes of its     *)
(* hash, whatever the server changed to and wherever it was killed.        *)
SignedIsGenuine == pc = "ok" /\ expected # None => dest = Whole(expected)

(* A file at the destination of an unsigned download is complete, and of   *)
(* one version of the server's file up to versions of the same length:     *)
(* losing the tag or the size to a kill is made good by the other, losing  *)
(* both is not.                                                            *)
UnsignedIsWhole ==
    expected = None /\ dest # None /\ torn < 2 =>
        \A i \in DOMAIN dest : Size[dest[i]] = Len(dest)

(* A call ends, and nothing left on the disk makes downloads fail for ever: *)
(* once the failures are over, a call delivers what the server has, or says *)
(* that this is not what was signed.                                       *)
Delivers ==
    \/ []<>(pc = "ok")
    \/ []<>(pc = "failed") /\ <>[](expected # None /\ served # expected)
=============================================================================
